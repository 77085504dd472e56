------------------------------ MODULE OrderDesk ------------------------------
(***************************************************************************)
(* The order path of one symbol: the hotkeys and the confirm prompt of     *)
(* ui.Model, risk.Checker, RESTExecutor's buy, sell, flatten, panic and    *)
(* cancel requests, and the cached book of state.Store, kept by trade      *)
(* updates and by REST snapshots that travel beside each other.            *)
(*                                                                         *)
(* Actors: the bubbletea loop (the intents, Confirm, Decline,              *)
(* PreviewShown), one goroutine per request, the trading websocket's read  *)
(* goroutine (Deliver and the connection), the 5 s poll and the refresh    *)
(* after a reconnect, and the broker, which is external: it accepts,       *)
(* fills and ends orders.                                                  *)
(*                                                                         *)
(* Sizes are whole shares and the session is one in which orders are       *)
(* taken; prices are left out.  The kill switch and the debounce window    *)
(* are left out too: they only withhold intents, which the operator may    *)
(* withhold anyway, so every behaviour with them is one of this module.    *)
(***************************************************************************)
EXTENDS Integers, Sequences, FiniteSets, FiniteSetsExt

CONSTANTS StartQty,       \* the broker's position at start-up, long
          Sizes,          \* order sizes: presets and `:buy`, `:sell`
          MaxOrderQty,    \* limits.max_order_qty
          MaxPositionQty, \* limits.max_position_qty
          MaxIntents,     \* bound: intents of the operator that pass
          MaxAuths,       \* bound: authorizations of the trading websocket
          MaxBoth         \* bound: intents and authorizations together

ASSUME DeskAssumption ==
  /\ StartQty \in Nat /\ Sizes \subseteq Nat \ {0}
  /\ MaxOrderQty \in Nat \ {0} /\ MaxPositionQty \in Nat \ {0}
  /\ MaxIntents \in Nat /\ MaxAuths \in Nat /\ MaxBoth \in Nat

VARIABLES
  broker,    \* the broker's position and working orders
  ws,        \* TradingWS: down, authorized, listening
  auths,     \* authorizations so far
  stream,    \* trade updates sent and not yet handled by OnUpdate
  book,      \* Store: reconciled, positions, orders
  refresh,   \* the Refresh calls of the poll and of OnReconnect
  pending,   \* Model.pending, at most one request
  requests,  \* request goroutines in flight
  intents,   \* requests made so far; their number is the order id
  trusted,   \* history: no update was lost or overwritten since a snapshot
  blind      \* history: an order was checked against a book that was behind,
             \* or an exit was sized while something else could trade

marketVars == <<broker, ws, auths, stream>>
storeVars == <<book, refresh, trusted>>
deskVars == <<pending, requests, intents, blind>>
vars == <<marketVars, storeVars, deskVars>>

Sides == {"buy", "sell"}
Ids == 1..MaxIntents
Orders == [id: Ids, side: Sides, left: Nat]

Abs(n) == IF n < 0 THEN -n ELSE n
Sign(side) == IF side = "buy" THEN 1 ELSE -1
SameSide(m, n) == (m > 0) = (n > 0)
ExitSide(qty) == IF qty < 0 THEN "buy" ELSE "sell"

\* A request: what it will send, how far it is, and what it has read.
NewRequest(kind, at) ==
  [id |-> intents + 1, kind |-> kind, at |-> at, side |-> "buy", qty |-> 0,
   rest |-> 0, local |-> 0, confirm |-> 0, cancel |-> {}, alone |-> FALSE]

Resting == [at |-> "idle", pos |-> 0, orders |-> {}, clean |-> FALSE]

Init ==
  /\ broker = [pos |-> StartQty, orders |-> {}]
  /\ ws = "down" /\ auths = 0 /\ stream = <<>>
  /\ book = [reconciled |-> FALSE, pos |-> 0, orders |-> {}]
  /\ refresh = [w \in {"poll", "reconnect"} |-> Resting]
  /\ pending = {} /\ requests = {} /\ intents = 0
  /\ trusted = FALSE /\ blind = FALSE
-----------------------------------------------------------------------------
(* risk.Checker. *)

\* The shares the orders of one side still ask for.
Shares(os, side) ==
  UNION {{o.id} \X (1..o.left) : o \in {q \in os : q.side = side}}

\* workingSideQtyLocked: how many there are.
Working(os, side) == Cardinality(Shares(os, side))

\* Mutant: resting orders are left out of the projection.
PositionOnly(side) == book.pos

\* projectedExposure: position and same-side working orders, signed.
Exposure(side) == book.pos + Sign(side) * Working(book.orders, side)

\* CheckOpts without options: order size and projected position (a strict
\* reduction is let through above the cap).
Check(side, qty) ==
  LET base == Exposure(side)
      proj == base + Sign(side) * qty
  IN  /\ qty <= MaxOrderQty
      /\ \/ Abs(proj) <= MaxPositionQty
         \/ Abs(proj) < Abs(base) /\ (proj = 0 \/ base * proj > 0)
-----------------------------------------------------------------------------
(* ui.Model: intents and the confirm prompt. *)

Accompanied(r) == [r EXCEPT !.alone = FALSE]

\* execAsync: the request runs, and no other is alone any more.
Commit(r) == requests' = {Accompanied(x) : x \in requests} \cup {r}

OrderRequest(side, qty) ==
  [NewRequest("order", "send") EXCEPT !.side = side, !.qty = qty]

\* With cfg.ConfirmOrders, which `:confirm` may switch at any time, the
\* request waits for the prompt; without, it runs at once.
Prompted(r) ==
  \/ pending' = {r} /\ UNCHANGED requests
  \/ Commit(r) /\ UNCHANGED pending

MayIntend == intents < MaxIntents /\ intents + auths < MaxBoth

\* The book shows what the broker has, and nothing else may trade.
Seeing ==
  /\ book.pos = broker.pos /\ book.orders = broker.orders
  /\ \A r \in requests : r.kind = "cancel"

OrderIntent(side, qty) ==
  /\ pending = {} /\ MayIntend
  /\ book.reconciled
  /\ Check(side, qty)
  /\ intents' = intents + 1
  /\ blind' = (blind \/ ~Seeing)
  /\ Prompted(OrderRequest(side, qty))
  /\ UNCHANGED <<marketVars, storeVars>>

\* addReduce: the side follows the book's sign, a reduction is at most it.
Add(qty) == OrderIntent(IF book.pos < 0 THEN "sell" ELSE "buy", qty)

Reduce(qty) ==
  /\ book.pos # 0
  /\ OrderIntent(ExitSide(book.pos), Min({qty, Abs(book.pos)}))

\* flattenIntent looks the position up for the prompt; panicIntent and
\* cancelIntent start at once.  None of them asks the checker.
Start(kind, at) ==
  /\ pending = {} /\ MayIntend
  /\ intents' = intents + 1
  /\ Commit(NewRequest(kind, at))
  /\ UNCHANGED <<marketVars, storeVars, pending, blind>>

FlattenIntent == Start("preview", "look")
PanicIntent == Start("panic", "list")
CancelIntent == Start("cancel", "list")

Confirm ==
  \E r \in pending :
    /\ pending' = {}
    /\ Commit(r)
    /\ UNCHANGED <<marketVars, storeVars, intents, blind>>

Decline ==
  /\ pending # {}
  /\ pending' = {}
  /\ UNCHANGED <<marketVars, storeVars, requests, intents, blind>>
-----------------------------------------------------------------------------
(* Requests in flight. *)

\* Request r moves on, or ends.
Becomes(r, x) == requests' = (requests \ {r}) \cup {x}
Ends(r) == requests' = requests \ {r}

restVars == <<marketVars, storeVars, intents, blind>>

\* Mutant: a second prompt queues behind the first.
Queueing(f) == pending \cup {f}

\* m.pending = p, whatever prompt was shown.
Replacing(f) == {f}

\* flattenConfirm: the flatten remembers the position it was shown.
ToFlatten(r) ==
  [r EXCEPT !.kind = "flatten", !.at = "look", !.alone = FALSE,
            !.confirm = r.qty, !.qty = 0]

\* flattenPreviewMsg in Update.
PreviewShown(r) ==
  /\ r.at = "shown"
  /\ \/ pending' = Replacing(ToFlatten(r)) /\ Ends(r)
     \/ Becomes(r, ToFlatten(r)) /\ UNCHANGED pending
  /\ UNCHANGED restVars

ToCancel(r, ids) == [r EXCEPT !.cancel = ids, !.at = "cancel"]
Without(r, id) == [r EXCEPT !.cancel = @ \ {id}]
ToLook(r) == [r EXCEPT !.at = "look"]

\* CancelSymbol: the open orders are listed (none, if the listing fails) ...
CancelList(r) ==
  /\ r.at = "list"
  /\ \E ids \in {{}, {o.id : o \in broker.orders}} :
       Becomes(r, ToCancel(r, ids))
  /\ UNCHANGED <<restVars, pending>>

\* ... each gets its DELETE, successful or not ...
Cancelled(r, id) ==
  /\ r.at = "cancel" /\ id \in r.cancel
  /\ Becomes(r, Without(r, id))
  /\ UNCHANGED <<intents, blind, pending>>

CancelFails(r) ==
  /\ \E id \in r.cancel : Cancelled(r, id)
  /\ UNCHANGED <<marketVars, storeVars>>

\* ... and a panic goes on to the position, whatever the cancels did.
CancelsDone(r) ==
  /\ r.at = "cancel" /\ r.cancel = {}
  /\ IF r.kind = "panic" THEN Becomes(r, ToLook(r)) ELSE Ends(r)
  /\ UNCHANGED <<restVars, pending>>

\* Mutant: the local book is believed over REST.
PreferLocal(rest, local) == local

\* preferConservativeQty.
Prefer(rest, local) ==
  IF SameSide(rest, local) /\ Abs(local) < Abs(rest) THEN local ELSE rest

\* Nothing else can change the position this exit is sized from, except
\* orders that enlarge it.
Alone(r) ==
  requests = {r} /\ \A o \in broker.orders : o.side # ExitSide(broker.pos)

\* The exit is sized: dropped when flat or when the side flipped since the
\* prompt, shown when it is only the lookup for the prompt, else sent.
Settled(r, alone) == [r EXCEPT !.rest = 0, !.local = 0, !.alone = alone]
ToShow(r, qty) == [r EXCEPT !.at = "shown", !.qty = qty]
ToSend(r, side, qty) == [r EXCEPT !.at = "send", !.side = side, !.qty = qty]

Sized(r, qty, alone) ==
  IF qty = 0 \/ (r.kind = "flatten" /\ ~SameSide(r.confirm, qty)) THEN Ends(r)
  ELSE IF r.kind = "preview" THEN Becomes(r, ToShow(Settled(r, alone), qty))
  ELSE Becomes(r, ToSend(Settled(r, alone), ExitSide(qty), Abs(qty)))

Answered(r, alone) ==
  [r EXCEPT !.at = "resolve", !.rest = broker.pos, !.alone = alone]
AskAgain(r) == [r EXCEPT !.at = "again", !.local = book.pos]

\* resolvePositionQty: GET /v2/positions first; on an error the local book.
Look(r) ==
  /\ r.at = "look"
  /\ \/ Becomes(r, Answered(r, Alone(r)))
     \/ Sized(r, book.pos, FALSE)
  /\ UNCHANGED <<restVars, pending>>

\* A flat answer against a local position is asked for again.
Resolve(r) ==
  /\ r.at = "resolve"
  /\ IF r.rest = 0 /\ book.pos # 0
       THEN Becomes(r, AskAgain(r))
       ELSE Sized(r, IF book.pos = 0 THEN r.rest ELSE Prefer(r.rest, book.pos),
                  r.alone)
  /\ UNCHANGED <<restVars, pending>>

LookAgain(r) ==
  /\ r.at = "again"
  /\ \/ Sized(r, IF broker.pos = 0 THEN 0 ELSE Prefer(broker.pos, r.local),
              Alone(r))
     \/ Sized(r, r.local, FALSE)
  /\ UNCHANGED <<restVars, pending>>
-----------------------------------------------------------------------------
(* The broker and the trading websocket. *)

\* The snapshots being read are crossed by a change they may miss.
Crossed == [w \in DOMAIN refresh |-> [refresh[w] EXCEPT !.clean = FALSE]]

\* A change at the broker: o is what it did to an order, pos the position it
\* leaves and known whether the update names it.  Without a listener it is
\* lost, also on the snapshots being read.
Publish(event, o, known) ==
  IF ws = "listening"
    THEN /\ stream' = Append(stream, [event |-> event, order |-> o,
                                      pos |-> broker'.pos, known |-> known])
         /\ UNCHANGED <<trusted, refresh>>
    ELSE /\ trusted' = FALSE
         /\ refresh' = Crossed
         /\ UNCHANGED stream

\* PlaceOrder reaches the broker; the answer changes nothing in the terminal.
Accepted(r) ==
  LET o == [id |-> r.id, side |-> r.side, left |-> r.qty] IN
  /\ r.at = "send"
  /\ Ends(r)
  /\ broker' = [broker EXCEPT !.orders = @ \cup {o}]
  /\ Publish("new", o, FALSE)
  /\ blind' = (blind \/ (r.kind # "order" /\ ~r.alone))
  /\ UNCHANGED <<ws, auths, book, pending, intents>>

\* The builder, the transport or the broker refuses.
Refused(r) ==
  /\ r.at = "send"
  /\ Ends(r)
  /\ UNCHANGED <<restVars, pending>>

Fill(o, n) ==
  LET left == o.left - n
      rest == broker.orders \ {o}
      more == {[o EXCEPT !.left = left]}
  IN  /\ n <= o.left
      /\ broker' = [pos |-> broker.pos + Sign(o.side) * n,
                    orders |-> IF left = 0 THEN rest ELSE rest \cup more]
      /\ \E known \in IF left = 0 THEN {TRUE} ELSE BOOLEAN :
           Publish(IF left = 0 THEN "fill" ELSE "partial_fill",
                   [o EXCEPT !.left = left], known)
      /\ UNCHANGED <<ws, auths, book, deskVars>>

\* canceled, expired, rejected after acceptance.
Gone(o) ==
  /\ broker' = [broker EXCEPT !.orders = @ \ {o}]
  /\ Publish("canceled", o, FALSE)
  /\ UNCHANGED <<ws, auths, book>>

OrderExpires(o) == Gone(o) /\ UNCHANGED deskVars

CancelSucceeds(r) ==
  \E o \in broker.orders : Cancelled(r, o.id) /\ Gone(o)

\* Every authorization but the first starts a Refresh; the broker may answer
\* the listen request later.
Authorize ==
  /\ ws = "down" /\ auths < MaxAuths /\ intents + auths < MaxBoth
  /\ ws' = "authorized" /\ auths' = auths + 1
  /\ refresh' = IF auths = 0 THEN refresh
                ELSE [refresh EXCEPT !["reconnect"].at = "due"]
  /\ UNCHANGED <<broker, stream, book, trusted, deskVars>>

Listen ==
  /\ ws = "authorized"
  /\ ws' = "listening"
  /\ UNCHANGED <<broker, auths, stream, storeVars, deskVars>>

Drop ==
  /\ ws # "down"
  /\ ws' = "down" /\ stream' = <<>>
  /\ IF stream = <<>> THEN UNCHANGED <<trusted, refresh>>
     ELSE /\ trusted' = FALSE
          /\ refresh' = Crossed
  /\ UNCHANGED <<broker, auths, book, deskVars>>
-----------------------------------------------------------------------------
(* state.Store. *)

Fills == {"fill", "partial_fill"}

\* ApplyUpdate: terminal events delete the row, the others store it.
OrdersAfter(e) ==
  {o \in book.orders : o.id # e.order.id}
    \cup IF e.event \in {"fill", "canceled"} THEN {} ELSE {e.order}

\* applyPositionFromFill: a zero on a partial fill is taken for no answer.
PosAfter(e) ==
  IF e.event \in Fills /\ e.known /\ (e.pos # 0 \/ e.event = "fill")
    THEN e.pos ELSE book.pos

Deliver ==
  LET e == Head(stream) IN
  /\ stream # <<>>
  /\ stream' = Tail(stream)
  /\ book' = [book EXCEPT !.orders = OrdersAfter(e), !.pos = PosAfter(e)]
  /\ trusted' = (trusted /\ (e.event \in Fills => PosAfter(e) = e.pos))
  /\ refresh' = Crossed
  /\ UNCHANGED <<broker, ws, auths, deskVars>>

\* Refresh: positions, then orders, then Reconcile; any call may fail.
ReadPositions(w) ==
  /\ refresh[w].at = IF w = "poll" THEN "idle" ELSE "due"
  /\ refresh' = [refresh EXCEPT ![w] = [at |-> "positions", pos |-> broker.pos,
                                        orders |-> {}, clean |-> TRUE]]
  /\ UNCHANGED <<marketVars, book, trusted, deskVars>>

ReadOrders(w) ==
  /\ refresh[w].at = "positions"
  /\ refresh' = [refresh EXCEPT ![w] = [at |-> "orders", pos |-> @.pos,
                                        orders |-> broker.orders,
                                        clean |-> @.clean]]
  /\ UNCHANGED <<marketVars, book, trusted, deskVars>>

RefreshFails(w) ==
  /\ refresh[w].at \in {"due", "positions"}
  /\ refresh' = [refresh EXCEPT ![w] = Resting]
  /\ UNCHANGED <<marketVars, book, trusted, deskVars>>

\* Mutant: the snapshot's orders are added to those already there.
Merged(w) == book.orders \cup refresh[w].orders

\* Reconcile replaces the order map.
Snapshot(w) == refresh[w].orders

Reconcile(w) ==
  /\ refresh[w].at = "orders"
  /\ book' = [reconciled |-> TRUE, pos |-> refresh[w].pos,
              orders |-> Snapshot(w)]
  /\ trusted' = refresh[w].clean
  /\ refresh' = [refresh EXCEPT ![w] = Resting]
  /\ UNCHANGED <<marketVars, deskVars>>
-----------------------------------------------------------------------------
Next ==
  \/ \E qty \in Sizes :
       \/ \E side \in Sides : OrderIntent(side, qty)
       \/ Add(qty) \/ Reduce(qty)
  \/ FlattenIntent \/ PanicIntent \/ CancelIntent
  \/ Confirm \/ Decline
  \/ \E r \in requests :
       \/ PreviewShown(r) \/ CancelList(r) \/ CancelFails(r) \/ CancelSucceeds(r)
       \/ CancelsDone(r) \/ Look(r) \/ Resolve(r) \/ LookAgain(r)
       \/ Accepted(r) \/ Refused(r)
  \/ \E o \in broker.orders :
       \/ \E n \in 1..o.left : Fill(o, n)
       \/ OrderExpires(o)
  \/ Authorize \/ Listen \/ Drop \/ Deliver
  \/ \E w \in DOMAIN refresh :
       ReadPositions(w) \/ ReadOrders(w) \/ RefreshFails(w) \/ Reconcile(w)

Spec == Init /\ [][Next]_vars
-----------------------------------------------------------------------------
Requests ==
  [id: Ids, kind: {"order", "preview", "flatten", "panic", "cancel"},
   at: {"list", "cancel", "look", "resolve", "again", "shown", "send"},
   side: Sides, qty: Int, rest: Int, local: Int, confirm: Int,
   cancel: SUBSET Ids, alone: BOOLEAN]

Updates == [event: {"new", "fill", "partial_fill", "canceled"},
            order: Orders, pos: Int, known: BOOLEAN]

\* Every variable keeps its type: at most one prompt waits, what is sent has a
\* positive size and no two orders of the book share an id.
TypeOK ==
  /\ broker \in [pos: Int, orders: SUBSET Orders]
  /\ ws \in {"down", "authorized", "listening"} /\ auths \in 0..MaxAuths
  /\ stream \in Seq(Updates)
  /\ book \in [reconciled: BOOLEAN, pos: Int, orders: SUBSET Orders]
  /\ \A o, q \in book.orders : o.id = q.id => o = q
  /\ refresh \in [{"poll", "reconnect"} ->
                  [at: {"idle", "due", "positions", "orders"}, pos: Int,
                   orders: SUBSET Orders, clean: BOOLEAN]]
  /\ pending \subseteq Requests /\ \A r, x \in pending : r = x
  /\ requests \subseteq Requests
  /\ \A r \in pending \cup requests : r.at = "send" => r.qty > 0
  /\ intents \in 0..MaxIntents
  /\ trusted \in BOOLEAN /\ blind \in BOOLEAN

\* A snapshot that no update crossed makes the book right, and updates keep it
\* right: once they are all handled the book is the broker's, whatever older
\* updates were still on their way when the snapshot landed.
BookTracksBroker ==
  trusted /\ stream = <<>> =>
    book.pos = broker.pos /\ book.orders = broker.orders

Within(cap) ==
  /\ broker.pos + Working(broker.orders, "buy") <= cap
  /\ Working(broker.orders, "sell") - broker.pos <= cap

\* As long as every order was checked against a current book, filled and
\* resting size on one side stays within the cap at the broker, however the
\* orders fill, expire or are cancelled after the check.
CapWhenSeen == ~blind => Within(Max({MaxPositionQty, StartQty}))

\* What the comment of WorkingSideQty says: stacked orders on one side do not
\* exceed max_position_qty.
CapHeld == Within(Max({MaxPositionQty, StartQty}))

Exits == {r \in requests : r.kind # "order" /\ r.at = "send"}

\* A flatten or panic that is alone never sends more than the position it
\* exits, whatever the local book says and whatever entries fill meanwhile.
LoneExitFits ==
  \A r \in Exits :
    r.alone => Sign(r.side) * broker.pos < 0 /\ r.qty <= Abs(broker.pos)
=============================================================================
