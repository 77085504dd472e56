-------------------------- MODULE OrderDesk_proofs --------------------------
(***************************************************************************)
(* Proofs about OrderDesk for every position, size, cap and bound.  Three  *)
(* groups of invariants carry them: which ids are taken (IdsInv), what the *)
(* updates still on their way say about the broker (StreamInv, BookInv),   *)
(* and what an exit that is alone (ExitInv) and an order that was checked  *)
(* against a current book (CapInv) may still do.                           *)
(***************************************************************************)
EXTENDS OrderDesk, FiniteSetTheorems, TLAPS

\* How far a request of each kind can be: an order has nothing to look up, a
\* cancel sends no order and only a preview is shown.
KindFits(r) ==
  /\ r.kind = "order" => r.at = "send"
  /\ r.kind = "cancel" => r.at \in {"list", "cancel"}
  /\ r.at = "shown" => r.kind = "preview"

\* An id names one order: at the prompt, on its way or at the broker.
IdsInv ==
  /\ \A r \in pending \cup requests : KindFits(r)
  /\ \A r, x \in requests : r.id = x.id => r = x
  /\ \A p \in pending, r \in requests : p.id # r.id
  /\ \A o \in broker.orders, r \in pending \cup requests : o.id # r.id
  /\ \A o, q \in broker.orders : o.id = q.id => o = q
  /\ \A x \in pending \cup requests \cup broker.orders : x.id <= intents
  /\ \A w \in {"poll", "reconnect"} :
       \A o, q \in refresh[w].orders : o.id = q.id => o = q

Of(orders, id) == {o \in orders : o.id = id}
Ended == {"fill", "canceled"}

\* Nobody listens, so nothing is on its way; and the last update on its way
\* about an order, and about the position, is the broker's state of it.
StreamInv ==
  /\ ws # "listening" => stream = <<>>
  /\ \A i \in DOMAIN stream :
       (\A j \in DOMAIN stream : j > i => stream[j].order.id # stream[i].order.id) =>
         Of(broker.orders, stream[i].order.id) =
           IF stream[i].event \in Ended THEN {} ELSE {stream[i].order}
  /\ \A i \in DOMAIN stream :
       stream[i].event \in Fills /\
       (\A j \in DOMAIN stream : j > i => stream[j].event \notin Fills) =>
         stream[i].pos = broker.pos

\* What no update on its way is about agrees with the broker.
PosAgrees(pos) ==
  (\A i \in DOMAIN stream : stream[i].event \notin Fills) => pos = broker.pos
OrdersAgree(orders) ==
  \A id \in Ids :
    (\A i \in DOMAIN stream : stream[i].order.id # id) =>
      Of(orders, id) = Of(broker.orders, id)

\* The book, while it is trusted, and the snapshots no update has crossed.
BookInv ==
  /\ trusted => PosAgrees(book.pos) /\ OrdersAgree(book.orders)
  /\ \A w \in {"poll", "reconnect"} : refresh[w].clean =>
       /\ refresh[w].at \in {"positions", "orders"} => PosAgrees(refresh[w].pos)
       /\ refresh[w].at = "orders" => OrdersAgree(refresh[w].orders)

\* An exit of q would be no more than the position, which only grows: no
\* order of the exit's side rests.
Covers(q) ==
  /\ q > 0 => broker.pos >= q /\ \A o \in broker.orders : o.side # "sell"
  /\ q < 0 => broker.pos <= q /\ \A o \in broker.orders : o.side # "buy"

\* Where an exit that is alone stands between its lookup and its order.
ExitInv ==
  /\ \A p \in pending : ~p.alone
  /\ \A r \in requests : r.alone => requests = {r} /\ r.kind # "order"
  /\ \A r \in requests : r.alone /\ r.at = "resolve" => Covers(r.rest)
  /\ \A r \in requests : r.alone /\ r.at = "send" =>
       Covers(IF r.side = "sell" THEN r.qty ELSE -r.qty)

Cap == Max({MaxPositionQty, StartQty})

\* What order r would add on its side.
Fits(r) ==
  IF r.side = "buy"
    THEN broker.pos + Working(broker.orders, "buy") + r.qty <= Cap
    ELSE Working(broker.orders, "sell") - broker.pos + r.qty <= Cap

\* While no check was blind: the broker is within the cap, with the one order
\* that is checked and not accepted yet, if there is one.
CapInv ==
  ~blind =>
    /\ Within(Cap)
    /\ \A r \in pending \cup requests : r.kind = "order" => Fits(r)
    /\ \A r, x \in pending \cup requests :
         r.kind = "order" /\ x.kind = "order" => r = x
    /\ \A p \in pending : p.kind = "order" =>
         \A r \in requests : r.kind = "cancel"

-----------------------------------------------------------------------------
(* Steps, grouped by what they leave alone. *)

\* A request's own steps.
RequestSteps(r) ==
  \/ PreviewShown(r) \/ CancelList(r) \/ CancelFails(r) \/ CancelsDone(r)
  \/ Look(r) \/ Resolve(r) \/ LookAgain(r) \/ Refused(r)

\* What the operator and the request goroutines do before the broker is
\* reached; Add and Reduce are intents of some side and size.
DeskStep ==
  \/ \E side \in Sides, qty \in Nat \ {0} : OrderIntent(side, qty)
  \/ FlattenIntent \/ PanicIntent \/ CancelIntent
  \/ Confirm \/ Decline
  \/ \E r \in requests : RequestSteps(r)

\* What changes something at the broker.
BrokerStep ==
  \/ \E r \in requests : CancelSucceeds(r) \/ Accepted(r)
  \/ \E o \in broker.orders : OrderExpires(o) \/ \E n \in 1..o.left : Fill(o, n)

\* What the store does.
StoreStep ==
  \/ Deliver
  \/ \E w \in {"poll", "reconnect"} :
       ReadPositions(w) \/ ReadOrders(w) \/ RefreshFails(w) \/ Reconcile(w)

\* The least of two positive sizes is one of them (Reduce's size).
LEMMA MinPositive ==
  ASSUME NEW a \in Nat \ {0}, NEW b \in Nat \ {0}
  PROVE  Min({a, b}) \in Nat \ {0} /\ Min({a, b}) <= a /\ Min({a, b}) <= b
<1>1. \E x \in {a, b} : \A y \in {a, b} : x <= y
  OBVIOUS
<1>2. QED
  BY <1>1 DEF Min

\* The greater of two numbers bounds both (the cap).
LEMMA MaxOfTwo ==
  ASSUME NEW a \in Nat, NEW b \in Nat
  PROVE  Max({a, b}) \in Nat /\ Max({a, b}) >= a /\ Max({a, b}) >= b
<1>1. \E x \in {a, b} : \A y \in {a, b} : x >= y
  OBVIOUS
<1>2. QED
  BY <1>1 DEF Max

\* Every step is the desk's, the broker's, the store's or the connection's.
LEMMA StepCases ==
  ASSUME TypeOK, Next
  PROVE  DeskStep \/ BrokerStep \/ StoreStep \/ Authorize \/ Listen \/ Drop
<1> USE DeskAssumption
<1>1. ASSUME NEW qty \in Sizes, NEW side \in Sides, OrderIntent(side, qty)
      PROVE  DeskStep
  BY <1>1 DEF DeskStep
<1>2. ASSUME NEW qty \in Sizes, Add(qty) PROVE DeskStep
  BY <1>2 DEF Add, DeskStep, Sides
<1>3. ASSUME NEW qty \in Sizes, Reduce(qty) PROVE DeskStep
  <2>1. Abs(book.pos) \in Nat \ {0} /\ qty \in Nat \ {0}
    BY <1>3 DEF Reduce, TypeOK, Abs
  <2>2. Min({qty, Abs(book.pos)}) \in Nat \ {0}
    BY <2>1, MinPositive
  <2>3. ExitSide(book.pos) \in Sides
    BY DEF ExitSide, Sides
  <2>4. QED
    BY <1>3, <2>2, <2>3 DEF Reduce, DeskStep
<1>4. DOMAIN refresh = {"poll", "reconnect"}
  BY DEF TypeOK
<1>5. QED
  BY <1>1, <1>2, <1>3, <1>4
  DEF Next, DeskStep, RequestSteps, BrokerStep, StoreStep

\* The desk reaches neither the broker nor the store by itself.
LEMMA DeskStepLeaves ==
  ASSUME DeskStep
  PROVE  UNCHANGED <<marketVars, storeVars>>
BY DEF DeskStep, RequestSteps, OrderIntent, FlattenIntent, PanicIntent,
       CancelIntent, Start, Confirm, Decline, PreviewShown, CancelList,
       CancelFails, CancelsDone, Look, Resolve, LookAgain, Refused, restVars

-----------------------------------------------------------------------------
\* A new request has its type, wherever it starts.
LEMMA NewRequestType ==
  ASSUME TypeOK, intents < MaxIntents,
         NEW kind \in {"order", "preview", "flatten", "panic", "cancel"},
         NEW at \in {"list", "look", "send"}
  PROVE  /\ NewRequest(kind, at) \in Requests
         /\ NewRequest(kind, at).at = at /\ NewRequest(kind, at).kind = kind
         /\ ~NewRequest(kind, at).alone
         /\ NewRequest(kind, at).id = intents + 1
BY DeskAssumption DEF TypeOK, NewRequest, Requests, Ids, Sides

\* What a request keeps when another one joins it.
LEMMA AccompaniedMoves ==
  ASSUME NEW r \in Requests
  PROVE  LET x == Accompanied(r)
         IN  /\ x \in Requests
             /\ x.id = r.id /\ x.at = r.at /\ x.kind = r.kind /\ x.side = r.side /\ x.qty = r.qty /\ x.rest = r.rest
             /\ ~x.alone
BY DEF Requests, Accompanied

\* What a preview keeps when it becomes the flatten to confirm.
LEMMA ToFlattenMoves ==
  ASSUME NEW r \in Requests
  PROVE  LET x == ToFlatten(r)
         IN  /\ x \in Requests
             /\ x.id = r.id
             /\ x.kind = "flatten" /\ x.at = "look" /\ ~x.alone
<1> DEFINE y == [r EXCEPT !.kind = "flatten", !.at = "look"]
           z == [y EXCEPT !.alone = FALSE, !.confirm = r.qty]
<1>1. y \in Requests /\ y.id = r.id /\ y.kind = "flatten" /\ y.at = "look"
  BY DEF Requests
<1>2. r.qty \in Int
  BY DEF Requests
<1>3. ToFlatten(r) = [z EXCEPT !.qty = 0]
  BY DEF ToFlatten
<1> HIDE DEF y
<1>4. /\ z \in Requests /\ z.id = y.id /\ z.kind = y.kind /\ z.at = y.at
      /\ ~z.alone
  BY <1>1, <1>2 DEF Requests
<1> HIDE DEF z
<1>5. QED
  BY <1>1, <1>3, <1>4 DEF Requests

\* What a request keeps when it has listed the open orders.
LEMMA ToCancelMoves ==
  ASSUME NEW r \in Requests, NEW ids \in SUBSET Ids
  PROVE  LET x == ToCancel(r, ids)
         IN  /\ x \in Requests
             /\ x.id = r.id /\ x.kind = r.kind /\ x.alone = r.alone
             /\ x.at = "cancel"
BY DEF Requests, ToCancel

\* What a request keeps when a cancel is answered.
LEMMA WithoutMoves ==
  ASSUME NEW r \in Requests, NEW id
  PROVE  LET x == Without(r, id)
         IN  /\ x \in Requests
             /\ x.id = r.id /\ x.at = r.at /\ x.kind = r.kind /\ x.alone = r.alone
BY DEF Requests, Without

\* What a panic keeps when it goes on to the position.
LEMMA ToLookMoves ==
  ASSUME NEW r \in Requests
  PROVE  LET x == ToLook(r)
         IN  /\ x \in Requests
             /\ x.id = r.id /\ x.kind = r.kind /\ x.alone = r.alone
             /\ x.at = "look"
BY DEF Requests, ToLook

\* What an exit keeps when its lookup is answered.
LEMMA AnsweredMoves ==
  ASSUME NEW r \in Requests, TypeOK, NEW alone \in BOOLEAN
  PROVE  LET x == Answered(r, alone)
         IN  /\ x \in Requests
             /\ x.id = r.id /\ x.kind = r.kind
             /\ x.at = "resolve" /\ x.rest = broker.pos /\ x.alone = alone
BY DEF Requests, Answered, TypeOK

\* What an exit keeps when it asks again.
LEMMA AskAgainMoves ==
  ASSUME NEW r \in Requests, TypeOK
  PROVE  LET x == AskAgain(r)
         IN  /\ x \in Requests
             /\ x.id = r.id /\ x.kind = r.kind /\ x.alone = r.alone
             /\ x.at = "again"
BY DEF Requests, AskAgain, TypeOK

\* What an exit keeps when its lookup is over.
LEMMA SettledMoves ==
  ASSUME NEW r \in Requests, NEW alone \in BOOLEAN
  PROVE  LET x == Settled(r, alone)
         IN  /\ x \in Requests
             /\ x.id = r.id /\ x.kind = r.kind
             /\ x.alone = alone
<1> DEFINE y == [r EXCEPT !.rest = 0]
           z == [y EXCEPT !.local = 0]
<1>1. y \in Requests /\ y.id = r.id /\ y.kind = r.kind
  BY DEF Requests
<1>2. Settled(r, alone) = [z EXCEPT !.alone = alone]
  BY DEF Settled
<1> HIDE DEF y
<1>3. z \in Requests /\ z.id = y.id /\ z.kind = y.kind
  BY <1>1 DEF Requests
<1> HIDE DEF z
<1>4. QED
  BY <1>1, <1>2, <1>3 DEF Requests

\* What a preview keeps when it is shown.
LEMMA ToShowMoves ==
  ASSUME NEW r \in Requests, NEW q \in Int
  PROVE  LET x == ToShow(r, q)
         IN  /\ x \in Requests
             /\ x.id = r.id /\ x.kind = r.kind /\ x.alone = r.alone
             /\ x.at = "shown"
BY DEF Requests, ToShow

\* What an exit keeps when its order is built.
LEMMA ToSendMoves ==
  ASSUME NEW r \in Requests, NEW side \in Sides, NEW q \in Nat
  PROVE  LET x == ToSend(r, side, q)
         IN  /\ x \in Requests
             /\ x.id = r.id /\ x.kind = r.kind /\ x.alone = r.alone
             /\ x.at = "send" /\ x.side = side /\ x.qty = q
<1> DEFINE y == [r EXCEPT !.at = "send"]
           z == [y EXCEPT !.side = side]
<1>1. /\ y \in Requests /\ y.id = r.id /\ y.kind = r.kind /\ y.alone = r.alone
      /\ y.at = "send"
  BY DEF Requests
<1>2. ToSend(r, side, q) = [z EXCEPT !.qty = q]
  BY DEF ToSend
<1> HIDE DEF y
<1>3. /\ z \in Requests /\ z.id = y.id /\ z.kind = y.kind /\ z.alone = y.alone
      /\ z.at = y.at /\ z.side = side
  BY <1>1 DEF Requests
<1> HIDE DEF z
<1>4. QED
  BY <1>1, <1>2, <1>3 DEF Requests

\* Sized ends a request or moves it on, with its id and kind, to a prompt or
\* to an order of positive size.
LEMMA SizedMoves ==
  ASSUME TypeOK, NEW r \in requests, NEW qty \in Int, NEW alone \in BOOLEAN,
         Sized(r, qty, alone), r.kind \in {"preview", "flatten", "panic", "order", "cancel"}
  PROVE  \/ Ends(r)
         \/ \E x \in Requests :
              /\ Becomes(r, x) /\ x.id = r.id /\ x.kind = r.kind
              /\ x.alone = alone /\ qty # 0
              /\ \/ x.at = "shown" /\ x.kind = "preview"
                 \/ /\ x.at = "send" /\ x.qty = Abs(qty) /\ x.qty > 0
                    /\ x.side = ExitSide(qty) /\ x.kind # "preview"
<1> DEFINE x == Settled(r, alone)
<1>1. x \in Requests /\ x.id = r.id /\ x.kind = r.kind /\ x.alone = alone
  BY SettledMoves DEF TypeOK
<1>2. ExitSide(qty) \in Sides /\ Abs(qty) \in Nat /\ (qty # 0 => Abs(qty) > 0)
  BY DEF ExitSide, Sides, Abs
<1> HIDE DEF x
<1>3. CASE qty = 0 \/ (r.kind = "flatten" /\ ~SameSide(r.confirm, qty))
  BY <1>3 DEF Sized
<1>4. CASE ~(qty = 0 \/ (r.kind = "flatten" /\ ~SameSide(r.confirm, qty)))
           /\ r.kind = "preview"
  <2>1. Becomes(r, ToShow(x, qty))
    BY <1>4 DEF Sized, x
  <2>2. QED
    BY <1>1, <1>4, <2>1, ToShowMoves
<1>5. CASE ~(qty = 0 \/ (r.kind = "flatten" /\ ~SameSide(r.confirm, qty)))
           /\ r.kind # "preview"
  <2>1. Becomes(r, ToSend(x, ExitSide(qty), Abs(qty)))
    BY <1>5 DEF Sized, x
  <2>2. QED
    BY <1>1, <1>2, <1>5, <2>1, ToSendMoves
<1>6. QED
  BY <1>3, <1>4, <1>5

\* The quantity an exit settles on has the side of the position and is at most
\* it.
LEMMA PreferFits ==
  ASSUME NEW rest \in Int, NEW local \in Int
  PROVE  /\ Prefer(rest, local) \in Int
         /\ Prefer(rest, local) # 0 =>
              /\ rest # 0 /\ ExitSide(Prefer(rest, local)) = ExitSide(rest)
              /\ Abs(Prefer(rest, local)) <= Abs(rest)
BY DEF Prefer, SameSide, Abs, ExitSide

\* Request r becomes x: an order is never looked up again, and an exit that is
\* alone is so because it was, or because its lookup found it so.
Moved(r, x) ==
  /\ x.id = r.id /\ r.at # "send" /\ (KindFits(r) => KindFits(x))
  /\ x.kind = r.kind \/ (r.at = "shown" /\ x.kind = "flatten")
  /\ x.at = "send" => x.qty > 0
  /\ x.alone => r.alone \/ Alone(r)
  /\ x.alone /\ x.at = "resolve" => Alone(r) /\ x.rest = broker.pos
  /\ x.alone /\ x.at = "send" =>
       \E p \in Int \ {0} :
         /\ x.side = ExitSide(p) /\ x.qty <= Abs(p)
         /\ \/ Alone(r) /\ p = broker.pos
            \/ r.alone /\ r.at = "resolve" /\ p = r.rest

\* What a request's own steps do: it ends, it moves on, or a preview turns into
\* the flatten that waits at the prompt.
LEMMA RequestMoves ==
  ASSUME TypeOK, NEW r \in requests, RequestSteps(r)
  PROVE  /\ intents' = intents /\ blind' = blind
         /\ \/ Ends(r) /\ pending' = pending
            \/ \E x \in Requests : Becomes(r, x) /\ Moved(r, x) /\ pending' = pending
            \/ \E x \in Requests :
                 /\ Ends(r) /\ pending' = {x} /\ x.id = r.id
                 /\ x.kind = "flatten" /\ x.at = "look" /\ ~x.alone
<1>1. r \in Requests
  BY DEF TypeOK
<1>2. CASE PreviewShown(r)
  <2>1. /\ ToFlatten(r) \in Requests /\ ToFlatten(r).id = r.id
        /\ ToFlatten(r).kind = "flatten" /\ ToFlatten(r).at = "look"
        /\ ~ToFlatten(r).alone
    BY <1>1, ToFlattenMoves
  <2>2. \/ Ends(r) /\ pending' = {ToFlatten(r)}
        \/ Becomes(r, ToFlatten(r)) /\ pending' = pending
    BY <1>2 DEF PreviewShown, Replacing
  <2>3. Moved(r, ToFlatten(r))
    BY <1>2, <2>1 DEF PreviewShown, Moved, KindFits
  <2>4. QED
    BY <1>2, <2>1, <2>2, <2>3 DEF PreviewShown, restVars
<1>3. CASE CancelList(r)
  <2>1. PICK ids \in {{}, {o.id : o \in broker.orders}} :
          Becomes(r, ToCancel(r, ids))
    BY <1>3 DEF CancelList
  <2>2. ids \in SUBSET Ids
    BY DEF TypeOK, Orders
  <2>3. ToCancel(r, ids) \in Requests /\ Moved(r, ToCancel(r, ids))
    BY <1>1, <1>3, <2>2, ToCancelMoves DEF CancelList, Moved, KindFits
  <2>4. QED
    BY <1>3, <2>1, <2>3 DEF CancelList, restVars
<1>4. CASE CancelFails(r)
  <2>1. PICK id \in r.cancel : Cancelled(r, id)
    BY <1>4 DEF CancelFails
  <2>2. Without(r, id) \in Requests /\ Moved(r, Without(r, id))
    BY <1>1, <2>1, WithoutMoves DEF Cancelled, Moved, KindFits
  <2>3. QED
    BY <2>1, <2>2 DEF Cancelled
<1>5. CASE CancelsDone(r)
  <2>1. r.kind = "panic" => ToLook(r) \in Requests /\ Moved(r, ToLook(r))
    BY <1>1, <1>5, ToLookMoves DEF CancelsDone, Moved, KindFits
  <2>2. QED
    BY <1>5, <2>1 DEF CancelsDone, restVars
<1>6. CASE Look(r)
  <2>0. broker.pos \in Int /\ book.pos \in Int /\ Alone(r) \in BOOLEAN
    BY DEF TypeOK, Alone
  <2>1. CASE Becomes(r, Answered(r, Alone(r)))
    <3>1. Answered(r, Alone(r)) \in Requests /\ Moved(r, Answered(r, Alone(r)))
      BY <1>1, <1>6, <2>0, AnsweredMoves DEF Look, Moved, KindFits
    <3>2. QED
      BY <1>6, <2>1, <3>1 DEF Look, restVars
  <2>2. CASE Sized(r, book.pos, FALSE)
    <3>1. \/ Ends(r)
          \/ \E x \in Requests : Becomes(r, x) /\ Moved(r, x)
      BY ZenonT(40), <1>1, <1>6, <2>0, <2>2, SizedMoves DEF Requests, Look, Moved, KindFits
    <3>2. QED
      BY <1>6, <3>1 DEF Look, restVars
  <2>3. QED
    BY <1>6, <2>1, <2>2 DEF Look
<1>7. CASE Resolve(r)
  <2>0. r.rest \in Int /\ book.pos \in Int /\ r.alone \in BOOLEAN
    BY <1>1 DEF TypeOK, Requests
  <2>1. CASE Becomes(r, AskAgain(r))
    <3>1. AskAgain(r) \in Requests /\ Moved(r, AskAgain(r))
      BY <1>1, <1>7, AskAgainMoves DEF Resolve, Moved, KindFits
    <3>2. QED
      BY <1>7, <2>1, <3>1 DEF Resolve, restVars
  <2>2. CASE Sized(r, IF book.pos = 0 THEN r.rest ELSE Prefer(r.rest, book.pos),
                   r.alone)
    <3> DEFINE q == IF book.pos = 0 THEN r.rest ELSE Prefer(r.rest, book.pos)
    <3>1. /\ q \in Int
          /\ q # 0 => r.rest # 0 /\ ExitSide(q) = ExitSide(r.rest)
                      /\ Abs(q) <= Abs(r.rest)
      <4>1. CASE book.pos = 0
        <5>1. q = r.rest
          BY <4>1
        <5>2. QED
          BY <2>0, <5>1 DEF Abs
      <4>2. CASE book.pos # 0
        <5>1. q = Prefer(r.rest, book.pos)
          BY <4>2
        <5>2. QED
          BY <2>0, <5>1, PreferFits
      <4>3. QED
        BY <4>1, <4>2
    <3>2. Sized(r, q, r.alone)
      BY <2>2
    <3> HIDE DEF q
    <3>3. ASSUME NEW x \in Requests, x.id = r.id, x.kind = r.kind,
                 x.alone = r.alone, q # 0,
                 \/ x.at = "shown" /\ x.kind = "preview"
                 \/ /\ x.at = "send" /\ x.qty = Abs(q) /\ x.qty > 0
                    /\ x.side = ExitSide(q) /\ x.kind # "preview"
          PROVE  Moved(r, x)
      <4>1. r.rest \in Int \ {0} /\ r.at # "send"
        BY <1>7, <2>0, <3>1, <3>3 DEF Resolve
      <4>2. x.at = "send" => x.side = ExitSide(r.rest) /\ x.qty <= Abs(r.rest)
        BY <3>1, <3>3
      <4>3. QED
        BY <1>7, <3>3, <4>1, <4>2 DEF Resolve, Moved, KindFits
    <3>4. \/ Ends(r)
          \/ \E x \in Requests : Becomes(r, x) /\ Moved(r, x)
      <4>1. r.kind \in {"preview", "flatten", "panic", "order", "cancel"}
        BY <1>1 DEF Requests
      <4>2. QED
        BY <1>1, <2>0, <3>1, <3>2, <3>3, <4>1, SizedMoves
    <3>5. QED
      BY <1>7, <3>4 DEF Resolve, restVars
  <2>3. QED
    BY <1>7, <2>1, <2>2 DEF Resolve
<1>8. CASE LookAgain(r)
  <2>0. broker.pos \in Int /\ r.local \in Int /\ Alone(r) \in BOOLEAN
    BY <1>1 DEF TypeOK, Requests, Alone
  <2>1. CASE Sized(r, IF broker.pos = 0 THEN 0 ELSE Prefer(broker.pos, r.local),
                   Alone(r))
    <3> DEFINE q == IF broker.pos = 0 THEN 0 ELSE Prefer(broker.pos, r.local)
    <3>1. /\ q \in Int
          /\ q # 0 => broker.pos # 0 /\ ExitSide(q) = ExitSide(broker.pos)
                      /\ Abs(q) <= Abs(broker.pos)
      BY <2>0, PreferFits DEF Abs
    <3>2. Sized(r, q, Alone(r))
      BY <2>1
    <3> HIDE DEF q
    <3>3. ASSUME NEW x \in Requests, x.id = r.id, x.kind = r.kind,
                 x.alone = Alone(r), q # 0,
                 \/ x.at = "shown" /\ x.kind = "preview"
                 \/ /\ x.at = "send" /\ x.qty = Abs(q) /\ x.qty > 0
                    /\ x.side = ExitSide(q) /\ x.kind # "preview"
          PROVE  Moved(r, x)
      <4>1. broker.pos \in Int \ {0} /\ r.at # "send"
        BY <1>8, <2>0, <3>1, <3>3 DEF LookAgain
      <4>2. x.at = "send" => x.side = ExitSide(broker.pos) /\ x.qty <= Abs(broker.pos)
        BY <3>1, <3>3
      <4>3. QED
        BY <1>8, <3>3, <4>1, <4>2 DEF LookAgain, Moved, KindFits
    <3>4. \/ Ends(r)
          \/ \E x \in Requests : Becomes(r, x) /\ Moved(r, x)
      <4>1. r.kind \in {"preview", "flatten", "panic", "order", "cancel"}
        BY <1>1 DEF Requests
      <4>2. QED
        BY <1>1, <2>0, <3>1, <3>2, <3>3, <4>1, SizedMoves
    <3>5. QED
      BY <1>8, <3>4 DEF LookAgain, restVars
  <2>2. CASE Sized(r, r.local, FALSE)
    <3>1. \/ Ends(r)
          \/ \E x \in Requests : Becomes(r, x) /\ Moved(r, x)
      BY ZenonT(40), <1>1, <1>8, <2>0, <2>2, SizedMoves DEF Requests, LookAgain, Moved, KindFits
    <3>2. QED
      BY <1>8, <3>1 DEF LookAgain, restVars
  <2>3. QED
    BY <1>8, <2>1, <2>2 DEF LookAgain
<1>9. CASE Refused(r)
  BY <1>9 DEF Refused, restVars
<1>10. QED
  BY <1>2, <1>3, <1>4, <1>5, <1>6, <1>7, <1>8, <1>9 DEF RequestSteps

\* An order carries its side and size.
LEMMA OrderRequestType ==
  ASSUME TypeOK, intents < MaxIntents, NEW side \in Sides, NEW qty \in Nat \ {0}
  PROVE  LET x == OrderRequest(side, qty)
         IN  /\ x \in Requests /\ x.id = intents + 1 /\ x.kind = "order"
             /\ x.at = "send" /\ x.side = side /\ x.qty = qty /\ ~x.alone
<1> DEFINE x == NewRequest("order", "send")
           y == [x EXCEPT !.side = side]
<1>1. /\ x \in Requests /\ x.at = "send" /\ x.kind = "order" /\ ~x.alone
      /\ x.id = intents + 1
  BY NewRequestType
<1>2. OrderRequest(side, qty) = [y EXCEPT !.qty = qty]
  BY DEF OrderRequest
<1> HIDE DEF x
<1>3. /\ y \in Requests /\ y.id = x.id /\ y.kind = x.kind /\ y.at = x.at
      /\ y.side = side /\ y.alone = x.alone
  BY <1>1 DEF Requests
<1> HIDE DEF y
<1>4. QED
  BY <1>1, <1>2, <1>3 DEF Requests

\* An intent that passes: a new request x, with a new id, and no prompt shown.
Intended(x) ==
  /\ x.id = intents + 1 /\ ~x.alone
  /\ pending = {} /\ intents' = intents + 1 /\ intents < MaxIntents
  /\ x.at = "send" => x.qty > 0
  /\ \/ /\ x.kind = "order" /\ x.at = "send"
        /\ Check(x.side, x.qty) /\ blind' = (blind \/ ~Seeing)
        /\ Prompted(x)
     \/ /\ x.kind # "order" /\ KindFits(x) /\ blind' = blind
        /\ Commit(x) /\ UNCHANGED pending

\* The four ways the requests and the prompt change before the broker.
LEMMA DeskMoves ==
  ASSUME TypeOK, DeskStep
  PROVE  \/ \E x \in Requests : Intended(x)
         \/ \E p \in pending :
              pending' = {} /\ Commit(p) /\ UNCHANGED <<intents, blind>>
         \/ pending' = {} /\ UNCHANGED <<requests, intents, blind>>
         \/ \E r \in requests : RequestSteps(r)
<1>1. ASSUME NEW side \in Sides, NEW qty \in Nat \ {0}, OrderIntent(side, qty)
      PROVE  \E x \in Requests : Intended(x)
  <2> DEFINE x == OrderRequest(side, qty)
  <2>1. intents < MaxIntents
    BY <1>1 DEF OrderIntent, MayIntend
  <2>2. /\ x \in Requests /\ x.id = intents + 1 /\ x.kind = "order"
        /\ x.at = "send" /\ x.side = side /\ x.qty = qty /\ ~x.alone
    BY <2>1, OrderRequestType
  <2>3. Prompted(x)
    BY <1>1 DEF OrderIntent
  <2> HIDE DEF x
  <2>4. Intended(x)
    BY <1>1, <2>1, <2>2, <2>3 DEF OrderIntent, Intended
  <2>5. QED
    BY <2>2, <2>4
<1>2. ASSUME NEW kind \in {"preview", "panic", "cancel"},
             NEW at \in {"look", "list"}, kind = "cancel" => at = "list",
             Start(kind, at)
      PROVE  \E x \in Requests : Intended(x)
  <2> DEFINE x == NewRequest(kind, at)
  <2>1. intents < MaxIntents
    BY <1>2 DEF Start, MayIntend
  <2>2. /\ x \in Requests /\ x.id = intents + 1 /\ x.kind = kind /\ x.at = at
        /\ ~x.alone
    BY <2>1, NewRequestType
  <2>3. Commit(x)
    BY <1>2 DEF Start
  <2> HIDE DEF x
  <2>4. Intended(x)
    BY <1>2, <2>1, <2>2, <2>3 DEF Start, Intended, KindFits
  <2>5. QED
    BY <2>2, <2>4
<1>3. CASE Confirm
  BY <1>3 DEF Confirm
<1>4. CASE Decline
  BY <1>4 DEF Decline
<1>5. QED
  BY <1>1, <1>2, <1>3, <1>4
  DEF DeskStep, FlattenIntent, PanicIntent, CancelIntent

-----------------------------------------------------------------------------
(* Type correctness. *)

\* The requests and the prompt, the part of TypeOK a request's steps disturb.
DeskTypeOK ==
  /\ pending \subseteq Requests /\ \A r, x \in pending : r = x
  /\ requests \subseteq Requests
  /\ \A r \in pending \cup requests : r.at = "send" => r.qty > 0
  /\ intents \in 0..MaxIntents /\ blind \in BOOLEAN

\* Running a request leaves those in flight what they were, but not alone.
LEMMA CommitType ==
  ASSUME TypeOK, NEW x \in Requests, x.at = "send" => x.qty > 0, Commit(x)
  PROVE  /\ requests' \subseteq Requests
         /\ \A r \in requests' : r.at = "send" => r.qty > 0
<1>1. \A r \in requests : /\ Accompanied(r) \in Requests
                          /\ Accompanied(r).at = r.at /\ Accompanied(r).qty = r.qty
  BY AccompaniedMoves DEF TypeOK
<1>2. \A r \in requests : r.at = "send" => r.qty > 0
  BY DEF TypeOK
<1>3. QED
  BY <1>1, <1>2 DEF Commit

\* A desk step keeps the types of what the desk owns.
LEMMA DeskStepType ==
  ASSUME TypeOK, DeskStep
  PROVE  DeskTypeOK'
<1>0. DeskTypeOK
  BY DEF TypeOK, DeskTypeOK
<1>1. ASSUME NEW x \in Requests, Intended(x)
      PROVE  DeskTypeOK'
  <2>1. intents' \in 0..MaxIntents /\ blind' \in BOOLEAN
    <3>1. intents' \in 0..MaxIntents
      BY <1>0, <1>1, DeskAssumption DEF Intended, DeskTypeOK
    <3>2. blind' = (blind \/ ~Seeing) \/ blind' = blind
      BY <1>1 DEF Intended
    <3>3. blind' \in BOOLEAN
      BY <1>0, <3>2, Zenon DEF DeskTypeOK
    <3>4. QED
      BY <3>1, <3>3
  <2>2. CASE Commit(x) /\ UNCHANGED pending
    BY <1>0, <1>1, <2>1, <2>2, CommitType DEF DeskTypeOK, Intended
  <2>3. CASE pending' = {x} /\ UNCHANGED requests
    BY <1>0, <1>1, <2>1, <2>3 DEF DeskTypeOK, Intended
  <2>4. QED
    BY <1>1, <2>2, <2>3 DEF Intended, Prompted
<1>2. ASSUME NEW p \in pending, pending' = {}, Commit(p),
             UNCHANGED <<intents, blind>>
      PROVE  DeskTypeOK'
  BY <1>0, <1>2, CommitType DEF DeskTypeOK
<1>3. ASSUME pending' = {}, UNCHANGED <<requests, intents, blind>>
      PROVE  DeskTypeOK'
  BY <1>0, <1>3 DEF DeskTypeOK
<1>4. ASSUME NEW r \in requests, RequestSteps(r)
      PROVE  DeskTypeOK'
  BY <1>0, <1>4, RequestMoves DEF DeskTypeOK, Becomes, Ends, Moved
<1>5. QED
  BY <1>1, <1>2, <1>3, <1>4, DeskMoves

Refreshes ==
  [{"poll", "reconnect"} ->
     [at: {"idle", "due", "positions", "orders"}, pos: Int,
      orders: SUBSET Orders, clean: BOOLEAN]]

\* A snapshot that a change crosses is read on as before, but is not clean.
LEMMA CrossedType ==
  ASSUME refresh \in Refreshes
  PROVE  /\ Crossed \in Refreshes
         /\ \A w \in {"poll", "reconnect"} : ~Crossed[w].clean
BY DEF Refreshes, Crossed

\* What a change at the broker leaves of the updates on their way and of the
\* snapshots being read.
LEMMA PublishType ==
  ASSUME TypeOK, broker'.pos \in Int, NEW o \in Orders, NEW known \in BOOLEAN,
         NEW event \in {"new", "fill", "partial_fill", "canceled"},
         Publish(event, o, known)
  PROVE  stream' \in Seq(Updates) /\ trusted' \in BOOLEAN /\ refresh' \in Refreshes
<1>1. /\ stream \in Seq(Updates) /\ trusted \in BOOLEAN /\ refresh \in Refreshes
  BY DEF TypeOK, Refreshes
<1>2. [event |-> event, order |-> o, pos |-> broker'.pos, known |-> known]
        \in Updates
  BY DEF Updates
<1>3. CASE ws = "listening"
  <2>1. /\ stream' = Append(stream, [event |-> event, order |-> o,
                                    pos |-> broker'.pos, known |-> known])
        /\ trusted' = trusted /\ refresh' = refresh
    BY <1>3 DEF Publish
  <2>2. stream' \in Seq(Updates)
    BY <1>1, <1>2, <2>1
  <2>3. QED
    BY <1>1, <2>1, <2>2
<1>4. CASE ws # "listening"
  <2>1. trusted' = FALSE /\ refresh' = Crossed /\ stream' = stream
    BY <1>4 DEF Publish
  <2>2. QED
    BY <1>1, <2>1, CrossedType
<1>5. QED
  BY <1>3, <1>4

\* What TypeOK says of the broker, of the connection and of the store.
MarketTypeOK ==
  /\ broker \in [pos: Int, orders: SUBSET Orders]
  /\ ws \in {"down", "authorized", "listening"} /\ auths \in 0..MaxAuths
  /\ stream \in Seq(Updates)
StoreTypeOK ==
  /\ book \in [reconciled: BOOLEAN, pos: Int, orders: SUBSET Orders]
  /\ \A o, q \in book.orders : o.id = q.id => o = q
  /\ refresh \in Refreshes
  /\ trusted \in BOOLEAN

\* TypeOK is what it says of the market, the store and the desk.
LEMMA TypeParts == TypeOK <=> MarketTypeOK /\ StoreTypeOK /\ DeskTypeOK
BY DEF TypeOK, MarketTypeOK, StoreTypeOK, DeskTypeOK, Refreshes

\* An order that ends leaves the broker's position alone.
LEMMA GoneMoves ==
  ASSUME TypeOK, NEW o \in broker.orders, Gone(o)
  PROVE  /\ broker' \in [pos: Int, orders: SUBSET Orders]
         /\ broker'.pos = broker.pos /\ broker'.orders = broker.orders \ {o}
         /\ stream' \in Seq(Updates) /\ trusted' \in BOOLEAN /\ refresh' \in Refreshes
<1>1. /\ broker' \in [pos: Int, orders: SUBSET Orders]
      /\ broker'.pos = broker.pos /\ broker'.orders = broker.orders \ {o}
  BY DEF TypeOK, Gone
<1>2. o \in Orders /\ Publish("canceled", o, FALSE)
  BY DEF TypeOK, Gone
<1>3. QED
  BY <1>1, <1>2, PublishType

\* A request the broker takes becomes an order of its id, side and size.
OrderOf(r) == [id |-> r.id, side |-> r.side, left |-> r.qty]

\* The broker takes the order as it was sent.
LEMMA AcceptedMoves ==
  ASSUME TypeOK, NEW r \in requests, Accepted(r)
  PROVE  /\ OrderOf(r) \in Orders
         /\ broker' \in [pos: Int, orders: SUBSET Orders]
         /\ broker'.pos = broker.pos
         /\ broker'.orders = broker.orders \cup {OrderOf(r)}
         /\ stream' \in Seq(Updates) /\ trusted' \in BOOLEAN /\ refresh' \in Refreshes
<1>1. OrderOf(r) \in Orders
  BY DEF TypeOK, Requests, Accepted, OrderOf, Orders
<1>2. /\ broker' \in [pos: Int, orders: SUBSET Orders]
      /\ broker'.pos = broker.pos
      /\ broker'.orders = broker.orders \cup {OrderOf(r)}
  BY <1>1 DEF TypeOK, Accepted, OrderOf
<1>3. Publish("new", OrderOf(r), FALSE)
  BY DEF Accepted, OrderOf
<1>4. QED
  BY <1>1, <1>2, <1>3, PublishType

\* A fill of n moves the position by n and leaves an order of n less, or none.
Rest(o, n) == [o EXCEPT !.left = o.left - n]

\* What a fill does to the order, the position and what is published.
LEMMA FillMoves ==
  ASSUME TypeOK, NEW o \in broker.orders, NEW n \in 1..o.left, Fill(o, n)
  PROVE  /\ o \in Orders /\ Rest(o, n) \in Orders
         /\ Rest(o, n).id = o.id /\ Rest(o, n).side = o.side
         /\ Rest(o, n).left = o.left - n
         /\ broker' \in [pos: Int, orders: SUBSET Orders]
         /\ broker'.pos = broker.pos + Sign(o.side) * n
         /\ broker'.orders = (broker.orders \ {o})
                               \cup (IF o.left = n THEN {} ELSE {Rest(o, n)})
         /\ \E known \in BOOLEAN :
              Publish(IF o.left = n THEN "fill" ELSE "partial_fill",
                      Rest(o, n), known)
         /\ stream' \in Seq(Updates) /\ trusted' \in BOOLEAN /\ refresh' \in Refreshes
<1>1. /\ o \in Orders /\ Rest(o, n) \in Orders
      /\ Rest(o, n).id = o.id /\ Rest(o, n).side = o.side
      /\ Rest(o, n).left = o.left - n
  BY SMTT(30) DEF TypeOK, Orders, Rest
<1>2. o.left - n = 0 <=> o.left = n
  BY <1>1 DEF Orders
<1>3. /\ broker' = [pos |-> broker.pos + Sign(o.side) * n,
                    orders |-> IF o.left - n = 0 THEN broker.orders \ {o}
                               ELSE (broker.orders \ {o}) \cup {Rest(o, n)}]
      /\ \E known \in IF o.left - n = 0 THEN {TRUE} ELSE BOOLEAN :
           Publish(IF o.left - n = 0 THEN "fill" ELSE "partial_fill",
                   Rest(o, n), known)
  BY DEF Fill, Rest
<1>4. Sign(o.side) * n \in Int
  BY DEF Sign
<1>5. /\ broker' \in [pos: Int, orders: SUBSET Orders]
      /\ broker'.pos = broker.pos + Sign(o.side) * n
      /\ broker'.orders = (broker.orders \ {o})
                            \cup (IF o.left = n THEN {} ELSE {Rest(o, n)})
  BY <1>1, <1>2, <1>3, <1>4 DEF TypeOK
<1>6. \E known \in BOOLEAN :
         Publish(IF o.left = n THEN "fill" ELSE "partial_fill", Rest(o, n), known)
  BY <1>2, <1>3
<1>7. QED
  BY <1>1, <1>5, <1>6, PublishType

\* A change at the broker keeps every type.
LEMMA BrokerStepType ==
  ASSUME TypeOK, BrokerStep
  PROVE  MarketTypeOK' /\ StoreTypeOK' /\ DeskTypeOK'
<1>0. MarketTypeOK /\ StoreTypeOK /\ DeskTypeOK
  BY TypeParts
<1>1. ASSUME NEW r \in requests, CancelSucceeds(r)
      PROVE  MarketTypeOK' /\ StoreTypeOK' /\ DeskTypeOK'
  <2>1. PICK o \in broker.orders : Cancelled(r, o.id) /\ Gone(o)
    BY <1>1 DEF CancelSucceeds
  <2>2. r \in Requests /\ Without(r, o.id) \in Requests
        /\ Without(r, o.id).at = "cancel"
    BY <1>0, <2>1, WithoutMoves DEF DeskTypeOK, Cancelled
  <2>3. DeskTypeOK'
    BY <1>0, <2>1, <2>2 DEF DeskTypeOK, Cancelled, Becomes
  <2>4. UNCHANGED <<ws, auths, book>>
    BY <2>1 DEF Gone
  <2>5. QED
    BY <1>0, <2>1, <2>3, <2>4, GoneMoves DEF MarketTypeOK, StoreTypeOK
<1>2. ASSUME NEW r \in requests, Accepted(r)
      PROVE  MarketTypeOK' /\ StoreTypeOK' /\ DeskTypeOK'
  <2>1. UNCHANGED <<ws, auths, book, pending, intents>> /\ Ends(r)
    BY <1>2 DEF Accepted
  <2>2. blind' = (blind \/ (r.kind # "order" /\ ~r.alone))
    BY <1>2 DEF Accepted
  <2>3. blind' \in BOOLEAN
    BY <1>0, <2>2, Zenon DEF DeskTypeOK
  <2>4. DeskTypeOK'
    BY <1>0, <2>1, <2>3 DEF DeskTypeOK, Ends
  <2>5. QED
    BY <1>0, <1>2, <2>1, <2>4, AcceptedMoves DEF MarketTypeOK, StoreTypeOK
<1>3. ASSUME NEW o \in broker.orders, OrderExpires(o)
      PROVE  MarketTypeOK' /\ StoreTypeOK' /\ DeskTypeOK'
  <2>1. Gone(o) /\ UNCHANGED <<ws, auths, book, deskVars>>
    BY <1>3 DEF OrderExpires, Gone
  <2>2. QED
    BY <1>0, <2>1, GoneMoves DEF MarketTypeOK, StoreTypeOK, DeskTypeOK, deskVars
<1>4. ASSUME NEW o \in broker.orders, NEW n \in 1..o.left, Fill(o, n)
      PROVE  MarketTypeOK' /\ StoreTypeOK' /\ DeskTypeOK'
  <2>1. UNCHANGED <<ws, auths, book, deskVars>>
    BY <1>4 DEF Fill
  <2>2. QED
    BY <1>0, <1>4, <2>1, FillMoves
    DEF MarketTypeOK, StoreTypeOK, DeskTypeOK, deskVars
<1>5. QED
  BY <1>1, <1>2, <1>3, <1>4 DEF BrokerStep

\* The store keeps every type; its snapshots have unique ids.
LEMMA StoreStepType ==
  ASSUME TypeOK, IdsInv, StoreStep
  PROVE  MarketTypeOK' /\ StoreTypeOK' /\ DeskTypeOK'
<1>0. MarketTypeOK /\ StoreTypeOK /\ DeskTypeOK
  BY TypeParts
<1>1. CASE Deliver
  <2> DEFINE e == Head(stream)
  <2>1. e \in Updates /\ stream' \in Seq(Updates)
    BY <1>0, <1>1 DEF MarketTypeOK, Deliver
  <2>2. UNCHANGED <<broker, ws, auths, deskVars>>
    BY <1>1 DEF Deliver
  <2>3. OrdersAfter(e) \subseteq Orders /\ PosAfter(e) \in Int
        /\ \A o, q \in OrdersAfter(e) : o.id = q.id => o = q
    BY <1>0, <2>1 DEF OrdersAfter, PosAfter, StoreTypeOK, Updates
  <2>4. /\ book' = [book EXCEPT !.orders = OrdersAfter(e), !.pos = PosAfter(e)]
        /\ trusted' = (trusted /\ (e.event \in Fills => PosAfter(e) = e.pos))
        /\ refresh' = Crossed
    BY <1>1 DEF Deliver
  <2> HIDE DEF e
  <2>5. /\ book' \in [reconciled: BOOLEAN, pos: Int, orders: SUBSET Orders]
        /\ book'.orders = OrdersAfter(e)
    BY <1>0, <2>3, <2>4 DEF StoreTypeOK
  <2>6. trusted' \in BOOLEAN
    BY <1>0, <2>4, Zenon DEF StoreTypeOK
  <2>7. refresh' \in Refreshes
    BY <1>0, <2>4, CrossedType DEF StoreTypeOK
  <2>8. QED
    BY <1>0, <2>1, <2>2, <2>3, <2>5, <2>6, <2>7
    DEF MarketTypeOK, StoreTypeOK, DeskTypeOK, deskVars
<1>2. ASSUME NEW w \in {"poll", "reconnect"}, ReadPositions(w)
      PROVE  MarketTypeOK' /\ StoreTypeOK' /\ DeskTypeOK'
  <2>1. refresh' \in Refreshes
    BY <1>0, <1>2 DEF ReadPositions, MarketTypeOK, StoreTypeOK, Refreshes
  <2>2. QED
    BY <1>0, <1>2, <2>1 DEF ReadPositions, MarketTypeOK, StoreTypeOK,
       DeskTypeOK, marketVars, deskVars
<1>3. ASSUME NEW w \in {"poll", "reconnect"}, ReadOrders(w)
      PROVE  MarketTypeOK' /\ StoreTypeOK' /\ DeskTypeOK'
  <2>1. refresh' \in Refreshes
    BY <1>0, <1>3 DEF ReadOrders, MarketTypeOK, StoreTypeOK, Refreshes
  <2>2. QED
    BY <1>0, <1>3, <2>1 DEF ReadOrders, MarketTypeOK, StoreTypeOK,
       DeskTypeOK, marketVars, deskVars
<1>4. ASSUME NEW w \in {"poll", "reconnect"}, RefreshFails(w)
      PROVE  MarketTypeOK' /\ StoreTypeOK' /\ DeskTypeOK'
  <2>1. refresh' \in Refreshes
    BY <1>0, <1>4 DEF RefreshFails, Resting, MarketTypeOK, StoreTypeOK, Refreshes
  <2>2. QED
    BY <1>0, <1>4, <2>1 DEF RefreshFails, MarketTypeOK, StoreTypeOK,
       DeskTypeOK, marketVars, deskVars
<1>5. ASSUME NEW w \in {"poll", "reconnect"}, Reconcile(w)
      PROVE  MarketTypeOK' /\ StoreTypeOK' /\ DeskTypeOK'
  <2>1. refresh' \in Refreshes
    BY <1>0, <1>5 DEF Reconcile, Resting, StoreTypeOK, Refreshes
  <2>2. book' \in [reconciled: BOOLEAN, pos: Int, orders: SUBSET Orders]
        /\ trusted' \in BOOLEAN /\ book'.orders = refresh[w].orders
    BY <1>0, <1>5 DEF Reconcile, Snapshot, StoreTypeOK, Refreshes
  <2>3. QED
    BY <1>0, <1>5, <2>1, <2>2 DEF Reconcile, IdsInv, MarketTypeOK, StoreTypeOK,
       DeskTypeOK, marketVars, deskVars
<1>6. QED
  BY <1>1, <1>2, <1>3, <1>4, <1>5 DEF StoreStep

\* The connection keeps every type.
LEMMA ConnectionType ==
  ASSUME TypeOK, Authorize \/ Listen \/ Drop
  PROVE  MarketTypeOK' /\ StoreTypeOK' /\ DeskTypeOK'
<1>0. MarketTypeOK /\ StoreTypeOK /\ DeskTypeOK
  BY TypeParts
<1>1. CASE Authorize
  <2>1. refresh' \in Refreshes
    BY <1>0, <1>1 DEF Authorize, StoreTypeOK, Refreshes
  <2>2. auths' \in 0..MaxAuths
    BY <1>0, <1>1, DeskAssumption DEF Authorize, MarketTypeOK
  <2>3. QED
    BY <1>0, <1>1, <2>1, <2>2 DEF Authorize, MarketTypeOK, StoreTypeOK,
       DeskTypeOK, deskVars
<1>2. CASE Listen
  BY <1>0, <1>2 DEF Listen, MarketTypeOK, StoreTypeOK, DeskTypeOK, deskVars,
     storeVars
<1>3. CASE Drop
  <2>1. refresh' \in Refreshes /\ trusted' \in BOOLEAN
    BY <1>0, <1>3, CrossedType DEF Drop, StoreTypeOK
  <2>2. QED
    BY <1>0, <1>3, <2>1 DEF Drop, MarketTypeOK, StoreTypeOK, DeskTypeOK, deskVars
<1>4. QED
  BY <1>1, <1>2, <1>3

\* TypeOK is preserved, given that ids are unique.
LEMMA TypeStep ==
  ASSUME TypeOK, IdsInv, [Next]_vars
  PROVE  TypeOK'
<1>0. MarketTypeOK /\ StoreTypeOK /\ DeskTypeOK
  BY TypeParts
<1>1. CASE DeskStep
  <2>1. MarketTypeOK' /\ StoreTypeOK'
    BY <1>0, <1>1, DeskStepLeaves
    DEF MarketTypeOK, StoreTypeOK, marketVars, storeVars
  <2>2. QED
    BY <1>1, <2>1, DeskStepType DEF TypeOK, MarketTypeOK, StoreTypeOK,
       DeskTypeOK, Refreshes
<1>2. CASE BrokerStep \/ StoreStep \/ Authorize \/ Listen \/ Drop
  <2>1. MarketTypeOK' /\ StoreTypeOK' /\ DeskTypeOK'
    BY <1>2, BrokerStepType, StoreStepType, ConnectionType
  <2>2. QED
    BY <2>1 DEF TypeOK, MarketTypeOK, StoreTypeOK, DeskTypeOK, Refreshes
<1>3. CASE UNCHANGED vars
  BY <1>3 DEF TypeOK, vars, marketVars, storeVars, deskVars
<1>4. QED
  BY <1>1, <1>2, <1>3, StepCases

-----------------------------------------------------------------------------
(* An id names one order. *)

\* The desk gives every new request a new id.
LEMMA IdsDeskStep ==
  ASSUME TypeOK, IdsInv, DeskStep
  PROVE  IdsInv'
<1>0. broker' = broker /\ refresh' = refresh
  BY DeskStepLeaves DEF marketVars, storeVars
<1>1. \A r \in requests : /\ Accompanied(r).id = r.id
                          /\ KindFits(r) => KindFits(Accompanied(r))
  BY AccompaniedMoves DEF TypeOK, KindFits
<1>2. /\ intents \in Nat /\ \A x \in pending \cup requests : x.id \in Nat
      /\ \A o \in broker.orders : o.id \in Nat
  BY DeskAssumption DEF TypeOK, Requests, Orders, Ids
<1>3. ASSUME NEW x \in Requests, Intended(x)
      PROVE  IdsInv'
  <2>1. /\ x.id = intents + 1 /\ intents' = intents + 1 /\ pending = {}
        /\ KindFits(x)
    BY <1>3 DEF Intended, KindFits
  <2>2. \A y \in requests \cup broker.orders : y.id # x.id
    BY <1>2, <2>1 DEF IdsInv
  <2>3. CASE Commit(x) /\ pending' = pending
    BY <1>0, <1>1, <1>2, <2>1, <2>2, <2>3 DEF IdsInv, Commit
  <2>4. CASE pending' = {x} /\ requests' = requests
    BY <1>0, <1>2, <2>1, <2>2, <2>4 DEF IdsInv
  <2>5. QED
    BY <1>3, <2>3, <2>4 DEF Intended, Prompted
<1>4. ASSUME NEW p \in pending, pending' = {}, Commit(p),
             UNCHANGED <<intents, blind>>
      PROVE  IdsInv'
  BY <1>0, <1>1, <1>4 DEF IdsInv, Commit
<1>5. ASSUME pending' = {}, UNCHANGED <<requests, intents, blind>>
      PROVE  IdsInv'
  BY <1>0, <1>5 DEF IdsInv
<1>6. ASSUME NEW r \in requests, RequestSteps(r)
      PROVE  IdsInv'
  <2>1. CASE Ends(r) /\ pending' = pending
    BY <1>0, <1>6, <2>1, RequestMoves DEF IdsInv, Ends
  <2>2. ASSUME NEW x \in Requests, Becomes(r, x), Moved(r, x), pending' = pending
        PROVE  IdsInv'
    <3>1. x.id = r.id /\ KindFits(x) /\ intents' = intents
      BY <1>6, <2>2, RequestMoves DEF Moved, IdsInv
    <3>2. QED
      BY <1>0, <2>2, <3>1 DEF IdsInv, Becomes
  <2>3. ASSUME NEW x \in Requests, Ends(r), pending' = {x}, x.id = r.id,
               x.kind = "flatten", x.at = "look"
        PROVE  IdsInv'
    <3>1. intents' = intents /\ KindFits(x)
      BY <1>6, <2>3, RequestMoves DEF KindFits
    <3>2. QED
      BY <1>0, <2>3, <3>1 DEF IdsInv, Ends
  <2>4. QED
    BY <1>6, <2>1, <2>2, <2>3, RequestMoves
<1>7. QED
  BY <1>3, <1>4, <1>5, <1>6, DeskMoves

\* What the broker and the connection do to the snapshots being read.
LEMMA SnapshotsKept ==
  ASSUME TypeOK, BrokerStep \/ Authorize \/ Drop
  PROVE  \A w \in {"poll", "reconnect"} : refresh'[w].orders = refresh[w].orders
<1>0. refresh \in Refreshes
  BY DEF TypeOK, Refreshes
<1>1. \A w \in {"poll", "reconnect"} : Crossed[w].orders = refresh[w].orders
  BY <1>0 DEF Refreshes, Crossed
<1>2. refresh' = refresh \/ refresh' = Crossed
      \/ refresh' = [refresh EXCEPT !["reconnect"].at = "due"]
  BY DEF BrokerStep, CancelSucceeds, Gone, Accepted, OrderExpires, Fill, Publish,
         Authorize, Drop
<1>3. QED
  BY <1>0, <1>1, <1>2 DEF Refreshes

\* A request's id passes to its order and to nothing else.
LEMMA IdsBrokerStep ==
  ASSUME TypeOK, IdsInv, BrokerStep
  PROVE  IdsInv'
<1>1. \A w \in {"poll", "reconnect"} : refresh'[w].orders = refresh[w].orders
  BY SnapshotsKept
<1>2. ASSUME NEW r \in requests, CancelSucceeds(r)
      PROVE  IdsInv'
  <2>1. PICK o \in broker.orders : Cancelled(r, o.id) /\ Gone(o)
    BY <1>2 DEF CancelSucceeds
  <2>2. /\ Becomes(r, Without(r, o.id)) /\ UNCHANGED <<intents, pending>>
        /\ Without(r, o.id).id = r.id
        /\ KindFits(r) => KindFits(Without(r, o.id))
    BY <2>1, WithoutMoves DEF Cancelled, TypeOK, KindFits
  <2>3. broker'.orders \subseteq broker.orders
    BY <2>1, GoneMoves
  <2>4. QED
    BY <1>1, <2>2, <2>3 DEF IdsInv, Becomes
<1>3. ASSUME NEW r \in requests, Accepted(r)
      PROVE  IdsInv'
  <2>1. /\ requests' = requests \ {r} /\ UNCHANGED <<intents, pending>>
        /\ broker'.orders = broker.orders \cup {OrderOf(r)}
        /\ OrderOf(r).id = r.id
    BY <1>3, AcceptedMoves DEF Accepted, Ends, OrderOf
  <2>2. QED
    BY <1>1, <2>1 DEF IdsInv
<1>4. ASSUME NEW o \in broker.orders, OrderExpires(o)
      PROVE  IdsInv'
  <2>1. broker'.orders \subseteq broker.orders
        /\ UNCHANGED <<intents, pending, requests>>
    BY <1>4, GoneMoves DEF OrderExpires, deskVars
  <2>2. QED
    BY <1>1, <2>1 DEF IdsInv
<1>5. ASSUME NEW o \in broker.orders, NEW n \in 1..o.left, Fill(o, n)
      PROVE  IdsInv'
  <2>1. /\ broker'.orders \subseteq (broker.orders \ {o}) \cup {Rest(o, n)}
        /\ Rest(o, n).id = o.id
        /\ UNCHANGED <<intents, pending, requests>>
    <3>1. /\ Rest(o, n).id = o.id
          /\ broker'.orders = (broker.orders \ {o})
                                \cup (IF o.left = n THEN {} ELSE {Rest(o, n)})
      BY <1>5, FillMoves
    <3>2. UNCHANGED <<intents, pending, requests>>
      BY <1>5 DEF Fill, deskVars
    <3>3. QED
      BY <3>1, <3>2
  <2>2. QED
    BY <1>1, <2>1 DEF IdsInv
<1>6. QED
  BY <1>2, <1>3, <1>4, <1>5 DEF BrokerStep

\* IdsInv is preserved.
LEMMA IdsStep ==
  ASSUME TypeOK, IdsInv, [Next]_vars
  PROVE  IdsInv'
<1>1. CASE StoreStep
  <2>0. UNCHANGED <<broker, deskVars>> /\ refresh \in Refreshes
    BY <1>1 DEF StoreStep, Deliver, ReadPositions, ReadOrders, RefreshFails,
       Reconcile, marketVars, TypeOK, Refreshes
  <2>1. \A w \in {"poll", "reconnect"} :
           refresh'[w].orders \in {refresh[w].orders, broker.orders, {}}
    <3>1. CASE Deliver
      BY <2>0, <3>1 DEF Deliver, Refreshes, Crossed
    <3>2. ASSUME NEW w \in {"poll", "reconnect"}, ReadPositions(w)
          PROVE  \A v \in {"poll", "reconnect"} :
                   refresh'[v].orders \in {refresh[v].orders, {}}
      BY <2>0, <3>2 DEF ReadPositions, Refreshes
    <3>3. ASSUME NEW w \in {"poll", "reconnect"}, ReadOrders(w)
          PROVE  \A v \in {"poll", "reconnect"} :
                   refresh'[v].orders \in {refresh[v].orders, broker.orders}
      BY <2>0, <3>3 DEF ReadOrders, Refreshes
    <3>4. ASSUME NEW w \in {"poll", "reconnect"}, RefreshFails(w) \/ Reconcile(w)
          PROVE  \A v \in {"poll", "reconnect"} :
                   refresh'[v].orders \in {refresh[v].orders, {}}
      BY <2>0, <3>4 DEF RefreshFails, Reconcile, Resting, Refreshes
    <3>5. QED
      BY <1>1, <3>1, <3>2, <3>3, <3>4 DEF StoreStep
  <2>2. QED
    BY <2>0, <2>1 DEF IdsInv, deskVars
<1>2. CASE Authorize \/ Drop
  <2>1. UNCHANGED <<broker, deskVars>>
    BY <1>2 DEF Authorize, Drop
  <2>2. QED
    BY <1>2, <2>1, SnapshotsKept DEF IdsInv, deskVars
<1>3. CASE Listen \/ UNCHANGED vars
  BY <1>3 DEF Listen, IdsInv, vars, marketVars, storeVars, deskVars
<1>4. QED
  BY <1>1, <1>2, <1>3, IdsDeskStep, IdsBrokerStep, StepCases

\* The first state has its types, and no ids.
LEMMA InitType == Init => TypeOK /\ IdsInv
<1> SUFFICES ASSUME Init PROVE TypeOK /\ IdsInv
  OBVIOUS
<1>1. MarketTypeOK
  BY DeskAssumption DEF Init, MarketTypeOK
<1>2. StoreTypeOK
  <2>1. /\ book = [reconciled |-> FALSE, pos |-> 0, orders |-> {}]
        /\ refresh = [w \in {"poll", "reconnect"} |-> Resting]
        /\ trusted = FALSE
    BY DEF Init
  <2>2. Resting \in [at: {"idle", "due", "positions", "orders"}, pos: Int,
                     orders: SUBSET Orders, clean: BOOLEAN]
    BY DEF Resting
  <2>3. refresh \in Refreshes
    BY <2>1, <2>2 DEF Refreshes
  <2>4. book \in [reconciled: BOOLEAN, pos: Int, orders: SUBSET Orders]
        /\ book.orders = {}
    BY <2>1
  <2>5. QED
    BY <2>1, <2>3, <2>4 DEF StoreTypeOK
<1>3. DeskTypeOK
  <2>1. pending = {} /\ requests = {} /\ intents = 0 /\ blind = FALSE
    BY DEF Init
  <2>2. 0 \in 0..MaxIntents
    BY DeskAssumption
  <2>3. QED
    BY <2>1, <2>2 DEF DeskTypeOK
<1>4. IdsInv
  <2>1. pending = {} /\ requests = {} /\ broker.orders = {}
    BY DEF Init
  <2>2. \A w \in {"poll", "reconnect"} : refresh[w].orders = {}
    BY DEF Init, Resting
  <2>3. QED
    BY <2>1, <2>2 DEF IdsInv
<1>5. QED
  BY <1>1, <1>2, <1>3, <1>4, TypeParts

\* Every variable keeps its type (TypeOK): one prompt at most, orders of
\* positive size, and a book whose orders have ids of their own, which is what
\* the order map of the store is.
THEOREM TypeCorrect == Spec => []TypeOK
<1>1. TypeOK /\ IdsInv /\ [Next]_vars => TypeOK' /\ IdsInv'
  BY TypeStep, IdsStep
<1>2. QED
  BY <1>1, InitType, PTL DEF Spec

-----------------------------------------------------------------------------
(* The book follows the broker. *)

\* What update event about order o says of a change at the broker.
Tells(event, o) ==
  /\ Of(broker'.orders, o.id) = IF event \in Ended THEN {} ELSE {o}
  /\ \A id \in Ids \ {o.id} : Of(broker'.orders, id) = Of(broker.orders, id)
  /\ event \notin Fills => broker'.pos = broker.pos

\* Every change at the broker is published, and its update tells all of it.
LEMMA BrokerTells ==
  ASSUME TypeOK, IdsInv, BrokerStep
  PROVE  /\ UNCHANGED <<ws, book>>
         /\ \E event \in {"new", "fill", "partial_fill", "canceled"},
               o \in Orders, known \in BOOLEAN :
              Publish(event, o, known) /\ Tells(event, o)
<1>0. broker.orders \subseteq Orders
  BY DEF TypeOK
<1>1. ASSUME NEW o \in broker.orders, Gone(o)
      PROVE  Publish("canceled", o, FALSE) /\ Tells("canceled", o)
             /\ UNCHANGED <<ws, book>>
  <2>1. broker'.pos = broker.pos /\ broker'.orders = broker.orders \ {o}
    BY <1>1, GoneMoves
  <2>2. Publish("canceled", o, FALSE) /\ UNCHANGED <<ws, book>>
    BY <1>1 DEF Gone
  <2>3. Of(broker'.orders, o.id) = {}
    BY <2>1 DEF Of, IdsInv
  <2>4. \A id \in Ids \ {o.id} : Of(broker'.orders, id) = Of(broker.orders, id)
    BY <2>1 DEF Of
  <2>5. QED
    BY <2>1, <2>2, <2>3, <2>4 DEF Tells, Ended
<1>2. ASSUME NEW r \in requests, Accepted(r)
      PROVE  /\ OrderOf(r) \in Orders /\ Publish("new", OrderOf(r), FALSE)
             /\ Tells("new", OrderOf(r)) /\ UNCHANGED <<ws, book>>
  <2>1. /\ broker'.pos = broker.pos
        /\ broker'.orders = broker.orders \cup {OrderOf(r)}
        /\ OrderOf(r) \in Orders /\ OrderOf(r).id = r.id
    BY <1>2, AcceptedMoves DEF OrderOf
  <2>2. Publish("new", OrderOf(r), FALSE) /\ UNCHANGED <<ws, book>>
    BY <1>2 DEF Accepted, OrderOf
  <2>3. Of(broker'.orders, OrderOf(r).id) = {OrderOf(r)}
    BY <2>1 DEF Of, IdsInv
  <2>4. \A id \in Ids \ {OrderOf(r).id} :
           Of(broker'.orders, id) = Of(broker.orders, id)
    BY <2>1 DEF Of
  <2>5. QED
    BY <2>1, <2>2, <2>3, <2>4 DEF Tells, Ended
<1>3. ASSUME NEW o \in broker.orders, NEW n \in 1..o.left, Fill(o, n)
      PROVE  /\ Rest(o, n) \in Orders /\ UNCHANGED <<ws, book>>
             /\ \E event \in {"fill", "partial_fill"}, known \in BOOLEAN :
                  Publish(event, Rest(o, n), known) /\ Tells(event, Rest(o, n))
  <2>1. /\ Rest(o, n) \in Orders /\ Rest(o, n).id = o.id
        /\ broker'.orders = (broker.orders \ {o})
                              \cup (IF o.left = n THEN {} ELSE {Rest(o, n)})
    BY <1>3, FillMoves
  <2>2. UNCHANGED <<ws, book>>
    BY <1>3 DEF Fill
  <2> DEFINE event == IF o.left = n THEN "fill" ELSE "partial_fill"
  <2>3. PICK known \in BOOLEAN : Publish(event, Rest(o, n), known)
    BY <1>3, FillMoves
  <2>4. Of(broker'.orders, Rest(o, n).id) =
           IF o.left = n THEN {} ELSE {Rest(o, n)}
    BY <2>1 DEF Of, IdsInv
  <2>5. \A id \in Ids \ {Rest(o, n).id} :
           Of(broker'.orders, id) = Of(broker.orders, id)
    BY <2>1 DEF Of
  <2>6. Tells(event, Rest(o, n))
    BY <2>4, <2>5 DEF Tells, Ended, Fills
  <2>7. event \in {"fill", "partial_fill"}
    OBVIOUS
  <2> HIDE DEF event
  <2>8. QED
    BY <2>1, <2>2, <2>3, <2>6, <2>7
<1>4. QED
  BY <1>0, <1>1, <1>2, <1>3 DEF BrokerStep, CancelSucceeds, OrderExpires

\* A change at the broker is either told by its update or, where nobody
\* listens, taken as a loss.
LEMMA BookBrokerStep ==
  ASSUME TypeOK, IdsInv, StreamInv, BookInv, BrokerStep
  PROVE  StreamInv' /\ BookInv'
<1>0. stream \in Seq(Updates) /\ refresh \in Refreshes
  BY DEF TypeOK, Refreshes
<1>1. UNCHANGED <<ws, book>>
  BY BrokerTells
<1>2. PICK event \in {"new", "fill", "partial_fill", "canceled"},
           o \in Orders, known \in BOOLEAN :
             Publish(event, o, known) /\ Tells(event, o)
  BY BrokerTells
<1>3. CASE ws # "listening"
  <2>1. stream' = <<>> /\ trusted' = FALSE /\ refresh' = Crossed
    BY <1>2, <1>3 DEF Publish, StreamInv
  <2>2. StreamInv'
    BY <2>1 DEF StreamInv
  <2>3. \A w \in {"poll", "reconnect"} : ~refresh'[w].clean
    BY <1>0, <2>1, CrossedType
  <2>4. QED
    BY <2>1, <2>2, <2>3 DEF BookInv
<1>4. CASE ws = "listening"
  <2> DEFINE u == [event |-> event, order |-> o, pos |-> broker'.pos,
                   known |-> known]
             n == Len(stream) + 1
  <2>1. stream' = Append(stream, u) /\ trusted' = trusted /\ refresh' = refresh
    BY <1>2, <1>4 DEF Publish
  <2>2. u.event = event /\ u.order = o /\ u.pos = broker'.pos
    OBVIOUS
  <2> HIDE DEF u
  <2>3. /\ n \in Nat \ {0} /\ n \in 1..n
        /\ DOMAIN stream = 1..(n - 1) /\ DOMAIN stream' = 1..n
        /\ stream'[n] = u /\ \A i \in 1..(n - 1) : stream'[i] = stream[i]
        /\ \A i \in 1..(n - 1) : stream[i] \in Updates
    BY <1>0, <2>1
  <2> HIDE DEF n
  <2>4. \A i \in 1..(n - 1) : stream[i].order.id \in Ids
    BY <2>3 DEF Updates, Orders
  <2>5. StreamInv'
    <3>1. ASSUME NEW i \in 1..n,
                 \A j \in 1..n : j > i => stream'[j].order.id # stream'[i].order.id
          PROVE  Of(broker'.orders, stream'[i].order.id) =
                   IF stream'[i].event \in Ended THEN {} ELSE {stream'[i].order}
      <4>1. CASE i = n
        BY <1>2, <2>2, <2>3, <4>1 DEF Tells
      <4>2. CASE i # n
        <5>1. i \in 1..(n - 1) /\ n > i /\ n \in 1..n
          BY <2>3, <4>2
        <5>2. stream[i].order.id \in Ids \ {o.id}
          BY <2>2, <2>3, <2>4, <3>1, <5>1
        <5>3. \A j \in 1..(n - 1) :
                j > i => stream[j].order.id # stream[i].order.id
          BY <2>3, <3>1, <5>1
        <5>4. Of(broker.orders, stream[i].order.id) =
                IF stream[i].event \in Ended THEN {} ELSE {stream[i].order}
          BY <2>3, <5>1, <5>3 DEF StreamInv
        <5>5. QED
          BY <1>2, <2>3, <5>1, <5>2, <5>4 DEF Tells
      <4>3. QED
        BY <4>1, <4>2
    <3>2. ASSUME NEW i \in 1..n, stream'[i].event \in Fills,
                 \A j \in 1..n : j > i => stream'[j].event \notin Fills
          PROVE  stream'[i].pos = broker'.pos
      <4>1. CASE i = n
        BY <2>2, <2>3, <4>1
      <4>2. CASE i # n
        <5>1. i \in 1..(n - 1) /\ n > i /\ n \in 1..n
          BY <2>3, <4>2
        <5>2. event \notin Fills
          BY <2>2, <2>3, <3>2, <5>1
        <5>3. stream[i].pos = broker.pos
          BY <2>3, <3>2, <5>1 DEF StreamInv
        <5>4. QED
          BY <1>2, <2>3, <5>1, <5>2, <5>3 DEF Tells
      <4>3. QED
        BY <4>1, <4>2
    <3>3. QED
      BY <1>1, <1>4, <2>3, <3>1, <3>2 DEF StreamInv
  <2>6. ASSUME NEW pos, PosAgrees(pos), \A i \in 1..n : stream'[i].event \notin Fills
        PROVE  pos = broker'.pos
    <3>1. event \notin Fills
      BY <2>2, <2>3, <2>6
    <3>2. \A i \in 1..(n - 1) : stream[i].event \notin Fills
      BY <2>3, <2>6
    <3>3. QED
      BY <1>2, <2>3, <2>6, <3>1, <3>2 DEF PosAgrees, Tells
  <2>7. ASSUME NEW orders, OrdersAgree(orders), NEW id \in Ids,
               \A i \in 1..n : stream'[i].order.id # id
        PROVE  Of(orders, id) = Of(broker'.orders, id)
    <3>1. id # o.id
      BY <2>2, <2>3, <2>7
    <3>2. \A i \in 1..(n - 1) : stream[i].order.id # id
      BY <2>3, <2>7
    <3>3. QED
      BY <1>2, <2>3, <2>7, <3>1, <3>2 DEF OrdersAgree, Tells
  <2>8. BookInv'
    <3>1. trusted' => PosAgrees(book.pos)' /\ OrdersAgree(book.orders)'
      BY SMTT(30), <1>1, <2>1, <2>3, <2>6, <2>7 DEF BookInv, PosAgrees, OrdersAgree
    <3>2. ASSUME NEW w \in {"poll", "reconnect"}, refresh[w].clean
          PROVE  /\ refresh[w].at \in {"positions", "orders"} =>
                      PosAgrees(refresh[w].pos)'
                 /\ refresh[w].at = "orders" => OrdersAgree(refresh[w].orders)'
      <4>1. CASE refresh[w].at \in {"positions", "orders"}
        <5>1. PosAgrees(refresh[w].pos)
          BY <3>2, <4>1 DEF BookInv
        <5>2. PosAgrees(refresh[w].pos)'
          BY <2>1, <2>3, <2>6, <5>1 DEF PosAgrees
        <5>3. CASE refresh[w].at = "orders"
          <6>1. OrdersAgree(refresh[w].orders)
            BY <3>2, <5>3 DEF BookInv
          <6>2. OrdersAgree(refresh[w].orders)'
            BY <2>1, <2>3, <2>7, <6>1 DEF OrdersAgree
          <6>3. QED
            BY <5>2, <6>2
        <5>4. QED
          BY <5>2, <5>3
      <4>2. QED
        BY <4>1
    <3>3. QED
      BY <2>1, <3>1, <3>2 DEF BookInv
  <2>9. QED
    BY <2>5, <2>8
<1>5. QED
  BY <1>3, <1>4

\* The next update is taken from the stream and written to the book.
LEMMA BookDeliver ==
  ASSUME TypeOK, StreamInv, BookInv, Deliver
  PROVE  StreamInv' /\ BookInv'
<1> DEFINE e == Head(stream)
           n == Len(stream)
<1>0. stream \in Seq(Updates) /\ refresh \in Refreshes
      /\ book \in [reconciled: BOOLEAN, pos: Int, orders: SUBSET Orders]
  BY DEF TypeOK, Refreshes
<1>1. stream # <<>> /\ stream' = Tail(stream) /\ UNCHANGED <<broker, ws>>
  BY DEF Deliver
<1>2. /\ n \in Nat \ {0} /\ DOMAIN stream = 1..n /\ DOMAIN stream' = 1..(n - 1)
      /\ e = stream[1] /\ \A i \in 1..(n - 1) : stream'[i] = stream[i + 1]
      /\ e \in Updates
  BY <1>0, <1>1
<1>3. /\ book' = [book EXCEPT !.orders = OrdersAfter(e), !.pos = PosAfter(e)]
      /\ trusted' = (trusted /\ (e.event \in Fills => PosAfter(e) = e.pos))
      /\ refresh' = Crossed
  BY DEF Deliver
<1> HIDE DEF e, n
<1>4. book'.orders = OrdersAfter(e) /\ book'.pos = PosAfter(e)
  BY <1>0, <1>3
<1>5. ws # "listening" => stream' = <<>>
  BY <1>1 DEF StreamInv
<1>6. ASSUME NEW i \in 1..(n - 1)
      PROVE  /\ i + 1 \in 1..n /\ stream'[i] = stream[i + 1]
             /\ \A j \in 1..n : j > i + 1 =>
                  j - 1 \in 1..(n - 1) /\ j - 1 > i /\ stream'[j - 1] = stream[j]
  BY <1>2
<1>7. ASSUME NEW i \in 1..(n - 1),
             \A j \in 1..(n - 1) : j > i =>
               stream'[j].order.id # stream'[i].order.id
      PROVE  Of(broker.orders, stream'[i].order.id) =
               IF stream'[i].event \in Ended THEN {} ELSE {stream'[i].order}
  <2>1. \A j \in 1..n : j > i + 1 => stream[j].order.id # stream[i + 1].order.id
    BY <1>6, <1>7
  <2>2. QED
    BY ZenonT(40), <1>2, <1>6, <2>1 DEF StreamInv
<1>8. ASSUME NEW i \in 1..(n - 1), stream'[i].event \in Fills,
             \A j \in 1..(n - 1) : j > i => stream'[j].event \notin Fills
      PROVE  stream'[i].pos = broker.pos
  <2>1. \A j \in 1..n : j > i + 1 => stream[j].event \notin Fills
    BY <1>6, <1>8
  <2>2. i + 1 \in DOMAIN stream /\ stream[i + 1].event \in Fills
    BY <1>2, <1>6, <1>8
  <2>3. stream[i + 1].pos = broker.pos
    <3> DEFINE k == i + 1
    <3>1. \A j \in DOMAIN stream : j > k => stream[j].event \notin Fills
      BY <1>2, <2>1
    <3>2. k \in DOMAIN stream /\ stream[k].event \in Fills
      BY <2>2
    <3> HIDE DEF k
    <3>3. stream[k].pos = broker.pos
      BY <3>1, <3>2 DEF StreamInv
    <3>4. QED
      BY <3>3 DEF k
  <2>4. QED
    BY <1>6, <2>3
<1>9. StreamInv'
  BY <1>1, <1>2, <1>5, <1>7, <1>8 DEF StreamInv
<1>10. ASSUME NEW j \in 1..n, j # 1
       PROVE  j - 1 \in 1..(n - 1) /\ stream'[j - 1] = stream[j]
  BY <1>2, <1>10
<1>11. ASSUME trusted', \A i \in 1..(n - 1) : stream'[i].event \notin Fills
       PROVE  book'.pos = broker.pos
  <2>1. \A j \in 1..n : j # 1 => stream[j].event \notin Fills
    BY <1>10, <1>11
  <2>2. trusted /\ (e.event \in Fills => PosAfter(e) = e.pos)
    BY <1>3, <1>11
  <2>3. CASE e.event \in Fills
    <3>1. 1 \in 1..n /\ \A j \in 1..n : j > 1 => stream[j].event \notin Fills
      BY <1>2, <2>1
    <3>2. e.pos = broker.pos
      BY <1>2, <2>3, <3>1 DEF StreamInv
    <3>3. QED
      BY <1>4, <2>2, <2>3, <3>2
  <2>4. CASE e.event \notin Fills
    <3>1. book.pos = broker.pos
      BY <1>2, <2>1, <2>2, <2>4 DEF BookInv, PosAgrees
    <3>2. QED
      BY <1>4, <2>4, <3>1 DEF PosAfter
  <2>5. QED
    BY <2>3, <2>4
<1>12. ASSUME trusted', NEW id \in Ids,
              \A i \in 1..(n - 1) : stream'[i].order.id # id
       PROVE  Of(book'.orders, id) = Of(broker.orders, id)
  <2>1. \A j \in 1..n : j # 1 => stream[j].order.id # id
    BY <1>10, <1>12
  <2>2. trusted
    BY <1>3, <1>12
  <2>3. CASE id = e.order.id
    <3>1. 1 \in 1..n /\ \A j \in 1..n : j > 1 => stream[j].order.id # id
      BY <1>2, <2>1
    <3>2. Of(broker.orders, id) = IF e.event \in Ended THEN {} ELSE {e.order}
      BY <1>2, <2>3, <3>1 DEF StreamInv
    <3>3. Of(OrdersAfter(e), id) = IF e.event \in Ended THEN {} ELSE {e.order}
      BY <2>3 DEF Of, OrdersAfter, Ended
    <3>4. QED
      BY <1>4, <3>2, <3>3
  <2>4. CASE id # e.order.id
    <3>1. Of(book.orders, id) = Of(broker.orders, id)
      BY <1>2, <2>1, <2>2, <2>4 DEF BookInv, OrdersAgree
    <3>2. Of(OrdersAfter(e), id) = Of(book.orders, id)
      BY <2>4 DEF Of, OrdersAfter
    <3>3. QED
      BY <1>4, <3>1, <3>2
  <2>5. QED
    BY <2>3, <2>4
<1>13. \A w \in {"poll", "reconnect"} : ~refresh'[w].clean
  BY <1>0, <1>3, CrossedType
<1>14. BookInv'
  <2>1. trusted' => PosAgrees(book.pos)'
    BY <1>1, <1>2, <1>11 DEF PosAgrees
  <2>2. trusted' => OrdersAgree(book.orders)'
    BY <1>1, <1>2, <1>12 DEF OrdersAgree
  <2>3. QED
    BY <1>13, <2>1, <2>2 DEF BookInv
<1>15. QED
  BY <1>9, <1>14

\* Nothing is sent to the stream, and a snapshot reads what the broker has.
LEMMA BookSnapshotStep ==
  ASSUME TypeOK, StreamInv, BookInv, NEW w \in {"poll", "reconnect"},
         ReadPositions(w) \/ ReadOrders(w) \/ RefreshFails(w) \/ Reconcile(w)
  PROVE  StreamInv' /\ BookInv'
<1>0. refresh \in Refreshes
  BY DEF TypeOK, Refreshes
<1>1. UNCHANGED marketVars
  BY DEF ReadPositions, ReadOrders, RefreshFails, Reconcile
<1>2. StreamInv'
  BY <1>1 DEF StreamInv, marketVars
<1>3. \A pos : PosAgrees(pos) => /\ PosAgrees(pos)'
  BY <1>1 DEF PosAgrees, marketVars
<1>4. \A orders : OrdersAgree(orders) => OrdersAgree(orders)'
  BY <1>1 DEF OrdersAgree, marketVars
<1>5. CASE ReadPositions(w)
  <2>1. /\ refresh'[w].at = "positions" /\ refresh'[w].pos = broker.pos
        /\ \A v \in {"poll", "reconnect"} \ {w} : refresh'[v] = refresh[v]
        /\ UNCHANGED <<book, trusted>>
    BY <1>0, <1>5 DEF ReadPositions, Refreshes
  <2>2. PosAgrees(refresh[w].pos)'
    BY <1>1, <2>1 DEF PosAgrees, marketVars
  <2>3. QED
    BY <1>2, <1>3, <1>4, <2>1, <2>2 DEF BookInv
<1>6. CASE ReadOrders(w)
  <2>1. /\ refresh'[w].at = "orders" /\ refresh'[w].orders = broker.orders
        /\ refresh'[w].pos = refresh[w].pos /\ refresh[w].at = "positions"
        /\ refresh'[w].clean = refresh[w].clean
        /\ \A v \in {"poll", "reconnect"} \ {w} : refresh'[v] = refresh[v]
        /\ UNCHANGED <<book, trusted>>
    BY <1>0, <1>6 DEF ReadOrders, Refreshes
  <2>2. OrdersAgree(refresh[w].orders)'
    BY <1>1, <2>1 DEF OrdersAgree, marketVars
  <2>3. QED
    BY <1>2, <1>3, <1>4, <2>1, <2>2 DEF BookInv
<1>7. CASE RefreshFails(w)
  <2>1. /\ ~refresh'[w].clean
        /\ \A v \in {"poll", "reconnect"} \ {w} : refresh'[v] = refresh[v]
        /\ UNCHANGED <<book, trusted>>
    BY <1>0, <1>7 DEF RefreshFails, Refreshes, Resting
  <2>2. QED
    BY <1>2, <1>3, <1>4, <2>1 DEF BookInv
<1>8. CASE Reconcile(w)
  <2>1. /\ ~refresh'[w].clean /\ refresh[w].at = "orders"
        /\ \A v \in {"poll", "reconnect"} \ {w} : refresh'[v] = refresh[v]
        /\ book'.pos = refresh[w].pos /\ book'.orders = refresh[w].orders
        /\ trusted' = refresh[w].clean
    BY <1>0, <1>8 DEF Reconcile, Refreshes, Resting, Snapshot
  <2>2. QED
    BY <1>2, <1>3, <1>4, <2>1 DEF BookInv
<1>9. QED
  BY <1>5, <1>6, <1>7, <1>8

\* A connection that drops with updates on their way spoils the trust.
LEMMA BookConnection ==
  ASSUME TypeOK, StreamInv, BookInv, Authorize \/ Listen \/ Drop
  PROVE  StreamInv' /\ BookInv'
<1>0. refresh \in Refreshes
  BY DEF TypeOK, Refreshes
<1>1. CASE Authorize
  <2>1. UNCHANGED <<broker, stream, book, trusted>> /\ ws # "listening"
    BY <1>1 DEF Authorize
  <2>2. \A w \in {"poll", "reconnect"} :
           refresh'[w] = refresh[w] \/ refresh'[w].at = "due"
    BY <1>0, <1>1 DEF Authorize, Refreshes
  <2>3. StreamInv'
    BY <2>1 DEF StreamInv
  <2>4. BookInv'
    BY <2>1, <2>2 DEF BookInv, PosAgrees, OrdersAgree
  <2>5. QED
    BY <2>3, <2>4
<1>2. CASE Listen
  BY <1>2 DEF Listen, StreamInv, BookInv, PosAgrees, OrdersAgree, storeVars
<1>3. CASE Drop
  <2>1. stream' = <<>> /\ UNCHANGED <<broker, book>>
    BY <1>3 DEF Drop
  <2>2. StreamInv'
    BY <2>1 DEF StreamInv
  <2>3. CASE stream = <<>>
    BY <1>3, <2>1, <2>2, <2>3 DEF Drop, BookInv, PosAgrees, OrdersAgree
  <2>4. CASE stream # <<>>
    <3>1. trusted' = FALSE /\ refresh' = Crossed
      BY <1>3, <2>4 DEF Drop
    <3>2. QED
      BY <1>0, <2>2, <3>1, CrossedType DEF BookInv
  <2>5. QED
    BY <2>3, <2>4
<1>4. QED
  BY <1>1, <1>2, <1>3

\* Once the updates on their way are handled, a book that a clean snapshot
\* made and no loss has spoiled since is the broker's (BookTracksBroker).
THEOREM BookTracks == Spec => []BookTracksBroker
<1>1. TypeOK /\ IdsInv /\ [Next]_vars => TypeOK' /\ IdsInv'
  BY TypeStep, IdsStep
<1>2. TypeOK /\ IdsInv /\ StreamInv /\ BookInv /\ [Next]_vars =>
        StreamInv' /\ BookInv'
  <2>1. ASSUME DeskStep \/ UNCHANGED vars, StreamInv, BookInv
        PROVE  StreamInv' /\ BookInv'
    <3>1. UNCHANGED <<marketVars, storeVars>>
      BY <2>1, DeskStepLeaves DEF vars
    <3>2. QED
      BY <2>1, <3>1 DEF StreamInv, BookInv, PosAgrees, OrdersAgree, marketVars,
         storeVars
  <2>2. QED
    BY <2>1, BookBrokerStep, BookDeliver, BookSnapshotStep, BookConnection,
       StepCases DEF StoreStep
<1>3. Init => StreamInv /\ BookInv
  BY DEF Init, StreamInv, BookInv, Resting
<1>4. TypeOK /\ BookInv => BookTracksBroker
  <2> SUFFICES ASSUME TypeOK, BookInv, trusted, stream = <<>>
               PROVE  book.pos = broker.pos /\ book.orders = broker.orders
    BY DEF BookTracksBroker
  <2>1. DOMAIN stream = {}
    OBVIOUS
  <2>2. PosAgrees(book.pos) /\ OrdersAgree(book.orders)
    BY DEF BookInv
  <2>3. \A id \in Ids : Of(book.orders, id) = Of(broker.orders, id)
    BY <2>1, <2>2 DEF OrdersAgree
  <2>4. \A o \in book.orders \cup broker.orders : o.id \in Ids
    BY DEF TypeOK, Orders
  <2>5. book.orders = broker.orders
    BY <2>3, <2>4 DEF Of
  <2>6. QED
    BY <2>1, <2>2, <2>5 DEF PosAgrees
<1>5. QED
  BY <1>1, <1>2, <1>3, <1>4, InitType, PTL DEF Spec

-----------------------------------------------------------------------------
(* An exit that is alone fits. *)

\* Only orders that enlarge the position rest, so it covers the exit for good.
LEMMA CoversKept ==
  ASSUME TypeOK, NEW q \in Int, Covers(q), NEW o \in broker.orders,
         Gone(o) \/ \E n \in 1..o.left : Fill(o, n)
  PROVE  Covers(q)'
<1>1. CASE Gone(o)
  BY <1>1, GoneMoves DEF Covers
<1>2. ASSUME NEW n \in 1..o.left, Fill(o, n)
      PROVE  Covers(q)'
  <2>1. /\ o \in Orders /\ Rest(o, n).side = o.side
        /\ broker'.pos = broker.pos + Sign(o.side) * n
        /\ broker'.orders \subseteq broker.orders \cup {Rest(o, n)}
    <3>1. broker'.orders = (broker.orders \ {o})
                             \cup (IF o.left = n THEN {} ELSE {Rest(o, n)})
      BY <1>2, FillMoves
    <3>2. QED
      BY <1>2, <3>1, FillMoves
  <2>2. n \in Nat \ {0} /\ broker.pos \in Int /\ o.side \in {"buy", "sell"}
    BY <2>1 DEF TypeOK, Orders, Sides
  <2>3. /\ o.side = "buy" => broker'.pos = broker.pos + n
        /\ o.side = "sell" => broker'.pos = broker.pos - n
    BY <2>1, <2>2 DEF Sign
  <2>4. QED
    BY <2>1, <2>2, <2>3 DEF Covers
<1>3. QED
  BY <1>1, <1>2

\* An exit settled on at most p is covered where p is.
LEMMA CoversLess ==
  ASSUME TypeOK, NEW p \in Int \ {0}, Covers(p), NEW q \in Nat \ {0}, q <= Abs(p)
  PROVE  Covers(IF ExitSide(p) = "sell" THEN q ELSE -q)
<1>1. broker.pos \in Int
  BY DEF TypeOK
<1>2. CASE p > 0
  BY <1>1, <1>2 DEF Covers, ExitSide, Abs
<1>3. CASE p < 0
  BY <1>1, <1>3 DEF Covers, ExitSide, Abs
<1>4. QED
  BY <1>2, <1>3

\* A request is alone only when its lookup found it so, and then sized from
\* the position it covers.
LEMMA ExitDeskStep ==
  ASSUME TypeOK, IdsInv, ExitInv, DeskStep
  PROVE  ExitInv'
<1>0. broker' = broker
  BY DeskStepLeaves DEF marketVars
<1>1. \A q \in Int : Covers(q) => Covers(q)'
  BY <1>0 DEF Covers
<1>2. \A r \in requests : ~Accompanied(r).alone
  BY AccompaniedMoves DEF TypeOK
<1>3. ASSUME NEW x, ~x.alone, Commit(x), \A p \in pending' : ~p.alone
      PROVE  ExitInv'
  <2>1. \A r \in requests' : ~r.alone
    BY <1>2, <1>3 DEF Commit
  <2>2. QED
    BY <1>3, <2>1 DEF ExitInv
<1>4. ASSUME requests' \subseteq requests, \A p \in pending' : ~p.alone,
             \A r \in requests' : r.alone => requests' = {r}
      PROVE  ExitInv'
  BY <1>0, <1>4 DEF ExitInv, Covers
<1>5. ASSUME NEW x \in Requests, Intended(x)
      PROVE  ExitInv'
  <2>1. CASE Commit(x) /\ UNCHANGED pending
    BY <1>3, <1>5, <2>1 DEF Intended
  <2>2. CASE pending' = {x} /\ UNCHANGED requests
    BY <1>4, <1>5, <2>2 DEF Intended, ExitInv
  <2>3. QED
    BY <1>5, <2>1, <2>2 DEF Intended, Prompted
<1>6. ASSUME NEW p \in pending, pending' = {}, Commit(p)
      PROVE  ExitInv'
  BY <1>3, <1>6 DEF ExitInv
<1>7. ASSUME pending' = {}, UNCHANGED requests
      PROVE  ExitInv'
  BY <1>4, <1>7 DEF ExitInv
<1>8. ASSUME NEW r \in requests, RequestSteps(r)
      PROVE  ExitInv'
  <2>1. \A y \in requests : y.alone => requests = {r} /\ y = r
    BY DEF ExitInv
  <2>2. ASSUME Ends(r), \A p \in pending' : ~p.alone
        PROVE  ExitInv'
    BY <1>4, <2>1, <2>2 DEF Ends
  <2>3. ASSUME NEW x \in Requests, Becomes(r, x), Moved(r, x), pending' = pending
        PROVE  ExitInv'
    <3>1. CASE ~x.alone
      <4>1. \A y \in requests' : ~y.alone
        BY <2>1, <2>3, <3>1 DEF Becomes
      <4>2. QED
        BY <2>3, <4>1 DEF ExitInv
    <3>2. CASE x.alone
      <4>1. requests = {r} /\ requests' = {x}
        BY <2>1, <2>3, <3>2 DEF Moved, Alone, Becomes
      <4>2. x.kind # "order"
        BY <2>3 DEF Moved, IdsInv, KindFits
      <4>3. Alone(r) => Covers(broker.pos)
        <5>1. broker.pos \in Int
          BY DEF TypeOK
        <5>2. QED
          BY <5>1 DEF Alone, Covers, ExitSide
      <4>4. x.at = "resolve" => Covers(x.rest)'
        <5>1. broker.pos \in Int
          BY DEF TypeOK
        <5>2. QED
          BY <1>1, <2>3, <3>2, <4>3, <5>1 DEF Moved
      <4>5. ASSUME x.at = "send"
            PROVE  Covers(IF x.side = "sell" THEN x.qty ELSE -x.qty)'
        <5>1. PICK p \in Int \ {0} :
                /\ x.side = ExitSide(p) /\ x.qty <= Abs(p)
                /\ \/ Alone(r) /\ p = broker.pos
                   \/ r.alone /\ r.at = "resolve" /\ p = r.rest
          BY <2>3, <3>2, <4>5 DEF Moved
        <5>2. Covers(p)
          BY <4>3, <5>1 DEF ExitInv
        <5>3. x.qty \in Nat \ {0}
          BY <2>3, <4>5 DEF Moved, Requests
        <5>4. Covers(IF x.side = "sell" THEN x.qty ELSE -x.qty)
          BY <5>1, <5>2, <5>3, CoversLess
        <5>5. QED
          BY <1>0, <5>4 DEF Covers
      <4>6. QED
        BY <2>3, <3>2, <4>1, <4>2, <4>4, <4>5 DEF ExitInv
    <3>3. QED
      BY <3>1, <3>2
  <2>4. QED
    BY <1>8, <2>2, <2>3, RequestMoves DEF ExitInv
<1>9. QED
  BY <1>5, <1>6, <1>7, <1>8, DeskMoves

\* What happens at the broker leaves an exit that is alone covered.
LEMMA ExitBrokerStep ==
  ASSUME TypeOK, ExitInv, BrokerStep
  PROVE  ExitInv'
<1>1. ASSUME NEW r \in requests, CancelSucceeds(r)
      PROVE  ExitInv'
  <2>1. PICK o \in broker.orders : Cancelled(r, o.id) /\ Gone(o)
    BY <1>1 DEF CancelSucceeds
  <2> DEFINE x == Without(r, o.id)
  <2>2. /\ requests' = (requests \ {r}) \cup {x} /\ pending' = pending
        /\ x.at = "cancel" /\ x.alone = r.alone /\ x.kind = r.kind
    BY <2>1, WithoutMoves DEF Cancelled, Becomes, TypeOK
  <2> HIDE DEF x
  <2>3. \A y \in requests' : y.alone => y = x /\ requests' = {x} /\ r.alone
    BY <2>2 DEF ExitInv
  <2>4. QED
    BY <2>2, <2>3 DEF ExitInv
<1>2. ASSUME NEW r \in requests, Accepted(r)
      PROVE  ExitInv'
  <2>1. requests' = requests \ {r} /\ pending' = pending
    BY <1>2 DEF Accepted, Ends
  <2>2. \A y \in requests' : ~y.alone
    BY <2>1 DEF ExitInv
  <2>3. QED
    BY <2>1, <2>2 DEF ExitInv
<1>3. ASSUME NEW o \in broker.orders, UNCHANGED deskVars,
             Gone(o) \/ \E n \in 1..o.left : Fill(o, n)
      PROVE  ExitInv'
  <2>1. requests' = requests /\ pending' = pending
    BY <1>3 DEF deskVars
  <2>2. \A r \in requests : r.rest \in Int /\ r.qty \in Int /\ -r.qty \in Int
    BY DEF TypeOK, Requests
  <2>3. \A r \in requests : r.alone /\ r.at = "resolve" => Covers(r.rest)'
    BY <1>3, <2>2, CoversKept DEF ExitInv
  <2>4. ASSUME NEW r \in requests, r.alone, r.at = "send"
        PROVE  Covers(IF r.side = "sell" THEN r.qty ELSE -r.qty)'
    <3> DEFINE q == IF r.side = "sell" THEN r.qty ELSE -r.qty
    <3>1. q \in Int /\ Covers(q)
      BY <2>2, <2>4 DEF ExitInv
    <3> HIDE DEF q
    <3>2. Covers(q)'
      BY <1>3, <3>1, CoversKept
    <3>3. QED
      BY <3>2 DEF q
  <2>5. QED
    BY <2>1, <2>3, <2>4 DEF ExitInv
<1>4. QED
  BY <1>1, <1>2, <1>3 DEF BrokerStep, OrderExpires, Fill

\* The store and the connection leave the broker and the requests alone.
LEMMA DeskKept ==
  ASSUME StoreStep \/ Authorize \/ Listen \/ Drop \/ UNCHANGED vars
  PROVE  UNCHANGED <<broker, deskVars>>
BY DEF StoreStep, Deliver, ReadPositions, ReadOrders, RefreshFails, Reconcile,
       Authorize, Listen, Drop, vars, marketVars

\* ExitInv is preserved.
LEMMA ExitStep ==
  ASSUME TypeOK, IdsInv, ExitInv, [Next]_vars
  PROVE  ExitInv'
<1>1. ASSUME StoreStep \/ Authorize \/ Listen \/ Drop \/ UNCHANGED vars
      PROVE  ExitInv'
  <2>1. UNCHANGED <<broker, deskVars>>
    BY <1>1, DeskKept
  <2>2. QED
    BY <2>1 DEF ExitInv, Covers, deskVars
<1>2. QED
  BY <1>1, ExitDeskStep, ExitBrokerStep, StepCases

\* A flatten or panic that is alone never sends more than the position it exits
\* (LoneExitFits), whatever the book says and whatever fills meanwhile.
THEOREM LoneExitsFit == Spec => []LoneExitFits
<1>1. TypeOK /\ IdsInv /\ [Next]_vars => TypeOK' /\ IdsInv'
  BY TypeStep, IdsStep
<1>2. TypeOK /\ IdsInv /\ ExitInv /\ [Next]_vars => ExitInv'
  BY ExitStep
<1>3. Init => ExitInv
  BY DEF Init, ExitInv
<1>4. TypeOK /\ ExitInv => LoneExitFits
  <2> SUFFICES ASSUME TypeOK, ExitInv, NEW r \in requests, r.at = "send", r.alone
               PROVE  Sign(r.side) * broker.pos < 0 /\ r.qty <= Abs(broker.pos)
    BY DEF LoneExitFits, Exits
  <2>1. /\ broker.pos \in Int /\ r.qty \in Nat \ {0} /\ r.side \in {"buy", "sell"}
        /\ Covers(IF r.side = "sell" THEN r.qty ELSE -r.qty)
    BY DEF TypeOK, Requests, Sides, ExitInv
  <2>2. CASE r.side = "sell"
    <3>1. broker.pos >= r.qty
      BY <2>1, <2>2 DEF Covers
    <3>2. QED
      BY <2>1, <2>2, <3>1 DEF Sign, Abs
  <2>3. CASE r.side = "buy"
    <3>1. broker.pos <= -r.qty
      BY <2>1, <2>3 DEF Covers
    <3>2. QED
      BY <2>1, <2>3, <3>1 DEF Sign, Abs
  <2>4. QED
    BY <2>1, <2>2, <2>3
<1>5. QED
  BY <1>1, <1>2, <1>3, <1>4, InitType, PTL DEF Spec

-----------------------------------------------------------------------------
(* The shares that working orders ask for. *)

SharesOf(o) == {o.id} \X (1..o.left)

Finite(os) == \A side \in Sides : IsFiniteSet(Shares(os, side))

\* An order asks for as many shares as it has left.
LEMMA SharesOfOrder ==
  ASSUME NEW o \in Orders
  PROVE  IsFiniteSet(SharesOf(o)) /\ Cardinality(SharesOf(o)) = o.left
<1>1. o.left \in Nat
  BY DEF Orders
<1>2. IsFiniteSet(1..o.left) /\ Cardinality(1..o.left) = o.left
  <2> DEFINE n == o.left
  <2>1. n \in Int /\ 1 \in Int /\ n >= 0
    BY <1>1
  <2> HIDE DEF n
  <2>2. IsFiniteSet(1..n) /\ Cardinality(1..n) = IF 1 > n THEN 0 ELSE n - 1 + 1
    BY <2>1, FS_Interval
  <2>3. Cardinality(1..n) = n
    BY <2>1, <2>2
  <2>4. QED
    BY <2>2, <2>3 DEF n
<1>3. IsFiniteSet({o.id}) /\ Cardinality({o.id}) = 1
  BY FS_Singleton
<1>4. /\ IsFiniteSet(SharesOf(o))
      /\ Cardinality(SharesOf(o)) = Cardinality({o.id}) * Cardinality(1..o.left)
  BY <1>2, <1>3, FS_Product DEF SharesOf
<1>5. QED
  BY <1>1, <1>2, <1>3, <1>4

\* An order with an id of its own adds what it asks for, on its side.
LEMMA WorkingAdds ==
  ASSUME NEW os \in SUBSET Orders, Finite(os), NEW o \in Orders,
         \A q \in os : q.id # o.id
  PROVE  /\ Finite(os \cup {o})
         /\ \A side \in Sides :
              /\ Working(os, side) \in Nat
              /\ Working(os \cup {o}, side) =
                   Working(os, side) + (IF o.side = side THEN o.left ELSE 0)
<1> SUFFICES ASSUME NEW side \in Sides
             PROVE  /\ IsFiniteSet(Shares(os \cup {o}, side))
                    /\ Working(os, side) \in Nat
                    /\ Working(os \cup {o}, side) =
                         Working(os, side) + (IF o.side = side THEN o.left ELSE 0)
  BY DEF Finite
<1>1. IsFiniteSet(Shares(os, side)) /\ Working(os, side) \in Nat
  BY FS_CardinalityType DEF Finite, Working
<1>2. o.left \in Nat
  BY DEF Orders
<1>3. CASE o.side # side
  <2>1. Shares(os \cup {o}, side) = Shares(os, side)
    BY <1>3 DEF Shares
  <2>2. QED
    BY <1>1, <1>3, <2>1 DEF Working
<1>4. CASE o.side = side
  <2>1. Shares(os \cup {o}, side) = Shares(os, side) \cup SharesOf(o)
    BY <1>4 DEF Shares, SharesOf
  <2>2. Shares(os, side) \cap SharesOf(o) = {}
    <3>1. \A z \in Shares(os, side) : \E q \in os : z[1] = q.id
      BY DEF Shares
    <3>2. \A z \in SharesOf(o) : z[1] = o.id
      BY DEF SharesOf
    <3>3. QED
      BY <3>1, <3>2
  <2>3. IsFiniteSet(SharesOf(o)) /\ Cardinality(SharesOf(o)) = o.left
    BY SharesOfOrder
  <2>4. /\ IsFiniteSet(Shares(os, side) \cup SharesOf(o))
        /\ Cardinality(Shares(os, side) \cup SharesOf(o)) =
             Cardinality(Shares(os, side)) + Cardinality(SharesOf(o))
               - Cardinality(Shares(os, side) \cap SharesOf(o))
    BY <1>1, <2>3, FS_Union
  <2>5. Cardinality(Shares(os, side) \cap SharesOf(o)) = 0
    BY <2>2, FS_EmptySet
  <2>6. Working(os \cup {o}, side) = Cardinality(Shares(os, side) \cup SharesOf(o))
        /\ Cardinality(Shares(os, side)) = Working(os, side)
    BY <2>1 DEF Working
  <2>7. Working(os \cup {o}, side) = Working(os, side) + o.left
    BY <1>1, <1>2, <2>3, <2>4, <2>5, <2>6
  <2>8. IsFiniteSet(Shares(os \cup {o}, side))
    BY <2>1, <2>4
  <2>9. QED
    BY <1>1, <1>4, <2>7, <2>8
<1>5. QED
  BY <1>3, <1>4

\* An order that goes takes along what it asked for.
LEMMA WorkingDrops ==
  ASSUME NEW os \in SUBSET Orders, Finite(os), NEW o \in os,
         \A q, x \in os : q.id = x.id => q = x
  PROVE  /\ Finite(os \ {o})
         /\ \A side \in Sides :
              /\ Working(os, side) \in Nat /\ Working(os \ {o}, side) \in Nat
              /\ Working(os, side) =
                   Working(os \ {o}, side) + (IF o.side = side THEN o.left ELSE 0)
<1>1. Finite(os \ {o})
  <2> SUFFICES ASSUME NEW side \in Sides
               PROVE  IsFiniteSet(Shares(os \ {o}, side))
    BY DEF Finite
  <2>1. Shares(os \ {o}, side) \subseteq Shares(os, side)
    BY DEF Shares
  <2>2. QED
    BY <2>1, FS_Subset DEF Finite
<1>2. (os \ {o}) \cup {o} = os /\ \A q \in os \ {o} : q.id # o.id
  OBVIOUS
<1>3. \A side \in Sides :
         /\ Working(os \ {o}, side) \in Nat
         /\ Working((os \ {o}) \cup {o}, side) =
              Working(os \ {o}, side) + (IF o.side = side THEN o.left ELSE 0)
  BY <1>1, <1>2, WorkingAdds
<1>4. \A side \in Sides : Working(os, side) \in Nat
  BY FS_CardinalityType DEF Finite, Working
<1>5. QED
  BY <1>1, <1>2, <1>3, <1>4

\* What the position and the working orders of each side come to.
Long == broker.pos + Working(broker.orders, "buy")
Short == Working(broker.orders, "sell") - broker.pos

\* Both are numbers.
LEMMA LongShortType ==
  ASSUME TypeOK, Finite(broker.orders)
  PROVE  Long \in Int /\ Short \in Int
BY FS_CardinalityType DEF TypeOK, Finite, Working, Long, Short, Sides

\* However an order fills or goes, neither grows.
LEMMA LongShortShrink ==
  ASSUME TypeOK, IdsInv, Finite(broker.orders), NEW o \in broker.orders,
         Gone(o) \/ \E n \in 1..o.left : Fill(o, n)
  PROVE  Finite(broker.orders)' /\ Long' <= Long /\ Short' <= Short
<1>0. /\ broker.orders \in SUBSET Orders /\ o \in Orders /\ broker.pos \in Int
      /\ \A q, x \in broker.orders : q.id = x.id => q = x
      /\ o.left \in Nat /\ o.side \in {"buy", "sell"}
  BY DEF TypeOK, IdsInv, Orders, Sides
<1> DEFINE os == broker.orders \ {o}
<1>1. /\ Finite(os)
      /\ \A side \in Sides :
           /\ Working(broker.orders, side) \in Nat /\ Working(os, side) \in Nat
           /\ Working(broker.orders, side) =
                Working(os, side) + (IF o.side = side THEN o.left ELSE 0)
  BY <1>0, WorkingDrops
<1>2. os \in SUBSET Orders /\ \A q \in os : q.id # o.id
  BY <1>0
<1>3. CASE Gone(o)
  <2>1. broker'.pos = broker.pos /\ broker'.orders = os
    BY <1>3, GoneMoves
  <2> HIDE DEF os
  <2>2. QED
    BY <1>0, <1>1, <2>1 DEF Long, Short, Sides
<1>4. ASSUME NEW n \in 1..o.left, Fill(o, n)
      PROVE  Finite(broker.orders)' /\ Long' <= Long /\ Short' <= Short
  <2>1. /\ Rest(o, n) \in Orders /\ Rest(o, n).id = o.id
        /\ Rest(o, n).side = o.side /\ Rest(o, n).left = o.left - n
        /\ broker'.pos = broker.pos + Sign(o.side) * n
        /\ broker'.orders = os \cup (IF o.left = n THEN {} ELSE {Rest(o, n)})
    BY <1>4, FillMoves
  <2> HIDE DEF os
  <2>2. /\ Finite(broker'.orders)
        /\ \A side \in Sides :
             Working(broker'.orders, side) =
               Working(os, side) + (IF o.side = side THEN o.left - n ELSE 0)
    <3>1. CASE o.left = n
      <4>1. broker'.orders = os /\ o.left - n = 0
        BY <1>0, <2>1, <3>1
      <4>2. QED
        BY <1>1, <4>1
    <3>2. CASE o.left # n
      <4> DEFINE q == Rest(o, n)
      <4>1. /\ broker'.orders = os \cup {q} /\ q \in Orders /\ q.id = o.id
            /\ q.side = o.side /\ q.left = o.left - n
        BY <2>1, <3>2
      <4> HIDE DEF q
      <4>2. /\ Finite(os \cup {q})
            /\ \A side \in Sides :
                 Working(os \cup {q}, side) =
                   Working(os, side) + (IF q.side = side THEN q.left ELSE 0)
        <5>1. os \in SUBSET Orders /\ Finite(os) /\ \A x \in os : x.id # q.id
          BY <1>1, <1>2, <4>1
        <5>2. q \in Orders
          BY <4>1
        <5>3. QED
          BY <5>1, <5>2, WorkingAdds
      <4>3. QED
        BY <4>1, <4>2
    <3>3. QED
      BY <3>1, <3>2
  <2>3. /\ o.side = "buy" => broker'.pos = broker.pos + n
        /\ o.side = "sell" => broker'.pos = broker.pos - n
    BY <1>0, <2>1 DEF Sign
  <2>4. QED
    BY <1>0, <1>1, <2>2, <2>3 DEF Long, Short, Sides
<1>5. QED
  BY <1>3, <1>4

-----------------------------------------------------------------------------
(* The cap holds while no check was blind. *)

\* What the checker lets through does not reach beyond the cap on the order's
\* own side: a reduction that is let through above it ends short of zero.
LEMMA CheckArithmetic ==
  ASSUME NEW b \in Int, NEW q \in Nat \ {0}, NEW cap \in Nat,
         \/ Abs(b + q) <= cap
         \/ Abs(b + q) < Abs(b) /\ (b + q = 0 \/ b * (b + q) > 0)
  PROVE  b + q <= cap
<1>1. CASE Abs(b + q) <= cap
  BY <1>1 DEF Abs
<1>2. CASE Abs(b + q) < Abs(b) /\ (b + q = 0 \/ b * (b + q) > 0)
  <2>1. b < 0
    BY <1>2 DEF Abs
  <2>2. CASE b + q > 0
    <3>1. b * (b + q) < 0
      BY <2>1, <2>2
    <3>2. QED
      BY <1>2, <2>2, <3>1
  <2>3. QED
    BY <2>2
<1>3. QED
  BY <1>1, <1>2

\* An order that is checked against the broker's own book fits the cap.
LEMMA CheckFits ==
  ASSUME TypeOK, Finite(broker.orders), NEW r \in Requests, r.qty > 0,
         book.pos = broker.pos, book.orders = broker.orders,
         Check(r.side, r.qty)
  PROVE  Fits(r)
<1> DEFINE q == r.qty
<1>1. /\ Long \in Int /\ Short \in Int /\ q \in Nat \ {0}
      /\ r.side \in {"buy", "sell"} /\ broker.pos \in Int
      /\ Working(broker.orders, "buy") \in Nat /\ Working(broker.orders, "sell") \in Nat
  BY LongShortType, FS_CardinalityType
  DEF TypeOK, Requests, Sides, Finite, Working
<1>2. MaxPositionQty \in Nat /\ Cap \in Nat /\ MaxPositionQty <= Cap
  BY DeskAssumption, MaxOfTwo DEF Cap
<1>3. CASE r.side = "buy"
  <2>1. Exposure("buy") = Long /\ Sign("buy") = 1
    BY <1>1 DEF Exposure, Sign, Long
  <2>2. \/ Abs(Long + q) <= MaxPositionQty
        \/ Abs(Long + q) < Abs(Long) /\ (Long + q = 0 \/ Long * (Long + q) > 0)
    BY <1>1, <1>3, <2>1 DEF Check
  <2>3. Long + q <= MaxPositionQty
    BY <1>1, <1>2, <2>2, CheckArithmetic
  <2>4. QED
    BY <1>1, <1>2, <1>3, <2>3 DEF Fits, Long
<1>4. CASE r.side = "sell"
  <2>1. Exposure("sell") = -Short /\ Sign("sell") = -1
    BY <1>1 DEF Exposure, Sign, Short
  <2>2. \/ Abs(-Short + -1 * q) <= MaxPositionQty
        \/ /\ Abs(-Short + -1 * q) < Abs(-Short)
           /\ -Short + -1 * q = 0 \/ (-Short) * (-Short + -1 * q) > 0
    BY <1>1, <1>4, <2>1 DEF Check
  <2>3. -Short + -1 * q = -(Short + q)
    BY <1>1
  <2>4. (-Short) * (-(Short + q)) = Short * (Short + q)
    BY <1>1
  <2>5. Abs(-(Short + q)) = Abs(Short + q) /\ Abs(-Short) = Abs(Short)
    BY <1>1 DEF Abs
  <2>6. \/ Abs(Short + q) <= MaxPositionQty
        \/ Abs(Short + q) < Abs(Short) /\ (Short + q = 0 \/ Short * (Short + q) > 0)
    BY <1>1, <2>2, <2>3, <2>4, <2>5
  <2>7. Short + q <= MaxPositionQty
    BY <1>1, <1>2, <2>6, CheckArithmetic
  <2>8. QED
    BY <1>1, <1>2, <1>4, <2>7 DEF Fits, Short
<1>5. QED
  BY <1>1, <1>3, <1>4

\* A check that is not blind leaves one order to come, which fits.
LEMMA CapDeskStep ==
  ASSUME TypeOK, IdsInv, Finite(broker.orders), CapInv, DeskStep
  PROVE  CapInv'
<1>0. broker' = broker
  BY DeskStepLeaves DEF marketVars
<1>1. (Within(Cap) => Within(Cap)') /\ \A r : Fits(r) => Fits(r)'
  BY <1>0 DEF Within, Fits
<1>2. \A r \in requests :
         /\ Accompanied(r).kind = r.kind
         /\ r.kind = "order" /\ Fits(r) => Fits(Accompanied(r))
  BY AccompaniedMoves DEF TypeOK, Fits
<1>3. ASSUME NEW x \in Requests, Intended(x)
      PROVE  CapInv'
  <2>0. pending = {}
    BY <1>3 DEF Intended
  <2>1. CASE x.kind = "order"
    <3> SUFFICES ASSUME ~blind' PROVE CapInv'
      BY DEF CapInv
    <3>1. Seeing /\ ~blind /\ Check(x.side, x.qty) /\ x.qty > 0 /\ Prompted(x)
      BY <1>3, <2>1 DEF Intended
    <3>2. Fits(x) /\ Within(Cap)
      BY <3>1, CheckFits DEF Seeing, CapInv
    <3>3. \A r \in requests : r.kind = "cancel"
      BY <3>1 DEF Seeing
    <3>4. CASE Commit(x) /\ pending' = pending
      <4>1. \A r \in requests' : r = x \/ r.kind = "cancel"
        BY <1>2, <3>3, <3>4 DEF Commit
      <4>2. QED
        BY <1>1, <2>0, <3>2, <3>4, <4>1 DEF CapInv
    <3>5. CASE pending' = {x} /\ requests' = requests
      BY <1>1, <3>2, <3>3, <3>5 DEF CapInv
    <3>6. QED
      BY <3>1, <3>4, <3>5 DEF Prompted
  <2>2. CASE x.kind # "order"
    <3>1. blind' = blind /\ Commit(x) /\ pending' = {}
      BY <1>3, <2>0, <2>2 DEF Intended
    <3>2. \A r \in requests' : r.kind = "order" =>
             \E y \in requests : y.kind = "order" /\ r = Accompanied(y)
      BY <1>2, <2>2, <3>1 DEF Commit
    <3>3. QED
      BY <1>1, <1>2, <3>1, <3>2 DEF CapInv
  <2>3. QED
    BY <2>1, <2>2
<1>4. ASSUME NEW p \in pending, pending' = {}, Commit(p), blind' = blind
      PROVE  CapInv'
  <2>1. CASE p.kind = "order"
    <3> SUFFICES ASSUME ~blind PROVE CapInv'
      BY <1>4 DEF CapInv
    <3>1. \A r \in requests' : r = p \/ r.kind = "cancel"
      BY <1>2, <1>4, <2>1 DEF CapInv, Commit
    <3>2. QED
      BY <1>1, <1>4, <2>1, <3>1 DEF CapInv
  <2>2. CASE p.kind # "order"
    <3>1. \A r \in requests' : r.kind = "order" =>
             \E y \in requests : y.kind = "order" /\ r = Accompanied(y)
      BY <1>2, <1>4, <2>2 DEF Commit
    <3>2. QED
      BY <1>1, <1>2, <1>4, <3>1 DEF CapInv
  <2>3. QED
    BY <2>1, <2>2
<1>5. ASSUME pending' = {}, UNCHANGED <<requests, blind>>
      PROVE  CapInv'
  BY <1>1, <1>5 DEF CapInv
<1>6. ASSUME NEW r \in requests, RequestSteps(r)
      PROVE  CapInv'
  <2>0. blind' = blind /\ KindFits(r)
    BY <1>6, RequestMoves DEF IdsInv
  <2>1. CASE Ends(r) /\ pending' = pending
    BY <1>1, <2>0, <2>1 DEF CapInv, Ends
  <2>2. ASSUME NEW x \in Requests, Becomes(r, x), Moved(r, x), pending' = pending
        PROVE  CapInv'
    <3>1. x.kind # "order" /\ (r.kind = "cancel" => x.kind = "cancel")
      BY <2>0, <2>2 DEF Moved, KindFits
    <3>2. QED
      BY <1>1, <2>0, <2>2, <3>1 DEF CapInv, Becomes
  <2>3. ASSUME NEW x \in Requests, Ends(r), pending' = {x}, x.kind = "flatten"
        PROVE  CapInv'
    BY <1>1, <2>0, <2>3 DEF CapInv, Ends
  <2>4. QED
    BY <1>6, <2>1, <2>2, <2>3, RequestMoves
<1>7. QED
  BY <1>3, <1>4, <1>5, <1>6, DeskMoves

\* Acceptance uses up the room its check left, fills and ends only add to it.
LEMMA CapBrokerStep ==
  ASSUME TypeOK, IdsInv, ExitInv, Finite(broker.orders), CapInv, BrokerStep
  PROVE  CapInv' /\ Finite(broker.orders)'
<1>0. /\ Long \in Int /\ Short \in Int /\ Cap \in Nat
      /\ \A r \in pending \cup requests : r.qty \in Int
  BY LongShortType, DeskAssumption, MaxOfTwo DEF TypeOK, Requests, Cap
<1>1. ASSUME Long' <= Long, Short' <= Short, Long' \in Int, Short' \in Int
      PROVE  /\ Within(Cap) => Within(Cap)'
             /\ \A r \in pending \cup requests : Fits(r) => Fits(r)'
  <2>1. (Within(Cap) <=> Long <= Cap /\ Short <= Cap)
        /\ (Within(Cap)' <=> Long' <= Cap /\ Short' <= Cap)
    BY DEF Within, Long, Short
  <2>2. \A r : /\ Fits(r) <=> IF r.side = "buy" THEN Long + r.qty <= Cap
                                           ELSE Short + r.qty <= Cap
               /\ Fits(r)' <=> IF r.side = "buy" THEN Long' + r.qty <= Cap
                                            ELSE Short' + r.qty <= Cap
    BY DEF Fits, Long, Short
  <2>3. QED
    BY <1>0, <1>1, <2>1, <2>2
<1>2. ASSUME NEW o \in broker.orders, Gone(o) \/ \E n \in 1..o.left : Fill(o, n)
      PROVE  /\ Finite(broker.orders)' /\ (Within(Cap) => Within(Cap)')
             /\ \A r \in pending \cup requests : Fits(r) => Fits(r)'
  <2>1. Finite(broker.orders)' /\ Long' <= Long /\ Short' <= Short
    BY <1>2, LongShortShrink
  <2>2. broker'.pos \in Int
    BY <1>2, GoneMoves, FillMoves
  <2>3. Long' \in Int /\ Short' \in Int
    BY <2>1, <2>2, FS_CardinalityType DEF Finite, Working, Long, Short, Sides
  <2>4. QED
    BY <1>1, <2>1, <2>3
<1>3. ASSUME NEW r \in requests, CancelSucceeds(r)
      PROVE  CapInv' /\ Finite(broker.orders)'
  <2>1. PICK o \in broker.orders : Cancelled(r, o.id) /\ Gone(o)
    BY <1>3 DEF CancelSucceeds
  <2> DEFINE x == Without(r, o.id)
  <2>2. /\ requests' = (requests \ {r}) \cup {x} /\ pending' = pending
        /\ blind' = blind /\ x.kind = r.kind /\ r.at = "cancel"
    BY <2>1, WithoutMoves DEF Cancelled, Becomes, TypeOK
  <2> HIDE DEF x
  <2>3. x.kind # "order"
    BY <2>2 DEF IdsInv, KindFits
  <2>4. QED
    BY <1>2, <2>1, <2>2, <2>3 DEF CapInv
<1>4. ASSUME NEW r \in requests, Accepted(r)
      PROVE  CapInv' /\ Finite(broker.orders)'
  <2> DEFINE o == OrderOf(r)
  <2>1. /\ o \in Orders /\ o.id = r.id /\ o.side = r.side /\ o.left = r.qty
        /\ broker'.pos = broker.pos /\ broker'.orders = broker.orders \cup {o}
    BY <1>4, AcceptedMoves DEF OrderOf
  <2>2. /\ requests' = requests \ {r} /\ pending' = pending /\ r.at = "send"
        /\ blind' = (blind \/ (r.kind # "order" /\ ~r.alone))
    BY <1>4 DEF Accepted, Ends
  <2> HIDE DEF o
  <2>3. /\ broker.orders \in SUBSET Orders /\ \A q \in broker.orders : q.id # o.id
        /\ broker.pos \in Int /\ r.qty \in Nat /\ r.side \in {"buy", "sell"}
    BY <2>1, <2>2 DEF TypeOK, IdsInv, Requests, Sides
  <2>4. /\ Finite(broker.orders \cup {o})
        /\ \A side \in Sides :
             /\ Working(broker.orders, side) \in Nat
             /\ Working(broker.orders \cup {o}, side) =
                  Working(broker.orders, side)
                    + (IF o.side = side THEN o.left ELSE 0)
    BY <2>1, <2>3, WorkingAdds
  <2>5. /\ r.side = "buy" => Long' = Long + r.qty /\ Short' = Short
        /\ r.side = "sell" => Long' = Long /\ Short' = Short + r.qty
    BY <2>1, <2>3, <2>4 DEF Long, Short, Sides
  <2>6. ASSUME ~blind'
        PROVE  /\ Long' <= Cap /\ Short' <= Cap
               /\ \A y \in pending' \cup requests' : y.kind # "order"
    <3>0. Long <= Cap /\ Short <= Cap /\ ~blind
      BY <2>2, <2>6 DEF CapInv, Within, Long, Short
    <3>1. CASE r.kind = "order"
      <4>1. IF r.side = "buy" THEN Long + r.qty <= Cap ELSE Short + r.qty <= Cap
        BY <3>0, <3>1 DEF CapInv, Fits, Long, Short
      <4>2. \A y \in pending' \cup requests' : y.kind # "order"
        BY <2>2, <3>0, <3>1 DEF CapInv, IdsInv
      <4>3. QED
        BY <1>0, <2>3, <2>5, <3>0, <4>1, <4>2
    <3>2. CASE r.kind # "order"
      <4>1. r.alone /\ requests = {r} /\ r.kind # "cancel"
        BY <2>2, <2>6, <3>2 DEF ExitInv, IdsInv, KindFits
      <4>2. \A y \in pending' \cup requests' : y.kind # "order"
        BY <2>2, <3>0, <4>1 DEF CapInv
      <4>3. r.qty > 0
        BY <2>2 DEF TypeOK
      <4>4. CASE r.side = "sell"
        <5>1. broker.pos >= r.qty /\ \A q \in broker.orders : q.side # "sell"
          BY <2>2, <2>3, <4>1, <4>3, <4>4 DEF ExitInv, Covers
        <5>2. Shares(broker.orders, "sell") = {}
          BY <5>1 DEF Shares
        <5>3. Short = 0 - broker.pos
          BY <5>2, FS_EmptySet DEF Short, Working
        <5>4. QED
          BY <1>0, <2>3, <2>5, <3>0, <4>2, <4>4, <5>1, <5>3
      <4>5. CASE r.side = "buy"
        <5>1. broker.pos <= -r.qty /\ \A q \in broker.orders : q.side # "buy"
          BY <2>2, <2>3, <4>1, <4>3, <4>5 DEF ExitInv, Covers
        <5>2. Shares(broker.orders, "buy") = {}
          BY <5>1 DEF Shares
        <5>3. Long = broker.pos + 0
          BY <5>2, FS_EmptySet DEF Long, Working
        <5>4. QED
          BY <1>0, <2>3, <2>5, <3>0, <4>2, <4>5, <5>1, <5>3
      <4>6. QED
        BY <2>3, <4>4, <4>5
    <3>3. QED
      BY <3>1, <3>2
  <2>7. QED
    BY <2>1, <2>4, <2>6 DEF CapInv, Within, Long, Short
<1>5. ASSUME NEW o \in broker.orders, UNCHANGED deskVars,
             Gone(o) \/ \E n \in 1..o.left : Fill(o, n)
      PROVE  CapInv' /\ Finite(broker.orders)'
  BY <1>2, <1>5 DEF CapInv, deskVars
<1>6. QED
  BY <1>3, <1>4, <1>5 DEF BrokerStep, OrderExpires, Fill

\* As long as every order was checked against a current book, and every exit
\* was alone, what is filled and resting on a side stays within the position
\* cap at the broker (CapWhenSeen), however orders fill, expire or are
\* cancelled after the check.
THEOREM CapHolds == Spec => []CapWhenSeen
<1>1. TypeOK /\ IdsInv /\ [Next]_vars => TypeOK' /\ IdsInv'
  BY TypeStep, IdsStep
<1>2. TypeOK /\ IdsInv /\ ExitInv /\ [Next]_vars => ExitInv'
  BY ExitStep
<1>3. TypeOK /\ IdsInv /\ ExitInv /\ Finite(broker.orders) /\ CapInv
        /\ [Next]_vars => CapInv' /\ Finite(broker.orders)'
  <2>1. ASSUME CapInv, Finite(broker.orders),
               StoreStep \/ Authorize \/ Listen \/ Drop \/ UNCHANGED vars
        PROVE  CapInv' /\ Finite(broker.orders)'
    <3>1. UNCHANGED <<broker, deskVars>>
      BY <2>1, DeskKept
    <3>2. QED
      BY <2>1, <3>1 DEF CapInv, Within, Fits, deskVars
  <2>2. ASSUME TypeOK, IdsInv, CapInv, Finite(broker.orders), DeskStep
        PROVE  CapInv' /\ Finite(broker.orders)'
    <3>1. broker' = broker
      BY <2>2, DeskStepLeaves DEF marketVars
    <3>2. QED
      BY <2>2, <3>1, CapDeskStep
  <2>3. QED
    BY <2>1, <2>2, CapBrokerStep, StepCases
<1>4. Init => ExitInv /\ CapInv /\ Finite(broker.orders)
  <2> SUFFICES ASSUME Init PROVE ExitInv /\ CapInv /\ Finite(broker.orders)
    OBVIOUS
  <2>1. /\ pending = {} /\ requests = {} /\ broker.orders = {}
        /\ broker.pos = StartQty
    BY DEF Init
  <2>2. \A side \in Sides : Shares(broker.orders, side) = {}
    BY <2>1 DEF Shares
  <2>3. Finite(broker.orders)
    BY <2>2, FS_EmptySet DEF Finite
  <2>4. Working(broker.orders, "buy") = 0 /\ Working(broker.orders, "sell") = 0
    BY <2>2, FS_EmptySet DEF Working, Sides
  <2>5. StartQty \in Nat /\ Cap \in Nat /\ StartQty <= Cap
    BY DeskAssumption, MaxOfTwo DEF Cap
  <2>6. Within(Cap)
    BY <2>1, <2>4, <2>5 DEF Within
  <2>7. QED
    BY <2>1, <2>3, <2>6 DEF ExitInv, CapInv
<1>5. CapInv => CapWhenSeen
  BY DEF CapInv, CapWhenSeen, Cap
<1>6. QED
  BY <1>1, <1>2, <1>3, <1>4, <1>5, InitType, PTL DEF Spec

=============================================================================
