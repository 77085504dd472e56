------------------------------ MODULE FillWalk ------------------------------
(***************************************************************************)
(* The paginated histories of alpaca.REST: Fills, whose next page starts   *)
(* after the last activity's id, and ClosedOrders, whose next page starts  *)
(* at the last order's submission time, over GET requests that are tried   *)
(* again after HTTP 429.                                                   *)
(* An item stands for an activity in the one history and for an order in   *)
(* the other; ids ascend with time.  Items without an id and those before  *)
(* `after` are left out.                                                   *)
(***************************************************************************)
EXTENDS Naturals, FiniteSets, FiniteSetsExt, Sequences, Functions

CONSTANTS Stamps,   \* the items' times, in the order of their ids
          PageSize, \* fillPageSize, closedOrdersPage
          Retries   \* doRateLimitRetries

ASSUME WalkAssumption ==
  /\ Stamps \in Seq(Nat \ {0})
  /\ \A i, j \in DOMAIN Stamps : i <= j => Stamps[i] <= Stamps[j]
  /\ PageSize \in Nat \ {0} /\ Retries \in Nat

Items == DOMAIN Stamps

VARIABLES
  listed,  \* the items the broker serves
  walk     \* the history being read; see NewWalk

NewWalk(kind) ==
  [kind |-> kind, at |-> "send",  \* send, or how it ended: whole, failed, stuck
   next |-> 0,                    \* page_token, or the cursor's time
   tries |-> 0,                   \* attempts at the page
   rows |-> <<>>,                 \* all
   due |-> listed]                \* history: what was served when it began
NoWalk == [kind |-> "fills", at |-> "off", next |-> 0, tries |-> 0,
           rows |-> <<>>, due |-> {}]

Ended(w, at) == [w EXCEPT !.at = at]
Holding(w, rows) == [w EXCEPT !.rows = rows]
GoesOn(w, next) == [[w EXCEPT !.next = next] EXCEPT !.tries = 0]

\* A page is the set of its items, of which there are at most PageSize.
Least(set, n) == {i \in set : Cardinality({j \in set : j < i}) < n}

\* The items of a page as they are listed.
Ascending(set) ==
  CHOOSE s \in [1..Cardinality(set) -> set] :
    \A j, k \in DOMAIN s : j < k => s[j] < s[k]

\* The broker's answers: some repeat the activity of the token.
PagesAfter(w) ==
  LET from == IF w.kind = "orders"
                THEN {{i \in listed : Stamps[i] >= w.next}}
                ELSE {{i \in listed : i > w.next}, {i \in listed : i >= w.next}}
  IN {Least(set, PageSize) : set \in from}

\* De-duped by id, the first occurrence wins.
Collected(rows, page) == rows \o Ascending(page \ Range(rows))

\* Mutant: the next page of orders starts after the last one's time.
CursorAfterLast(w, page) ==
  IF w.kind = "orders" THEN Stamps[Max(page)] + 1 ELSE Max(page)

Cursor(w, page) == IF w.kind = "orders" THEN Stamps[Max(page)] ELSE Max(page)

\* A full page from which the walk cannot go on.
Stuck(w, page) ==
  IF w.kind = "fills" THEN Max(page) = w.next
  ELSE \/ Stamps[Max(page)] = Stamps[Min(page)]
       \/ page \subseteq Range(w.rows)
       \/ Stamps[Max(page)] <= w.next

\* Fills and ClosedOrders, with one page.
Turned(w, page) ==
  IF Cardinality(page) < PageSize
    THEN Holding(Ended(w, "whole"), Collected(w.rows, page))
  ELSE IF Stuck(w, page) THEN Holding(Ended(w, "stuck"), <<>>)
  ELSE GoesOn(Holding(w, Collected(w.rows, page)), Cursor(w, page))

Reply == \E page \in PagesAfter(walk) : walk' = Turned(walk, page)

\* HTTP 429: do() waits and asks again.
RateLimited ==
  walk' = IF walk.tries < Retries THEN [walk EXCEPT !.tries = @ + 1]
                                  ELSE Ended(walk, "failed")

\* Another status, a transport error or the end of the context.
RequestFails == walk' = Ended(walk, "failed")
-----------------------------------------------------------------------------
Walks == [kind: {"fills", "orders"},
          at: {"off", "send", "whole", "failed", "stuck"},
          next: Nat, tries: 0..Retries, rows: Seq(Items), due: SUBSET Items]

WalkTypeOK == listed \subseteq Items /\ walk \in Walks

\* What a walk has read, it has read without a hole: every item served when it
\* began is among the rows, up to the last of them if the walk failed (the
\* checkpoint a later request goes on from) and to the end if it did not,
\* whatever is listed meanwhile, repeated by a page or tried again.  Each is
\* there once, and they are in the order of their times, fills of their ids.
WalkHasNoHole ==
  LET rows == Range(walk.rows) IN
  /\ \A j, k \in DOMAIN walk.rows : j < k =>
       /\ walk.rows[j] # walk.rows[k]
       /\ Stamps[walk.rows[j]] <= Stamps[walk.rows[k]]
       /\ walk.kind = "fills" => walk.rows[j] < walk.rows[k]
  /\ \A i \in walk.due :
       walk.at = "whole" \/ (\E j \in rows : i < j) => i \in rows
=============================================================================
