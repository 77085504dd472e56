---------------------------- MODULE RealizedKicks ---------------------------
(***************************************************************************)
(* When the realized figures are refreshed: the worker that a fill kicks   *)
(* after a quiet delay (kickRealizedRefresh in main.go), the 30 s ticker   *)
(* and the walk at startup, one at a time under realizedRefreshMu, each    *)
(* within the budget of a context that runs while it waits for the mutex.  *)
(* RealizedSync models what a refresh computes.                            *)
(*                                                                         *)
(* A tick of the clock is long against a step of a goroutine: time passes  *)
(* only while all of them wait for the clock, the mutex or the broker.     *)
(***************************************************************************)
EXTENDS FillWalk

CONSTANTS Delay,      \* realizedKickDelay, in ticks
          Period,     \* realizedTickEvery
          Budget,     \* realizedTickBudget
          BootBudget, \* the budget of the walk at startup
          MaxKicks    \* bound: fills and reconnects

ASSUME KickAssumption ==
  /\ Delay \in Nat \ {0} /\ Period \in Nat \ {0} /\ Budget \in Nat \ {0}
  /\ BootBudget \in Nat /\ MaxKicks \in Nat

VARIABLES
  kick,   \* since: ticks since realizedKickAt; pend: realizedKickPend
  ticks,  \* since: ticks since the last one; due: one waits in the channel
  procs,  \* the goroutines: where each is and what is left of its context
  kept,   \* what refreshes left: nothing, a sample, or rows of fills
  past    \* history.  open: the newest kick is not followed by a refresh;
          \* excused: see ExcusedBy; kicks: how many there were

vars == <<listed, walk, kick, ticks, procs, kept, past>>
Workers == {"worker", "second"}
Procs == Workers \cup {"ticker", "boot"}
Off == [at |-> "off", left |-> 0]

Init ==
  /\ listed \in {Items \ {i} : i \in Items} /\ walk = NoWalk
  /\ kick = [since |-> Delay, pend |-> FALSE]
  /\ ticks = [since |-> 0, due |-> FALSE]
  /\ procs = [p \in Procs |-> IF p = "boot"
                THEN [at |-> "queue", left |-> BootBudget] ELSE Off]
  /\ kept = "nothing"
  /\ past = [open |-> FALSE, excused |-> FALSE, kicks |-> 0]

Running == {w \in Workers : procs[w].at # "off"}
Holder == {p \in Procs : procs[p].at = "walk"}
GoesTo(p, at) == procs' = [procs EXCEPT ![p].at = at]
StartsRefresh(p) == procs' = [procs EXCEPT ![p] = [at |-> "queue", left |-> Budget]]
-----------------------------------------------------------------------------
(* The worker. *)

\* Mutant: every kick starts a worker.
KickAlways ==
  /\ past.kicks < MaxKicks
  /\ kick' = [since |-> 0, pend |-> TRUE]
  /\ \E w \in Workers \ Running : GoesTo(w, "debounce")
  /\ past' = [open |-> TRUE, excused |-> FALSE, kicks |-> past.kicks + 1]
  /\ UNCHANGED <<listed, walk, ticks, kept>>

\* kickRealizedRefresh: starts a worker unless one is pending.
Kick ==
  /\ past.kicks < MaxKicks
  /\ kick' = [since |-> 0, pend |-> TRUE]
  /\ IF kick.pend THEN UNCHANGED procs
     ELSE \E w \in Workers \ Running :
            /\ Running = {} => w = "worker"
            /\ GoesTo(w, "debounce")
  /\ past' = [open |-> TRUE, excused |-> FALSE, kicks |-> past.kicks + 1]
  /\ UNCHANGED <<listed, walk, ticks, kept>>

\* The delay has passed since the last kick.
DebounceOver(w) ==
  /\ procs[w].at = "debounce" /\ kick.since >= Delay
  /\ StartsRefresh(w)
  /\ UNCHANGED <<listed, walk, kick, ticks, kept, past>>

\* Mutant: the worker ends with its refresh.
RecheckNever(w) ==
  /\ procs[w].at = "recheck"
  /\ procs' = [procs EXCEPT ![w] = Off]
  /\ kick' = [kick EXCEPT !.pend = FALSE]
  /\ UNCHANGED <<listed, walk, ticks, kept, past>>

\* After the refresh: on with a kick that is younger than the delay.
Recheck(w) ==
  /\ procs[w].at = "recheck"
  /\ IF kick.since < Delay
       THEN GoesTo(w, "debounce") /\ UNCHANGED kick
       ELSE /\ procs' = [procs EXCEPT ![w] = Off]
            /\ kick' = [kick EXCEPT !.pend = FALSE]
  /\ UNCHANGED <<listed, walk, ticks, kept, past>>
-----------------------------------------------------------------------------
(* The ticker, and what all refreshes share. *)

TickerFires ==
  /\ procs["ticker"].at = "off" /\ ticks.due
  /\ ticks' = [ticks EXCEPT !.due = FALSE]
  /\ StartsRefresh("ticker")
  /\ UNCHANGED <<listed, walk, kick, kept, past>>

\* RefreshRealizedPnL gets the mutex.  With nothing left of its context, its
\* first request fails.
Acquire(p) ==
  /\ procs[p].at = "queue" /\ Holder = {}
  /\ GoesTo(p, "walk")
  /\ walk' = NewWalk("fills")
  /\ past' = IF procs[p].left > 0
               THEN [past EXCEPT !.open = FALSE]
               ELSE [past EXCEPT !.excused = @ \/ p \in Workers]
  /\ UNCHANGED <<listed, kick, ticks, kept>>

\* The broker answers, or the context ends first.
Request(p) ==
  /\ procs[p].at = "walk" /\ walk.at = "send"
  /\ \/ procs[p].left > 0 /\ Reply
     \/ procs[p].left > 0 /\ RateLimited
     \/ RequestFails
  /\ UNCHANGED <<listed, kick, ticks, procs, kept, past>>

\* Without rows and without a sample, or with a stale one, failed fills give
\* way to closed orders.
FallBack(p) ==
  /\ procs[p].at = "walk" /\ walk.kind = "fills"
  /\ walk.at \in {"failed", "stuck"} /\ walk.rows = <<>> /\ kept # "rows"
  /\ walk' = NewWalk("orders")
  /\ UNCHANGED <<listed, kick, ticks, procs, kept, past>>

\* Rows of fills are kept even if the walk failed, orders only as a sample and
\* only if they agree with the positions.
Keeps ==
  IF walk.kind = "fills" /\ walk.rows # <<>> THEN {"rows"}
  ELSE {kept} \cup {k \in {"sample"} : walk.at = "whole" /\ kept # "rows"}

\* Mutant: the mutex is not freed on the way out of a failed refresh.
FinishWhole(p) ==
  /\ procs[p].at = "walk" /\ walk.at = "whole"
  /\ kept' \in Keeps /\ walk' = NoWalk
  /\ IF p \in Workers THEN GoesTo(p, "recheck")
                      ELSE procs' = [procs EXCEPT ![p] = Off]
  /\ UNCHANGED <<listed, kick, ticks, past>>

\* The refresh returns and frees the mutex.
Finish(p) ==
  /\ procs[p].at = "walk" /\ walk.at \notin {"off", "send"}
  /\ walk.kind = "orders" \/ walk.at = "whole" \/ walk.rows # <<>>
       \/ kept # "nothing"
  /\ kept' \in Keeps /\ walk' = NoWalk
  /\ IF p \in Workers THEN GoesTo(p, "recheck")
                      ELSE procs' = [procs EXCEPT ![p] = Off]
  /\ UNCHANGED <<listed, kick, ticks, past>>
-----------------------------------------------------------------------------
(* The broker and the clock. *)

\* An item is listed late, before others that were served already.
Lists ==
  /\ \E i \in Items \ listed : listed' = listed \cup {i}
  /\ UNCHANGED <<walk, kick, ticks, procs, kept, past>>

\* No goroutine has a step of its own to take.
AllWait ==
  /\ \A w \in Workers :
       /\ procs[w].at # "recheck"
       /\ procs[w].at = "debounce" => kick.since < Delay
  /\ Holder = {} => \A p \in Procs : procs[p].at # "queue"
  /\ \A p \in Holder : walk.at = "send" /\ procs[p].left > 0
  /\ ~(ticks.due /\ procs["ticker"].at = "off")

\* The kick was made while a refresh was under way that has gone on for the
\* whole delay since.
ExcusedBy(since) ==
  /\ past.open /\ kick.since < since /\ since = Delay
  /\ \E w \in Workers : procs[w].at = "walk"

Tick ==
  /\ AllWait
  /\ LET since == IF kick.since < Delay THEN kick.since + 1 ELSE Delay IN
       /\ kick' = [kick EXCEPT !.since = since]
       /\ past' = [past EXCEPT !.excused = @ \/ ExcusedBy(since)]
  /\ ticks' = IF ticks.since + 1 = Period
                THEN [since |-> 0, due |-> TRUE]
                ELSE [ticks EXCEPT !.since = @ + 1]
  /\ procs' = [p \in Procs |->
       [procs[p] EXCEPT !.left = IF @ > 0 THEN @ - 1 ELSE 0]]
  /\ UNCHANGED <<listed, walk, kept>>

Step(p) ==
  \/ DebounceOver(p) /\ p \in Workers
  \/ Recheck(p) /\ p \in Workers
  \/ Acquire(p)
  \/ Request(p)
  \/ FallBack(p)
  \/ Finish(p)

Next == Kick \/ TickerFires \/ Lists \/ Tick \/ \E p \in Procs : Step(p)

\* The goroutines run, and the clock: a request ends with its context.
Fairness ==
  /\ WF_vars(Tick) /\ WF_vars(TickerFires)
  /\ \A p \in Procs : WF_vars(Step(p))

Spec == Init /\ [][Next]_vars /\ Fairness
-----------------------------------------------------------------------------
\* Every variable keeps its type, one goroutine holds the mutex, and
\* realizedKickPend says whether there is a worker: never a second one.
TypeOK ==
  /\ WalkTypeOK
  /\ kick \in [since: 0..Delay, pend: BOOLEAN]
  /\ ticks \in [since: 0..Period - 1, due: BOOLEAN]
  /\ procs \in [Procs -> [at: {"off", "debounce", "queue", "walk", "recheck"},
                          left: 0..Budget + BootBudget]]
  /\ kept \in {"nothing", "sample", "rows"}
  /\ past \in [open: BOOLEAN, excused: BOOLEAN, kicks: 0..MaxKicks]
  /\ \A p, q \in Holder : p = q
  /\ \A v, w \in Running : v = w
  /\ kick.pend <=> Running # {}

\* A kick is never dropped: until a refresh has begun after it, there is a
\* worker that will make one.  The exceptions: a kick during a refresh that
\* goes on for the whole delay after it is taken for handled, and so is one
\* whose refresh found its context spent on waiting for the mutex.  Both are
\* left to the ticker.
KicksKept == past.open /\ ~past.excused => Running # {}

\* What the comment of kickRealizedRefresh says: a kick that lands while the
\* worker waits or refreshes is not left to the ticker.
KickNotLeft == past.open => Running # {}

\* Whatever becomes of the worker and of the requests, a refresh begins after
\* every kick: the ticker sees to those the worker has dropped.
KicksServed == past.open ~> ~past.open
=============================================================================
