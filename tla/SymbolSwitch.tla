---------------------------- MODULE SymbolSwitch ----------------------------
(***************************************************************************)
(* Symbol hot-switching of the terminal: the wiring of main.go around      *)
(* backfillMu (switchSymbol, runBackfill, scheduleBackfill), the           *)
(* subscription kept by MarketWS and its reconnects, and the `:sym`        *)
(* request and reply of the user interface.                                *)
(*                                                                         *)
(* Actors: the bubbletea loop (Request, ApplyReply), one goroutine per     *)
(* `:sym` and one per scheduled backfill (they queue on backfillMu), and   *)
(* the websocket's run loop (Dial, Authenticated, AckRead, AckSchedule,    *)
(* Drop).  Only the holder of backfillMu moves through crit, so one        *)
(* record stands for the program counter of every goroutine that can hold  *)
(* it.  What the bars contain is reduced to whose REST history they hold.  *)
(***************************************************************************)
EXTENDS Naturals

CONSTANTS Symbols,        \* tradable symbols
          NoSymbol,       \* the empty string
          DefaultSymbol,  \* cfg.DefaultSymbol
          MaxSwitches,    \* bound: number of `:sym` requests
          MaxDials        \* bound: number of websocket connections

ASSUME SymbolSwitchAssumption ==
  /\ DefaultSymbol \in Symbols
  /\ NoSymbol \notin Symbols
  /\ MaxSwitches \in Nat
  /\ MaxDials \in Nat

VARIABLES
  uiSymbol,     \* Model.symbol
  switchGen,    \* Model.switchGen
  waiting,      \* `:sym` goroutines that have not taken backfillMu
  replies,      \* symbolSwitchedMsg values not yet handled by Update
  crit,         \* who holds backfillMu, for which symbol, and where it is
  active,       \* activeSymbol
  backfillGen,  \* backfillGen
  jobs,         \* runBackfill goroutines that have not taken backfillMu
  stamped,      \* symbols whose lastBackfillTime is within backfillDebounce
  book,         \* whose REST history the aggregator holds
  wsSymbol,     \* MarketWS.symbol
  conn,         \* MarketWS.conn: nil, dialed, subscribed, or dead but not nil
  acked,        \* runOnce's local `subscribed`
  firstSub,     \* MarketWS.firstSub
  ackJob,       \* the OnInitial / OnReconnect call in progress
  dials,        \* connections made so far
  lastGen       \* history: the `:sym` that released backfillMu last

uiVars == <<uiSymbol, switchGen, waiting, replies>>
wsVars == <<wsSymbol, conn, acked, firstSub, ackJob, dials>>
mainVars == <<crit, active, backfillGen, jobs, stamped, book, lastGen>>
vars == <<uiVars, mainVars, wsVars>>

Gens == 1..MaxSwitches
Tape == Symbols \cup {NoSymbol}
Requests == [gen: Gens, symbol: Symbols]
Replies == [gen: Gens, active: Tape]
Jobs == [symbol: Symbols, gen: Nat, force: BOOLEAN]
AckJobs == [symbol: Symbols, force: BOOLEAN]

Idle == [who |-> "none", gen |-> 0, symbol |-> NoSymbol, prev |-> NoSymbol,
         at |-> "idle"]
Advancing == [who: {"switch"}, gen: Gens, symbol: Symbols, prev: Tape,
              at: {"subscribe", "open", "fetch"}]
Restoring == [who: {"switch"}, gen: Gens, symbol: Symbols, prev: Symbols,
              at: {"restore", "resubscribe"}]
Backfilling == [who: {"backfill"}, gen: {0}, symbol: Symbols,
                prev: {NoSymbol}, at: {"fetch"}]
NoBook == NoSymbol

Init ==
  /\ uiSymbol = DefaultSymbol /\ switchGen = 0
  /\ waiting = {} /\ replies = {}
  /\ crit = Idle
  /\ active = DefaultSymbol
  /\ backfillGen = 0 /\ jobs = {} /\ stamped = {}
  /\ book = NoBook
  /\ wsSymbol = DefaultSymbol
  /\ conn = "down" /\ acked = FALSE /\ firstSub = FALSE
  /\ ackJob = {} /\ dials = 0
  /\ lastGen = 0
-----------------------------------------------------------------------------
(* The user interface. *)

\* `:sym s` in runCommand: the displayed symbol is a no-op, any other starts
\* a goroutine that calls SwitchSymbol.
Request(s) ==
  /\ s # uiSymbol
  /\ switchGen < MaxSwitches
  /\ switchGen' = switchGen + 1
  /\ waiting' = waiting \cup {[gen |-> switchGen + 1, symbol |-> s]}
  /\ UNCHANGED <<uiSymbol, replies, mainVars, wsVars>>

\* Mutant: the reply of a superseded request is shown as well.
ShownAfterAnyReply(m) == m.active

\* The symbol shown after symbolSwitchedMsg m: a superseded one is dropped.
ShownAfter(m) == IF m.gen = switchGen THEN m.active ELSE uiSymbol

ApplyReply(m) ==
  /\ m \in replies
  /\ replies' = replies \ {m}
  /\ uiSymbol' = ShownAfter(m)
  /\ UNCHANGED <<switchGen, waiting, mainVars, wsVars>>
-----------------------------------------------------------------------------
(* MarketWS.SetSymbol: m.symbol is stored before the write, nothing is     *)
(* written without a connection or without a change, and a write that      *)
(* fails leaves a dead connection behind.                                  *)

SetSymbolSucceeds(s) ==
  /\ conn \in {"dialed", "live"} \/ conn = "down" \/ wsSymbol = s
  /\ wsSymbol' = s
  /\ UNCHANGED conn

SetSymbolFails(s) ==
  /\ conn # "down" /\ wsSymbol # s
  /\ wsSymbol' = s
  /\ conn' = "broken"
-----------------------------------------------------------------------------
(* switchSymbol, under backfillMu. *)

\* Mutant: the error path answers with the requested symbol.
ReturnRequested(outcome) ==
  /\ crit' = Idle
  /\ replies' = replies \cup {[gen |-> crit.gen, active |-> crit.symbol]}
  /\ lastGen' = crit.gen

\* Mutant: backfillMu is not released.
ReturnLocked(outcome) ==
  /\ crit' = [crit EXCEPT !.at = "restore"]
  /\ replies' = replies \cup {[gen |-> crit.gen, active |-> outcome]}
  /\ lastGen' = crit.gen

\* The unlock: the outcome goes back to the user interface.
Return(outcome) ==
  /\ crit' = Idle
  /\ replies' = replies \cup {[gen |-> crit.gen, active |-> outcome]}
  /\ lastGen' = crit.gen

\* Mutant: a switch away from no symbol at all is rolled back like any other.
AlwaysPrevious == TRUE

\* prev != "".
HasPrevious == crit.prev # NoSymbol

\* Mutant: the restoring SetSymbol call is left out.
SubscriptionLeft == wsSymbol

\* What the restoring SetSymbol call subscribes.
PreviousSubscription == crit.prev

\* prev == symbol: nothing to do.
SwitchSame(r) ==
  /\ crit = Idle /\ r \in waiting
  /\ active = r.symbol
  /\ waiting' = waiting \ {r}
  /\ replies' = replies \cup {[gen |-> r.gen, active |-> active]}
  /\ lastGen' = r.gen
  /\ UNCHANGED <<uiSymbol, switchGen, crit, active, backfillGen, jobs,
                 stamped, book, wsVars>>

\* Generations in flight are invalidated and ingest is paused.
SwitchBegin(r) ==
  /\ crit = Idle /\ r \in waiting
  /\ active # r.symbol
  /\ waiting' = waiting \ {r}
  /\ crit' = [who |-> "switch", gen |-> r.gen, symbol |-> r.symbol,
              prev |-> active, at |-> "subscribe"]
  /\ backfillGen' = backfillGen + 1
  /\ active' = NoSymbol
  /\ UNCHANGED <<uiSymbol, switchGen, replies, jobs, stamped, book, lastGen,
                 wsVars>>

Subscribed ==
  /\ crit.at = "subscribe"
  /\ SetSymbolSucceeds(crit.symbol)
  /\ crit' = [crit EXCEPT !.at = "open"]
  /\ UNCHANGED <<uiVars, active, backfillGen, jobs, stamped, book, lastGen,
                 acked, firstSub, ackJob, dials>>

\* The first subscription failed: ingest resumes on the previous symbol,
\* whose subscription is restored next.
SubscribeFailed ==
  /\ crit.at = "subscribe"
  /\ SetSymbolFails(crit.symbol)
  /\ active' = crit.prev
  /\ IF HasPrevious
       THEN /\ crit' = [crit EXCEPT !.at = "restore"]
            /\ UNCHANGED <<replies, lastGen>>
       ELSE Return(crit.prev)
  /\ UNCHANGED <<uiSymbol, switchGen, waiting, backfillGen, jobs, stamped,
                 book, acked, firstSub, ackJob, dials>>

Restored ==
  /\ crit.at = "restore"
  /\ SetSymbolSucceeds(PreviousSubscription)
  /\ Return(crit.prev)
  /\ UNCHANGED <<uiSymbol, switchGen, waiting, active, backfillGen, jobs,
                 stamped, book, acked, firstSub, ackJob, dials>>

\* Neither subscription stands: the tape is muted until the next `:sym`.
RestoreFailed ==
  /\ crit.at \in {"restore", "resubscribe"}
  /\ SetSymbolFails(PreviousSubscription)
  /\ active' = NoSymbol
  /\ Return(NoSymbol)
  /\ UNCHANGED <<uiSymbol, switchGen, waiting, backfillGen, jobs, stamped,
                 book, acked, firstSub, ackJob, dials>>

\* Mutant: the rings of the previous symbol are not cleared.
KeepBook == book

\* ResetMarket and ResetVWAP.
ResetMarket == NoBook

\* ResetMarket, ResetVWAP, BeginBackfill and activeSymbol.Store(symbol).
OpenTarget ==
  /\ crit.at = "open"
  /\ book' = ResetMarket
  /\ active' = crit.symbol
  /\ crit' = [crit EXCEPT !.at = "fetch"]
  /\ UNCHANGED <<uiVars, backfillGen, jobs, stamped, lastGen, wsVars>>

\* backfill returns nil: bars were loaded, or REST had none (a new listing).
Backfilled(s) ==
  /\ book' \in {s, book}
  /\ stamped' = stamped \cup {s}

SwitchDone ==
  /\ crit.who = "switch" /\ crit.at = "fetch"
  /\ Backfilled(crit.symbol)
  /\ Return(crit.symbol)
  /\ UNCHANGED <<uiSymbol, switchGen, waiting, active, backfillGen, jobs,
                 wsVars>>

\* backfill failed on TF1m: the filter and the book roll back.
RollBack ==
  /\ crit.who = "switch" /\ crit.at = "fetch"
  /\ active' = crit.prev
  /\ book' = ResetMarket
  /\ IF HasPrevious
       THEN /\ crit' = [crit EXCEPT !.at = "resubscribe"]
            /\ UNCHANGED <<replies, lastGen>>
       ELSE Return(crit.prev)
  /\ UNCHANGED <<uiSymbol, switchGen, waiting, backfillGen, jobs, stamped,
                 wsVars>>

\* scheduleBackfill: the newest generation wins.
Schedule(s, force) ==
  /\ backfillGen' = backfillGen + 1
  /\ jobs' = jobs \cup {[symbol |-> s, gen |-> backfillGen + 1,
                         force |-> force]}

Resubscribed ==
  /\ crit.at = "resubscribe"
  /\ SetSymbolSucceeds(PreviousSubscription)
  /\ Schedule(crit.prev, TRUE)
  /\ Return(crit.prev)
  /\ UNCHANGED <<uiSymbol, switchGen, waiting, active, stamped, book,
                 acked, firstSub, ackJob, dials>>
-----------------------------------------------------------------------------
(* runBackfill, under backfillMu. *)

\* Mutant: only the generation is compared, not the active symbol.
WantedByGeneration(j) ==
  /\ backfillGen = j.gen
  /\ j.force \/ j.symbol \notin stamped

\* Not superseded, still about the active symbol, and not debounced.
Wanted(j) ==
  /\ backfillGen = j.gen
  /\ active = j.symbol
  /\ j.force \/ j.symbol \notin stamped

JobDropped(j) ==
  /\ crit = Idle /\ j \in jobs
  /\ ~Wanted(j)
  /\ jobs' = jobs \ {j}
  /\ UNCHANGED <<uiVars, crit, active, backfillGen, stamped, book, lastGen,
                 wsVars>>

JobBegin(j) ==
  /\ crit = Idle /\ j \in jobs
  /\ Wanted(j)
  /\ jobs' = jobs \ {j}
  /\ crit' = [who |-> "backfill", gen |-> 0, symbol |-> j.symbol,
              prev |-> NoSymbol, at |-> "fetch"]
  /\ UNCHANGED <<uiVars, active, backfillGen, stamped, book, lastGen, wsVars>>

JobDone ==
  /\ crit.who = "backfill"
  /\ Backfilled(crit.symbol)
  /\ crit' = Idle
  /\ UNCHANGED <<uiVars, active, backfillGen, jobs, lastGen, wsVars>>

\* A failed backfill is logged: the rings keep what they had.
JobFailed ==
  /\ crit.who = "backfill"
  /\ crit' = Idle
  /\ UNCHANGED <<uiVars, active, backfillGen, jobs, stamped, book, lastGen, wsVars>>

\* backfillDebounce has passed since s was stamped.
DebounceExpires(s) ==
  /\ s \in stamped
  /\ stamped' = stamped \ {s}
  /\ UNCHANGED <<uiVars, crit, active, backfillGen, jobs, book, lastGen,
                 wsVars>>
-----------------------------------------------------------------------------
(* MarketWS.Run and runOnce. *)

Dial ==
  /\ conn = "down" /\ dials < MaxDials
  /\ conn' = "dialed"
  /\ acked' = FALSE
  /\ dials' = dials + 1
  /\ UNCHANGED <<uiVars, mainVars, wsSymbol, firstSub, ackJob>>

\* "authenticated": m.symbol is subscribed; the write may fail.
Authenticated ==
  /\ conn = "dialed"
  /\ conn' \in {"live", "broken"}
  /\ UNCHANGED <<uiVars, mainVars, wsSymbol, acked, firstSub, ackJob, dials>>

\* The first "subscription" message of a connection: OnInitial once, then
\* OnReconnect; both read m.symbol before they schedule.
AckRead ==
  /\ conn = "live" /\ ~acked
  /\ acked' = TRUE
  /\ firstSub' = TRUE
  /\ ackJob' = {[symbol |-> wsSymbol, force |-> firstSub]}
  /\ UNCHANGED <<uiVars, mainVars, wsSymbol, conn, dials>>

AckSchedule ==
  \E a \in ackJob :
    /\ Schedule(a.symbol, a.force)
    /\ ackJob' = {}
    /\ UNCHANGED <<uiVars, crit, active, stamped, book, lastGen, wsSymbol,
                   conn, acked, firstSub, dials>>

\* A read error, a missed pong or a failed write ends runOnce.
Drop ==
  /\ conn # "down" /\ ackJob = {}
  /\ conn' = "down"
  /\ UNCHANGED <<uiVars, mainVars, wsSymbol, acked, firstSub, ackJob, dials>>
-----------------------------------------------------------------------------
\* The steps of the goroutine that holds backfillMu.
HolderStep ==
  \/ Subscribed \/ SubscribeFailed \/ Restored \/ RestoreFailed
  \/ OpenTarget \/ SwitchDone \/ RollBack \/ Resubscribed
  \/ JobDone \/ JobFailed

\* backfillMu is granted to the goroutine of request number g.
Grant(g) ==
  \E r \in waiting : r.gen = g /\ (SwitchSame(r) \/ SwitchBegin(r))

Next ==
  \/ \E s \in Symbols : Request(s)
  \/ \E m \in replies : ApplyReply(m)
  \/ \E g \in Gens : Grant(g)
  \/ HolderStep
  \/ \E j \in jobs : JobDropped(j) \/ JobBegin(j)
  \/ \E s \in Symbols : DebounceExpires(s)
  \/ Dial \/ Authenticated \/ AckRead \/ AckSchedule \/ Drop

\* REST calls and websocket writes run under timeouts, so a holder of
\* backfillMu always moves on; sync.Mutex hands over to a waiter that has
\* starved; the bubbletea loop handles every message.
Fairness ==
  /\ WF_vars(HolderStep)
  /\ \A g \in Gens : SF_vars(Grant(g))
  /\ WF_vars(\E m \in replies : ApplyReply(m))

Spec == Init /\ [][Next]_vars /\ Fairness
-----------------------------------------------------------------------------
TypeOK ==
  /\ uiSymbol \in Tape /\ switchGen \in 0..MaxSwitches
  /\ waiting \subseteq Requests /\ replies \subseteq Replies
  /\ crit \in {Idle} \cup Advancing \cup Restoring \cup Backfilling
  /\ active \in Tape
  /\ backfillGen \in Nat /\ jobs \subseteq Jobs /\ stamped \subseteq Symbols
  /\ book \in Tape
  /\ wsSymbol \in Symbols
  /\ conn \in {"down", "dialed", "live", "broken"}
  /\ acked \in BOOLEAN /\ firstSub \in BOOLEAN
  /\ ackJob \subseteq AckJobs /\ dials \in 0..MaxDials
  /\ lastGen \in 0..MaxSwitches

\* Whoever fetches history under backfillMu fetches it for the symbol whose
\* prints the ingest filter lets through: a Load of one symbol never runs
\* over the tape of another (main.go: switchSymbol "never interleaves" with
\* runBackfill).
LoadsMatchTape == crit.at = "fetch" => active = crit.symbol

\* Outside a switch, the symbol the filter lets through is the one the
\* websocket (re)subscribes: the tape is never silently muted.
TapeSubscribed == crit = Idle /\ active # NoSymbol => wsSymbol = active

\* Outside a switch the rings never hold REST history of a symbol other than
\* the active one, whichever of the four failure paths was taken.
HistoryMatchesTape ==
  crit = Idle /\ active # NoSymbol => book \in {NoSymbol, active}

\* No `:sym` is waiting, running or unanswered.
Quiet == waiting = {} /\ replies = {} /\ crit.who # "switch"

\* If the newest `:sym` was the last to release backfillMu, then once all are
\* answered the terminal shows (and trades) the symbol whose tape is live,
\* whatever failed and whatever reconnects and backfills ran meanwhile.
NewestShown == Quiet /\ lastGen = switchGen => uiSymbol = active

\* What ui/model.go:62-64 says of concurrent requests: once all are answered,
\* the terminal is not on one name while the tape is elsewhere.
ShownIsLive == Quiet /\ active # NoSymbol => uiSymbol = active

\* Every `:sym` is answered and its answer handled, however many backfills
\* and other switches compete for backfillMu.
EverySwitchAnswered ==
  \A g \in Gens :
    (switchGen >= g) ~> /\ \A r \in waiting : r.gen # g
                        /\ crit.gen # g
                        /\ \A m \in replies : m.gen # g

\* A `:sym` takes effect in one step, at the unlock: until then the symbol it
\* started from counts as committed.
Committed == IF crit.who = "switch" THEN crit.prev ELSE active
InFlight ==
  IF crit.who = "switch" THEN {[gen |-> crit.gen, symbol |-> crit.symbol]}
                         ELSE {}

Atomic == INSTANCE AtomicSwitch
            WITH pending <- waiting \cup InFlight, committed <- Committed

\* switchSymbol is transactional: every behaviour is one of AtomicSwitch.
AtomicSpec == Atomic!Spec
=============================================================================
