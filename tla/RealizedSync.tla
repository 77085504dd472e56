---------------------------- MODULE RealizedSync ----------------------------
(***************************************************************************)
(* Realized profit and loss: which executions the figures rday and rwk     *)
(* count.  An execution reaches state.Store twice: at once as a trade      *)
(* update (wsFills) and, later and in any order, as an activity of the     *)
(* REST feed (fillCache).  RefreshRealizedPnL fetches the feed and merges  *)
(* the two; a coalesced worker recomputes from the cached rows after a     *)
(* fill.                                                                   *)
(* A sample is abstracted to the executions it counts.  One symbol and one *)
(* side; the inventory walk either reconciles or does not; no execution    *)
(* leaves the 180-day lookback.                                            *)
(***************************************************************************)
EXTENDS Integers, Sequences, FiniteSetsExt, SequencesExt

CONSTANTS Terms,       \* the executions, in the order they happen
          Overlap,     \* seconds a delta fetch reaches back
          Window,      \* residualMatchWindow
          MaxWeeks,    \* bound: week starts that pass
          ColdPartial, \* may a walk stop half-way before any walk has ended?
          Calm         \* no update is lost, the feed lists in order, promptly

ASSUME SyncAssumption ==
  /\ Terms \in Seq([order: STRING, qty: Nat \ {0}, price: Nat, at: Nat,
                    stamp: Nat, named: BOOLEAN])
  /\ \A j, k \in DOMAIN Terms : j < k => Terms[j].at <= Terms[k].at
  /\ Overlap \in Nat \ {0} /\ Window \in Nat /\ MaxWeeks \in Nat
  /\ ColdPartial \in BOOLEAN /\ Calm \in BOOLEAN

VARIABLES
  listed,    \* executions in the REST activity feed
  heard,     \* executions whose trade update was handled or lost
  callback,  \* where ApplyUpdate is: idle, schedule
  cache,     \* fillCache
  cacheWeek, \* fillCacheAfter: the week whose lookback filled the cache
  lastFull,  \* fillCacheLastFull: never, recent, or aged beyond the interval
  week,      \* WeekStart of now
  cut,       \* history: the cache is what a full walk got before it failed
  wsFills,   \* wsFills, in order
  sample,    \* the published figures
  refresh,   \* the holder of realizedRefreshMu
  recompute, \* realizedRecomputeLoop
  need,      \* realizedRecomputeNeed
  noted,     \* history: executions whose trade update was handled
  unseen,    \* history: a fill was stored and no recompute has read it yet
  stuck      \* history: the last recompute did not reconcile

feedVars == <<listed, heard>>
cacheVars == <<cache, cacheWeek, lastFull, week, cut>>
recomputeVars == <<recompute, need, unseen, stuck>>
vars == <<feedVars, callback, cacheVars, wsFills, sample, refresh,
          recomputeVars, noted>>

Execs == DOMAIN Terms
Sources == {"refresh", "recompute", "orders"}
NoSample == [by |-> "none", rows |-> [k \in Execs |-> 0], fresh |-> FALSE]
Counted(rows) == {k \in Execs : rows[k] > 0}

\* late: a sample that began later has been published meanwhile.
NoRefresh == [at |-> "idle", full |-> FALSE, week |-> 0,
              seen |-> {}, due |-> {}, late |-> FALSE, first |-> FALSE,
              rows |-> NoSample.rows]
\* behind: the rows are of a cache that was cut, or has changed since.
NoRecompute == [at |-> "off", rows |-> NoSample.rows, late |-> FALSE, behind |-> FALSE]

Init ==
  /\ listed = {} /\ heard = 0 /\ callback = "idle"
  /\ cache = {} /\ cacheWeek = -1 /\ lastFull = "never" /\ week = 0
  /\ cut = FALSE
  /\ wsFills = <<>> /\ sample = NoSample
  /\ refresh = NoRefresh /\ recompute = NoRecompute /\ need = FALSE
  /\ noted = {} /\ unseen = FALSE /\ stuck = FALSE
-----------------------------------------------------------------------------
(* mergeWSFills and pruneWSFillsCovered.  `rest` is a set of activities,   *)
(* `ws` a sequence of provisional rows, both named by their execution.     *)

\* The quantity of a set of executions.
Qty(S) ==
  LET upTo[n \in 0..Len(Terms)] ==
        IF n = 0 THEN 0 ELSE upTo[n - 1] + IF n \in S THEN Terms[n].qty ELSE 0
  IN  upTo[Len(Terms)]

RestQty(rest, o) == Qty({k \in rest : Terms[k].named /\ Terms[k].order = o})
WsQty(ws, o) == Qty({k \in ToSet(ws) : Terms[k].order = o})

\* The activities carry as much of the order as the provisional rows do.
Covered(rest, ws, o) == RestQty(rest, o) >= WsQty(ws, o)

\* preferWS: the activities have part of the order only.
Preferred(rest, ws, o) == RestQty(rest, o) > 0 /\ ~Covered(rest, ws, o)

SameTerms(k, r) ==
  Terms[k].qty = Terms[r].qty /\ Terms[k].price = Terms[r].price

Apart(k, r) ==
  IF Terms[k].stamp > Terms[r].at THEN Terms[k].stamp - Terms[r].at
                                  ELSE Terms[r].at - Terms[k].stamp

\* Row k takes an activity without order id that has its size and price, or
\* else some of the residual quantity of such activities (`bare`), if one of
\* them is close to it in time, or else it is kept.
MatchRow(bare, acc, k) ==
  LET same == {r \in acc.free : SameTerms(k, r)}
      less == IF acc.pool > Terms[k].qty THEN acc.pool - Terms[k].qty ELSE 0
  IN  IF same # {}
      THEN [free |-> acc.free \ {CHOOSE r \in same : TRUE},
            pool |-> less, kept |-> acc.kept]
      ELSE IF acc.pool >= Terms[k].qty /\ \E r \in bare : Apart(k, r) <= Window
      THEN [free |-> acc.free, pool |-> less, kept |-> acc.kept]
      ELSE [free |-> acc.free, pool |-> acc.pool, kept |-> Append(acc.kept, k)]

\* The rows, of those of `open`, that no activity without an order id accounts for.
Unmatched(rest, ws, open) ==
  LET bare == {r \in rest : ~Terms[r].named}
      after[i \in 0..Len(ws)] ==
        IF i = 0 THEN [free |-> bare, pool |-> Qty(bare), kept |-> <<>>]
        ELSE IF ws[i] \in open THEN MatchRow(bare, after[i - 1], ws[i])
        ELSE after[i - 1]
  IN  after[Len(ws)].kept

\* Mutant: activities of a partly listed order stay beside its WS rows.
MergedBoth(rest, ws) ==
  LET keep == {k \in ToSet(ws) : ~Covered(rest, ws, Terms[k].order)}
  IN  [k \in Execs |-> (IF k \in rest THEN 1 ELSE 0)
                     + (IF k \in keep THEN 1 ELSE 0)]

\* mergeWSFills: how often each execution is in the merged list.
Merged(rest, ws) ==
  LET Prefers(k) == Preferred(rest, ws, Terms[k].order)
      open == {k \in ToSet(ws) : /\ ~Prefers(k)
                                 /\ ~Covered(rest, ws, Terms[k].order)}
      fromWs == ToSet(Unmatched(rest, ws, open)) \cup {k \in ToSet(ws) : Prefers(k)}
      fromRest == {k \in rest : ~(Terms[k].named /\ Prefers(k))}
  IN  [k \in Execs |-> (IF k \in fromRest THEN 1 ELSE 0)
                     + (IF k \in fromWs THEN 1 ELSE 0)]

\* Mutant: every provisional row goes with the refresh.
PrunedAll(ws, rest) == <<>>

\* Mutant: the rows kept are appended to the old ones.
PrunedBehind(ws, rest) == ws \o Unmatched(rest, ws, ToSet(ws))

\* pruneWSFillsCovered.
Pruned(ws, rest) ==
  Unmatched(rest, ws, {k \in ToSet(ws) : ~Covered(rest, ws, Terms[k].order)})
-----------------------------------------------------------------------------
(* Time and the broker. *)

\* The activities endpoint catches up, in any order unless the feed is calm.
List(k) ==
  /\ k \notin listed /\ (Calm => 1..(k - 1) \subseteq listed)
  /\ listed' = listed \cup {k}
  /\ UNCHANGED <<heard, callback, cacheVars, wsFills, sample, refresh,
                 recomputeVars, noted>>

WeekPasses ==
  /\ week < MaxWeeks /\ week' = week + 1
  /\ UNCHANGED <<feedVars, callback, cache, cacheWeek, lastFull, cut, wsFills,
                 sample, refresh, recomputeVars, noted>>

\* fillCacheFullRefreshEvery has passed since the last full walk.
WalkAges ==
  /\ lastFull = "recent" /\ lastFull' = "aged"
  /\ UNCHANGED <<feedVars, callback, cache, cacheWeek, week, cut, wsFills,
                 sample, refresh, recomputeVars, noted>>

\* realizedPnLStaleAfter has passed since the published sample.
SampleAges ==
  /\ sample.fresh /\ sample' = [sample EXCEPT !.fresh = FALSE]
  /\ UNCHANGED <<feedVars, callback, cacheVars, wsFills, refresh,
                 recomputeVars, noted>>
-----------------------------------------------------------------------------
(* The trading websocket: ApplyUpdate, scheduleRealizedRecompute. *)

\* The id of a provisional row.
RowId(k) == <<Terms[k].order, Terms[k].qty, Terms[k].price, Terms[k].stamp>>

\* ApplyUpdate of the next execution, up to the unlock of s.mu:
\* noteWSFillLocked stores it unless a row has its id.
Note ==
  /\ callback = "idle" /\ heard < Len(Terms)
  /\ heard' = heard + 1 /\ noted' = noted \cup {heard'}
  /\ IF \E k \in ToSet(wsFills) : RowId(k) = RowId(heard')
     THEN UNCHANGED <<callback, wsFills, unseen>>
     ELSE /\ callback' = "schedule" /\ unseen' = TRUE
          /\ wsFills' = Append(wsFills, heard')
  /\ UNCHANGED <<listed, cacheVars, sample, refresh, recompute, need,
                 stuck>>

\* The stream is down: the update never arrives.
Lose ==
  /\ ~Calm
  /\ callback = "idle" /\ heard < Len(Terms) /\ heard' = heard + 1
  /\ UNCHANGED <<listed, callback, cacheVars, wsFills, sample, refresh,
                 recomputeVars, noted>>

\* scheduleRealizedRecompute: one worker at most.
Schedule ==
  /\ callback = "schedule" /\ callback' = "idle"
  /\ need' = TRUE
  /\ recompute' = IF recompute.at = "off" THEN [recompute EXCEPT !.at = "top"]
                                          ELSE recompute
  /\ UNCHANGED <<feedVars, cacheVars, wsFills, sample, refresh, unseen, stuck,
                 noted>>
-----------------------------------------------------------------------------
(* realizedRecomputeLoop and recomputeRealizedFromCache. *)

InFlight(job) == job.at \notin {"idle", "off", "top"}

\* The need is taken before the rows are read; the sample's clock starts.
RecomputeBegin ==
  /\ recompute.at = "top" /\ need /\ need' = FALSE
  /\ recompute' = [recompute EXCEPT !.at = "started", !.late = FALSE]
  /\ refresh' = [refresh EXCEPT !.first = InFlight(refresh)]
  /\ UNCHANGED <<feedVars, callback, cacheVars, wsFills, sample, unseen, stuck,
                 noted>>

RecomputeRead ==
  /\ recompute.at = "started"
  /\ recompute' = [recompute EXCEPT !.at = "read", !.rows = Merged(cache, wsFills),
                                   !.behind = cut]
  /\ unseen' = FALSE
  /\ UNCHANGED <<feedVars, callback, cacheVars, wsFills, sample, refresh, need,
                 stuck, noted>>

\* setRealizedPnLSampleIfNewerLocked.
Publish(by, job) ==
  sample' = IF job.late THEN sample
            ELSE [by |-> by, rows |-> job.rows, fresh |-> TRUE]

\* Mutant: the need is cleared after the walk.
RecomputeClears ==
  /\ recompute.at = "read"
  /\ Publish("recompute", recompute)
  /\ refresh' = [refresh EXCEPT !.late = @ \/ refresh.first]
  /\ recompute' = [NoRecompute EXCEPT !.at = "top"] /\ need' = FALSE
  /\ stuck' = FALSE
  /\ UNCHANGED <<feedVars, callback, cacheVars, wsFills, unseen, noted>>

\* Mutant: the sample is published whatever was published meanwhile.
RecomputeHides ==
  /\ recompute.at = "read"
  /\ Publish("recompute", recompute)
  /\ recompute' = [NoRecompute EXCEPT !.at = "top"] /\ stuck' = FALSE
  /\ UNCHANGED <<feedVars, callback, cacheVars, wsFills, refresh, need, unseen,
                 noted>>

RecomputePublish ==
  /\ recompute.at = "read"
  /\ Publish("recompute", recompute)
  /\ refresh' = [refresh EXCEPT !.late = @ \/ (~recompute.late /\ refresh.first),
                               !.first = FALSE]
  /\ recompute' = [NoRecompute EXCEPT !.at = "top"] /\ stuck' = FALSE
  /\ UNCHANGED <<feedVars, callback, cacheVars, wsFills, need, unseen, noted>>

\* The inventory walk does not reconcile: nothing is published.
RecomputeGivesUp ==
  /\ recompute.at = "read"
  /\ recompute' = [NoRecompute EXCEPT !.at = "top"] /\ stuck' = TRUE
  /\ refresh' = [refresh EXCEPT !.first = FALSE]
  /\ UNCHANGED <<feedVars, callback, cacheVars, wsFills, sample, need, unseen,
                 noted>>

RecomputeExit ==
  /\ recompute.at = "top" /\ ~need
  /\ recompute' = NoRecompute
  /\ UNCHANGED <<feedVars, callback, cacheVars, wsFills, sample, refresh, need,
                 unseen, stuck, noted>>
-----------------------------------------------------------------------------
(* RefreshRealizedPnL, under realizedRefreshMu, called at start-up, by the *)
(* ticker and after fills.                                                 *)

\* fetchFillsCached: a full walk, or only the delta?
ForceFull ==
  \/ cacheWeek # week
  \/ cache = {} /\ lastFull # "recent"
  \/ cache # {} /\ lastFull = "aged"

RefreshBegin ==
  /\ refresh.at = "idle"
  /\ refresh' = [NoRefresh EXCEPT !.at = "fetching",
                 !.full = ForceFull, !.week = week, !.seen = listed]
  /\ UNCHANGED <<feedVars, callback, cacheVars, wsFills, sample,
                 recomputeVars, noted>>

\* What a walk that saw the feed as `feed` is asked for: everything, what
\* follows the newest cached row less the overlap, or a recent tail.
Answers(feed) ==
  IF refresh.full THEN {feed}
  ELSE IF cache # {}
  THEN {{k \in feed : Terms[k].at > Terms[Max(cache)].at - Overlap}}
  ELSE {{k \in feed : k > j} : j \in IF Calm THEN {0} ELSE 0..Len(Terms)}

\* The feed may grow between the pages of a walk.
Feeds == {feed \in SUBSET listed :
            /\ refresh.seen \subseteq feed
            /\ Calm => \A k \in feed : 1..k \subseteq feed}

\* The rows a walk leaves behind.
Stored(rows) == IF refresh.full THEN rows ELSE cache \cup rows

CacheChanges ==
  recompute' = [recompute EXCEPT !.behind = @ \/ recompute.at = "read"]

\* REST.Fills reached the last page.
FetchSucceeds ==
  /\ refresh.at = "fetching"
  /\ \E feed \in Feeds : \E rows \in Answers(feed) : cache' = Stored(rows)
  /\ cacheWeek' = refresh.week /\ cut' = FALSE
  /\ lastFull' = IF refresh.full THEN "recent" ELSE lastFull
  /\ refresh' = [refresh EXCEPT !.at = "fetched", !.seen = {}, !.week = 0,
                               !.full = FALSE]
  /\ CacheChanges
  /\ UNCHANGED <<feedVars, callback, week, wsFills, sample, need, unseen, stuck,
                 noted>>

\* No prior sample and no checkpoint: ClosedOrders is asked.
Cold(checkpoint) == checkpoint = {} /\ ~sample.fresh

\* REST.Fills failed before the first row, or after some pages: those rows,
\* the oldest of the answer, are checkpointed, in a full walk in place of
\* the cache.
FetchFails ==
  /\ refresh.at = "fetching"
  /\ \E feed \in Feeds : \E answer \in Answers(feed) : \E j \in 0..Len(Terms) :
       LET rows == {k \in answer : k <= j} IN
       /\ rows # {} => ColdPartial \/ lastFull # "never"
       /\ cache' = IF rows = {} THEN cache ELSE Stored(rows)
       /\ cacheWeek' = IF rows = {} THEN cacheWeek ELSE refresh.week
       /\ cut' = (cut \/ (refresh.full /\ rows # {}))
  /\ IF Cold(cache')
     THEN refresh' = [refresh EXCEPT !.at = "orders", !.seen = {}, !.week = 0,
                               !.full = FALSE]
     ELSE refresh' = NoRefresh
  /\ CacheChanges
  /\ UNCHANGED <<feedVars, callback, lastFull, week, wsFills, sample, need,
                 unseen, stuck, noted>>

RefreshMerge ==
  /\ refresh.at = "fetched"
  /\ refresh' = [refresh EXCEPT !.at = "merged", !.due = noted \cup cache,
                 !.rows = Merged(cache, wsFills)]
  /\ UNCHANGED <<feedVars, callback, cacheVars, wsFills, sample,
                 recomputeVars, noted>>

\* A sample that is published outdates a recompute that began before it.
Outdates ==
  recompute' = [recompute EXCEPT !.late =
                  @ \/ (InFlight(recompute) /\ ~refresh.late /\ ~refresh.first)]

RefreshPublish ==
  /\ refresh.at = "merged"
  /\ Publish("refresh", refresh) /\ Outdates
  /\ wsFills' = Pruned(wsFills, cache)
  /\ refresh' = NoRefresh
  /\ UNCHANGED <<feedVars, callback, cacheVars, need, unseen, stuck, noted>>

\* The inventory walk does not reconcile: the prior sample stays.
RefreshGivesUp ==
  /\ refresh.at \in {"merged", "orders"}
  /\ refresh' = NoRefresh
  /\ UNCHANGED <<feedVars, callback, cacheVars, wsFills, sample,
                 recomputeVars, noted>>

\* ClosedOrders answers with whatever its window of submissions holds.
OrdersPublish ==
  /\ refresh.at = "orders"
  /\ \E found \in SUBSET Execs :
       Publish("orders", [refresh EXCEPT !.rows =
                            [k \in Execs |-> IF k \in found THEN 1 ELSE 0]])
  /\ Outdates
  /\ refresh' = NoRefresh
  /\ UNCHANGED <<feedVars, callback, cacheVars, wsFills, need, unseen, stuck,
                 noted>>
-----------------------------------------------------------------------------
RefreshStep ==
  \/ FetchSucceeds \/ FetchFails \/ RefreshMerge
  \/ RefreshPublish \/ RefreshGivesUp \/ OrdersPublish

Next ==
  \/ \E k \in Execs : List(k)
  \/ WeekPasses \/ WalkAges \/ SampleAges
  \/ Note \/ Lose \/ Schedule
  \/ RecomputeBegin \/ RecomputeRead \/ RecomputePublish
  \/ RecomputeGivesUp \/ RecomputeExit
  \/ RefreshBegin
  \/ RefreshStep

\* The ticker calls a refresh every 30 s, each call has a deadline, time
\* passes, and the feed answers to the last page again and again.
Fairness ==
  /\ WF_vars(RefreshBegin)
  /\ WF_vars(RefreshStep) /\ WF_vars(WalkAges) /\ SF_vars(FetchSucceeds)

Spec == Init /\ [][Next]_vars /\ Fairness
-----------------------------------------------------------------------------
Rows == [Execs -> 0..2]

\* Type invariant.
TypeOK ==
  /\ listed \subseteq Execs /\ heard \in 0..Len(Terms) /\ noted \subseteq Execs
  /\ callback \in {"idle", "schedule"}
  /\ cache \subseteq Execs /\ cacheWeek \in -1..MaxWeeks
  /\ lastFull \in {"never", "recent", "aged"} /\ week \in 0..MaxWeeks
  /\ wsFills \in Seq(Execs) /\ Len(wsFills) <= Len(Terms)
  /\ sample \in [by: Sources \cup {"none"}, rows: Rows, fresh: BOOLEAN]
  /\ refresh \in [at: {"idle", "fetching", "fetched", "merged", "orders"},
                  full: BOOLEAN, week: 0..MaxWeeks, seen: SUBSET Execs,
                  due: SUBSET Execs, late: BOOLEAN, first: BOOLEAN, rows: Rows]
  /\ recompute \in [at: {"off", "top", "started", "read"}, rows: Rows,
                    late: BOOLEAN, behind: BOOLEAN]
  /\ cut \in BOOLEAN /\ need \in BOOLEAN /\ unseen \in BOOLEAN /\ stuck \in BOOLEAN

\* No figure counts an execution twice, although it comes by two channels
\* and the merge may run with any part of either (mergeWSFills).
CountedOnce ==
  \A rows \in {sample.rows, refresh.rows, recompute.rows} :
    \A k \in Execs : rows[k] <= 1

\* What the comments of noteWSFillLocked and mergeWSFills say: the figures of a
\* refresh count every execution the terminal has been told of, by the stream or
\* by the feed, parts of an order and orders close together included.
EveryFillCounted ==
  refresh.at = "merged" => refresh.due \subseteq Counted(refresh.rows)

\* The activity, listed without order id, of another execution may be taken
\* for execution k: it has its size and price, or is close to it in time.
Shadowed(k) ==
  \E r \in listed \ {k} :
    ~Terms[r].named /\ (SameTerms(k, r) \/ Apart(k, r) <= Window)

\* The executions that filled an order at once.
Whole == {k \in Execs : \A j \in Execs \ {k} : Terms[j].order # Terms[k].order}

\* Those of them that the cache has or that nothing listed may be taken for.
Sure == {k \in Whole : k \in cache \/ ~Shadowed(k)}

\* An execution the terminal has been told of is missing from the figures of a
\* refresh only if its order was filled in parts, or if its own activity is not
\* in the cache and one without order id may be taken for it: neither failed
\* walks nor late, reordered or lost deliveries leave out any other
\* (fetchFillsCached, mergeWSFills, pruneWSFillsCovered).
SureFillsCounted ==
  refresh.at = "merged" => refresh.due \cap Sure \subseteq Counted(refresh.rows)

\* A recompute is under way whose sample will be published.
Recomputing == InFlight(recompute) /\ ~recompute.late

\* An execution of `Sure` that figures counted is taken back only while a
\* recompute is due or the last one did not reconcile, or by a recompute that
\* walked a cache that a failed full walk had cut or that a fetch changed under
\* it, however long a fetch or a walk lasted (setRealizedPnLSampleIfNewerLocked).
\* A refresh may while one is due: a recompute whose clock started before it can
\* read its rows after it has merged.
SampleKeeps ==
  [][sample' # sample /\ sample.by # "orders" =>
       \/ Counted(sample.rows) \cap Sure \subseteq Counted(sample'.rows)
       \/ sample'.by = "orders"
       \/ (need \/ callback = "schedule" \/ Recomputing \/ stuck)'
       \/ sample'.by = "recompute" /\ recompute.behind]_vars

\* The recompute worker never goes to sleep over a fill it has not read
\* (scheduleRealizedRecompute, realizedRecomputeLoop).
RecomputeKeepsUp ==
  /\ unseen /\ callback # "schedule" => need \/ recompute.at = "started"
  /\ need => recompute.at # "off"

\* An execution the feed lists late, behind the newest cached one, is fetched
\* in the end (fillCacheFullRefreshEvery).
DelayedFillsFound == \A k \in Execs : k \in listed ~> k \in cache
=============================================================================
