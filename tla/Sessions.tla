------------------------------ MODULE Sessions ------------------------------
(***************************************************************************)
(* session.Engine: the wall-clock session, the closures that readings of   *)
(* Alpaca's /v2/clock force on it, and the weekly and daily anchors of the *)
(* realized PnL.                                                           *)
(*                                                                         *)
(* Time is New York wall-clock minutes since a Sunday 00:00, and jumps      *)
(* between the moments at which some rule changes its answer: between two  *)
(* of them every operator below is constant.  A clock change of summer     *)
(* time is not modelled.                                                   *)
(***************************************************************************)
EXTENDS Integers, FiniteSetsExt

CONSTANTS Days,       \* bound: days of the run, from the Sunday
          Calendars   \* sets of holidays and of early closes the exchange has

ASSUME SessionsAssumption ==
  /\ Days \in Nat \ {0}
  /\ \A c \in Calendars : c.holidays \subseteq Nat /\ c.earlies \subseteq Nat

VARIABLES
  now,       \* Engine.now
  calendar,  \* the exchange's
  synced,    \* a reading taken in this moment has arrived
  forced,    \* forcedClosedUntil, 0 for the zero time
  told       \* history: when the last reading was taken that arrived before
             \* the regular close of this trading day, 0 for none yet

engineVars == <<now, calendar, synced, forced, told>>

Hour == 60
Day == 24 * Hour
PreOpen == 4 * Hour
RthOpen == 9 * Hour + 30
EarlyClose == 13 * Hour
RthClose == 16 * Hour
NightOpen == 20 * Hour

SessionNames == {"Closed", "Overnight", "PreMarket", "Regular", "AfterHours"}
Extended(s) == s \in {"Overnight", "PreMarket", "AfterHours"}
Tradable(s) == s # "Closed"

Moments == {d * Day + m : d \in 0..(Days - 1),
              m \in {0, PreOpen, RthOpen, EarlyClose, RthClose, NightOpen}}

\* The moment after t, and the one before.
Following == [t \in Moments |->
                Min({u \in Moments : u > t} \cup {Days * Day})]
Preceding == [t \in Moments |-> Max({u \in Moments : u < t} \cup {0})]

\* Sunday is 0.
Weekday(t) == (t \div Day) % 7
Minute(t) == t % Day
Weekend(t) == Weekday(t) \in {0, 6}

\* classifyAt; the per-minute cache of At only remembers its answers.
At(t) ==
  LET m == Minute(t) IN
  CASE Weekday(t) = 6 -> "Closed"
    [] Weekday(t) = 0 -> IF m >= NightOpen THEN "Overnight" ELSE "Closed"
    [] Weekday(t) = 5 /\ m >= NightOpen -> "Closed"
    [] OTHER -> CASE m >= RthOpen /\ m < RthClose -> "Regular"
                  [] m >= PreOpen /\ m < RthOpen -> "PreMarket"
                  [] m >= RthClose /\ m < NightOpen -> "AfterHours"
                  [] OTHER -> "Overnight"

\* Engine.classify: a forced closure wins over the wall clock.
Classify(t) == IF t < forced THEN "Closed" ELSE At(t)
Current == Classify(now)

\* nextExpectedRTHOpen: the next 09:30 of a weekday after t.
NextExpectedRTHOpen(t) ==
  Min({o \in {(t \div Day + d) * Day + RthOpen : d \in 0..3} :
         o > t /\ ~Weekend(o)})

Slack == 2 * Hour

\* A reading closes the session: the regular one now, or one it skips ahead.
Forces(r) ==
  /\ ~r.isOpen /\ Tradable(At(now)) /\ r.nextOpen > now
  /\ \/ At(now) = "Regular"
     \/ r.nextOpen > NextExpectedRTHOpen(now) + Slack

\* Mutant: a reading that forces nothing lifts the closure.
SyncClockLifts(r) == IF Forces(r) THEN r.nextOpen ELSE 0

\* Mutant: the closure ends later than the exchange's.
SyncClockLate(r) ==
  IF r.isOpen THEN 0 ELSE IF Forces(r) THEN r.nextOpen + Slack ELSE forced

\* SyncClock: the new forcedClosedUntil.
SyncClock(r) ==
  IF r.isOpen THEN 0 ELSE IF Forces(r) THEN r.nextOpen ELSE forced

\* The 20:00s of the last days, up to t.
Evenings(t) == {e \in {(t \div Day - d) * Day + NightOpen : d \in 0..7} : e <= t}

\* WeekStart: the last Sunday evening.
WeekStart(t) == Max({e \in Evenings(t) : Weekday(e) = 0})

\* Mutant: the evenings of the weekend halt start a day too.
DayStartAnyEvening(t) == Max(Evenings(t))

\* DayStart: the last evening, those of Friday and Saturday skipped.
DayStart(t) == Max({e \in Evenings(t) : Weekday(e) \notin {5, 6}})
-----------------------------------------------------------------------------
(* The exchange's calendar and its clock endpoint. *)

Holiday(d) == d \in calendar.holidays
Scheduled(d) == ~Weekend(d * Day)

\* The exchange is never closed for five days in a row: a reading always has a
\* next open to name.
ASSUME CalendarAssumption ==
  \A c \in Calendars, d \in -5..Days :
    \E e \in d..(d + 4) : Scheduled(e) /\ e \notin c.holidays

\* The days with a regular session around t.
TradingDays(t) ==
  {d \in (t \div Day - 5)..(t \div Day + 5) : Scheduled(d) /\ ~Holiday(d)}
CloseOf(d) ==
  d * Day + IF d \in calendar.earlies THEN EarlyClose ELSE RthClose

InRth(t) == \E d \in TradingDays(t) : d * Day + RthOpen <= t /\ t < CloseOf(d)
NextOpen(t) == Min({o \in {d * Day + RthOpen : d \in TradingDays(t)} : o > t})
LastClose(t) == Max({c \in {CloseOf(d) : d \in TradingDays(t)} : c <= t})

\* What /v2/clock says at t.
Reading(t) == [isOpen |-> InRth(t), nextOpen |-> NextOpen(t)]

\* A reading of the warm-up or of the sixty-second ticker reaches SyncClock.
\* Its request may have been answered on the other side of the last boundary,
\* but one goroutine reads: never behind a later reading.  A request that
\* fails changes nothing.
ClockSync ==
  \E at \in {now} \cup IF synced THEN {} ELSE {Preceding[now]} :
    /\ forced' = SyncClock(Reading(at))
    /\ told' = IF At(now) \in {"Overnight", "PreMarket", "Regular"}
                 THEN at ELSE told
    /\ synced' = (at = now)
    /\ UNCHANGED <<now, calendar>>

\* Time passes to the next moment.
Tick ==
  /\ Following[now] \in Moments
  /\ now' = Following[now]
  /\ synced' = FALSE
  /\ told' = IF Minute(now') = NightOpen THEN 0 ELSE told
  /\ UNCHANGED <<calendar, forced>>

EngineInit ==
  /\ now = 0 /\ calendar \in Calendars
  /\ synced = FALSE /\ forced = 0 /\ told = 0
-----------------------------------------------------------------------------
EngineTypeOK ==
  /\ now \in Moments /\ calendar \in Calendars
  /\ synced \in BOOLEAN
  /\ forced \in Nat /\ told \in Moments

\* The day whose night, pre-market, regular and after hours t belongs to.
TradingDay(t) == (t + Day - NightOpen) \div Day

\* The engine departs from the wall clock only between a regular close and the
\* next regular open with an early close or a skipped open between them: while
\* the exchange's regular session is open it says Regular, whatever closures it
\* was told of and however late the readings came.
NeverShutOut ==
  Current # At(now) =>
    /\ ~InRth(now)
    /\ \/ \E d \in calendar.earlies : CloseOf(d) = LastClose(now)
       \/ \E d \in calendar.holidays :
            LastClose(now) < d * Day + RthOpen /\ d * Day + RthOpen < NextOpen(now)

\* From the first reading of a holiday, or of the afternoon after an early
\* close, the engine is Closed for the rest of that trading day: no later
\* reading and no boundary lifts the closure.
ClosureHeld ==
  LET d == TradingDay(now) IN
  /\ Holiday(d) /\ told >= (d - 1) * Day + NightOpen => Current = "Closed"
  /\ d \in calendar.earlies /\ told >= CloseOf(d) => Current = "Closed"

\* The realized day and week start where an overnight session really opens:
\* at the last change into Overnight, and the last one out of the weekend.
AnchorsAtOpens ==
  LET opens == {t \in {(now \div Day - d) * Day + NightOpen : d \in 0..8} :
                  t <= now /\ At(t) = "Overnight" /\ At(t - 1) # "Overnight"}
  IN  /\ DayStart(now) = Max(opens)
      /\ WeekStart(now) = Max({t \in opens : At(t - 1) = "Closed"})
=============================================================================
