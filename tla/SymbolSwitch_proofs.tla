------------------------ MODULE SymbolSwitch_proofs ------------------------
(***************************************************************************)
(* Proofs about SymbolSwitch for every set of symbols and every bound.     *)
(* HolderInv, HistoryInv and AnswerInv strengthen the properties that the  *)
(* model-checking runs check into inductive invariants: they say what      *)
(* holds at every point of the critical section, not only when backfillMu  *)
(* is free.                                                                *)
(***************************************************************************)
EXTENDS SymbolSwitch, TLAPS

\* Where the filter and the subscription stand at each point of the critical
\* section.
HolderInv ==
  /\ crit.at = "fetch" => active = crit.symbol /\ wsSymbol = crit.symbol
  /\ crit.at \in {"subscribe", "open"} => active = NoSymbol
  /\ crit.at = "open" => wsSymbol = crit.symbol
  /\ crit.at \in {"restore", "resubscribe"} =>
       active = crit.prev /\ crit.prev # NoSymbol
  /\ crit = Idle /\ active # NoSymbol => wsSymbol = active

\* Whose history the rings may hold at each point of the critical section.
HistoryInv ==
  /\ crit = Idle /\ active # NoSymbol => book \in {NoSymbol, active}
  /\ crit.at = "fetch" => book \in {NoSymbol, crit.symbol}
  /\ crit.at \in {"subscribe", "open", "restore"} /\ crit.prev # NoSymbol =>
       book \in {NoSymbol, crit.prev}
  /\ crit.at = "resubscribe" => book = NoSymbol

\* No two requests share a number, and none is ahead of the terminal's.
RequestsDistinct ==
  /\ \A r, q \in waiting : r.gen = q.gen => r = q
  /\ \A r \in waiting : r.gen # crit.gen /\ r.gen <= switchGen
  /\ crit.gen <= switchGen

\* A request is pending or answered, never both, and once the newest one has
\* settled last its answer is the committed symbol, still on its way or shown.
AnswerInv ==
  /\ \A r \in waiting \cup InFlight, m \in replies : r.gen # m.gen
  /\ \A m \in replies : m.gen <= switchGen
  /\ lastGen <= switchGen
  /\ lastGen = switchGen =>
       /\ \A r \in waiting \cup InFlight : r.gen # switchGen
       /\ \A m \in replies : m.gen = switchGen => m.active = Committed
       /\ (\E m \in replies : m.gen = switchGen) \/ uiSymbol = Committed

-----------------------------------------------------------------------------
\* Every variable keeps its type along every behaviour of the wiring.
THEOREM TypeCorrect == Spec => []TypeOK
<1> USE SymbolSwitchAssumption DEF TypeOK, Tape, Gens, Requests, Replies,
        Jobs, AckJobs, Idle, Advancing, Restoring, Backfilling, NoBook
<1>1. Init => TypeOK
  <2> SUFFICES ASSUME Init PROVE TypeOK
    OBVIOUS
  <2>1. crit \in {Idle} \cup Advancing \cup Restoring \cup Backfilling
    BY DEF Init
  <2>2. book \in Tape
    BY DEF Init
  <2>3. 0 \in 0..MaxSwitches /\ 0 \in 0..MaxDials
    OBVIOUS
  <2>4. QED
    BY <2>1, <2>2, <2>3 DEF Init
<1>2. TypeOK /\ [Next]_vars => TypeOK'
  <2> SUFFICES ASSUME TypeOK, [Next]_vars PROVE TypeOK'
    OBVIOUS
  <2> USE DEF uiVars, mainVars, wsVars
  <2>1. ASSUME NEW s \in Symbols, Request(s) PROVE TypeOK'
    BY <2>1 DEF Request
  <2>2. ASSUME NEW m \in replies, ApplyReply(m) PROVE TypeOK'
    BY <2>2 DEF ApplyReply, ShownAfter
  <2>3. ASSUME NEW r \in waiting, SwitchSame(r) PROVE TypeOK'
    BY <2>3 DEF SwitchSame
  <2>4. ASSUME NEW r \in waiting, SwitchBegin(r) PROVE TypeOK'
    <3>1. r \in Requests /\ active \in Tape
      OBVIOUS
    <3>2. crit' \in Advancing
      BY <2>4, <3>1 DEF SwitchBegin
    <3>3. QED
      BY <2>4, <3>2 DEF SwitchBegin
  <2>5. CASE Subscribed
    <3>1. crit \in Advancing
      BY <2>5 DEF Subscribed
    <3>2. crit' \in Advancing
      BY <2>5, <3>1 DEF Subscribed
    <3>3. wsSymbol' \in Symbols
      BY <2>5, <3>1 DEF Subscribed, SetSymbolSucceeds
    <3>4. QED
      BY <2>5, <3>2, <3>3 DEF Subscribed, SetSymbolSucceeds
  <2>6. CASE SubscribeFailed
    <3>1. crit \in Advancing
      BY <2>6 DEF SubscribeFailed
    <3>2. crit' \in {Idle} \cup Restoring
      BY <2>6, <3>1 DEF SubscribeFailed, Return, HasPrevious
    <3>3. replies' \subseteq Replies /\ lastGen' \in 0..MaxSwitches
      BY <2>6, <3>1 DEF SubscribeFailed, Return
    <3>4. wsSymbol' \in Symbols /\ conn' = "broken"
      BY <2>6, <3>1 DEF SubscribeFailed, SetSymbolFails
    <3>5. active' \in Tape
      BY <2>6, <3>1 DEF SubscribeFailed
    <3>6. QED
      BY <2>6, <3>2, <3>3, <3>4, <3>5 DEF SubscribeFailed
  <2>7. CASE Restored
    <3>1. crit \in Restoring
      BY <2>7 DEF Restored
    <3>2. crit' = Idle /\ lastGen' \in 0..MaxSwitches
      BY <2>7, <3>1 DEF Restored, Return
    <3>3. replies' \subseteq Replies
      BY <2>7, <3>1 DEF Restored, Return
    <3>4. wsSymbol' \in Symbols /\ conn' = conn
      BY <2>7, <3>1 DEF Restored, SetSymbolSucceeds,
             PreviousSubscription
    <3>5. QED
      BY <2>7, <3>2, <3>3, <3>4 DEF Restored
  <2>8. CASE RestoreFailed
    <3>1. crit \in Restoring
      BY <2>8 DEF RestoreFailed
    <3>2. crit' = Idle /\ lastGen' \in 0..MaxSwitches
      BY <2>8, <3>1 DEF RestoreFailed, Return
    <3>3. replies' \subseteq Replies
      BY <2>8, <3>1 DEF RestoreFailed, Return
    <3>4. wsSymbol' \in Symbols /\ conn' = "broken"
      BY <2>8, <3>1 DEF RestoreFailed, SetSymbolFails, PreviousSubscription
    <3>5. QED
      BY <2>8, <3>2, <3>3, <3>4 DEF RestoreFailed
  <2>9. CASE OpenTarget
    BY <2>9 DEF OpenTarget, ResetMarket
  <2>10. CASE SwitchDone
    <3>1. crit \in Advancing
      BY <2>10 DEF SwitchDone
    <3>2. crit' = Idle /\ lastGen' \in 0..MaxSwitches
      BY <2>10, <3>1 DEF SwitchDone, Return
    <3>3. replies' \subseteq Replies
      BY <2>10, <3>1 DEF SwitchDone, Return
    <3>4. book' \in Tape /\ stamped' \subseteq Symbols
      BY <2>10, <3>1 DEF SwitchDone, Backfilled
    <3>5. QED
      BY <2>10, <3>2, <3>3, <3>4 DEF SwitchDone
  <2>11. CASE RollBack
    <3>1. crit \in Advancing
      BY <2>11 DEF RollBack
    <3>2. crit' \in {Idle} \cup Restoring
      BY <2>11, <3>1 DEF RollBack, Return, HasPrevious
    <3>3. replies' \subseteq Replies /\ lastGen' \in 0..MaxSwitches
      BY <2>11, <3>1 DEF RollBack, Return
    <3>4. book' \in Tape /\ active' \in Tape
      BY <2>11, <3>1 DEF RollBack, ResetMarket
    <3>5. QED
      BY <2>11, <3>2, <3>3, <3>4 DEF RollBack
  <2>12. CASE Resubscribed
    <3>1. crit \in Restoring
      BY <2>12 DEF Resubscribed
    <3>2. crit' = Idle /\ lastGen' \in 0..MaxSwitches
      BY <2>12, <3>1 DEF Resubscribed, Return
    <3>3. replies' \subseteq Replies
      BY <2>12, <3>1 DEF Resubscribed, Return
    <3>4. wsSymbol' \in Symbols /\ conn' = conn
      BY <2>12, <3>1 DEF Resubscribed, SetSymbolSucceeds,
             PreviousSubscription
    <3>5. backfillGen' \in Nat /\ jobs' \subseteq Jobs
      <4>1. crit.prev \in Symbols
        BY <3>1
      <4>2. Schedule(crit.prev, TRUE)
        BY <2>12 DEF Resubscribed
      <4>3. ASSUME NEW f \in BOOLEAN, Schedule(crit.prev, f)
            PROVE  backfillGen' \in Nat /\ jobs' \subseteq Jobs
        BY <4>1, <4>3 DEF Schedule
      <4>4. QED
        BY <4>2, <4>3
    <3>6. QED
      BY <2>12, <3>2, <3>3, <3>4, <3>5 DEF Resubscribed
  <2>13. CASE JobDone
    <3>1. crit \in Backfilling
      BY <2>13 DEF JobDone
    <3>2. book' \in Tape /\ stamped' \subseteq Symbols
      BY <2>13, <3>1 DEF JobDone, Backfilled
    <3>3. QED
      BY <2>13, <3>2 DEF JobDone
  <2>14. CASE JobFailed
    BY <2>14 DEF JobFailed
  <2>15. ASSUME NEW j \in jobs, JobDropped(j) PROVE TypeOK'
    BY <2>15 DEF JobDropped
  <2>16. ASSUME NEW j \in jobs, JobBegin(j) PROVE TypeOK'
    BY <2>16 DEF JobBegin
  <2>17. ASSUME NEW s \in Symbols, DebounceExpires(s) PROVE TypeOK'
    BY <2>17 DEF DebounceExpires
  <2>18. CASE Dial
    <3>1. dials' \in 0..MaxDials
      BY <2>18 DEF Dial
    <3>2. QED
      BY <2>18, <3>1 DEF Dial
  <2>19. CASE Authenticated
    BY <2>19 DEF Authenticated
  <2>20. CASE AckRead
    BY <2>20 DEF AckRead
  <2>21. CASE AckSchedule
    BY <2>21 DEF AckSchedule, Schedule
  <2>22. CASE Drop
    BY <2>22 DEF Drop
  <2>23. CASE UNCHANGED vars
    BY <2>23 DEF vars
  <2>24. QED
    BY <2>1, <2>2, <2>3, <2>4, <2>5, <2>6, <2>7, <2>8, <2>9, <2>10, <2>11,
       <2>12, <2>13, <2>14, <2>15, <2>16, <2>17, <2>18, <2>19, <2>20, <2>21,
       <2>22, <2>23 DEF Next, Grant, HolderStep
<1>3. QED
  BY <1>1, <1>2, PTL DEF Spec

-----------------------------------------------------------------------------
\* Every step of the critical section leaves filter and subscription where
\* its next point needs them; no other goroutine moves either.
LEMMA HolderInvStep == TypeOK /\ HolderInv /\ [Next]_vars => HolderInv'
<1> SUFFICES ASSUME TypeOK, HolderInv, [Next]_vars PROVE HolderInv'
  OBVIOUS
<1> USE SymbolSwitchAssumption DEF HolderInv
<1> DEFINE Kept == UNCHANGED <<crit, active, wsSymbol>>
<1>0. Kept => HolderInv'
  BY DEF Idle
<1> HIDE DEF Kept
<1>1. ASSUME NEW s \in Symbols, Request(s) PROVE Kept
  BY <1>1 DEF Request, mainVars, wsVars, Kept
<1>2. ASSUME NEW m \in replies, ApplyReply(m) PROVE Kept
  BY <1>2 DEF ApplyReply, mainVars, wsVars, Kept
<1>3. ASSUME NEW r \in waiting, SwitchSame(r) PROVE Kept
  BY <1>3 DEF SwitchSame, wsVars, Kept
<1>4. ASSUME NEW r \in waiting, SwitchBegin(r) PROVE HolderInv'
  BY <1>4 DEF SwitchBegin, wsVars, Idle
<1>5. CASE Subscribed
  <2>1. crit.at = "subscribe" /\ crit' = [crit EXCEPT !.at = "open"]
        /\ active' = active /\ wsSymbol' = crit.symbol
    BY <1>5 DEF Subscribed, SetSymbolSucceeds
  <2>2. crit \in Advancing
    BY <2>1 DEF TypeOK, Idle, Restoring, Backfilling
  <2>3. crit'.at = "open" /\ crit'.symbol = crit.symbol /\ crit' # Idle
    BY <2>1, <2>2 DEF Advancing, Idle
  <2>4. QED
    BY <2>1, <2>3
<1>6. CASE SubscribeFailed
  <2>1. crit \in Advancing /\ active' = crit.prev
    BY <1>6 DEF SubscribeFailed, TypeOK, Idle, Restoring, Backfilling
  <2>2. CASE HasPrevious
    <3>1. crit' = [crit EXCEPT !.at = "restore"]
      BY <1>6, <2>2 DEF SubscribeFailed
    <3>2. crit'.at = "restore" /\ crit'.prev = crit.prev /\ crit' # Idle
      BY <2>1, <3>1 DEF Advancing, Idle
    <3>3. QED
      BY <2>1, <2>2, <3>2 DEF HasPrevious
  <2>3. CASE ~HasPrevious
    <3>1. crit' = Idle
      BY <1>6, <2>3 DEF SubscribeFailed, Return
    <3>2. QED
      BY <2>1, <2>3, <3>1 DEF HasPrevious, Idle
  <2>4. QED
    BY <2>2, <2>3
<1>7. CASE Restored
  BY <1>7 DEF Restored, Return, SetSymbolSucceeds, PreviousSubscription, Idle
<1>8. CASE RestoreFailed
  BY <1>8 DEF RestoreFailed, Return, Idle
<1>9. CASE OpenTarget
  <2>1. crit \in Advancing
    BY <1>9 DEF OpenTarget, TypeOK, Idle, Restoring, Backfilling
  <2>2. crit'.at = "fetch" /\ crit'.symbol = crit.symbol /\ crit' # Idle
    BY <1>9, <2>1 DEF OpenTarget, Advancing, Idle
  <2>3. QED
    BY <1>9, <2>2 DEF OpenTarget, wsVars
<1>10. CASE SwitchDone
  BY <1>10 DEF SwitchDone, Return, Idle, wsVars
<1>11. CASE RollBack
  <2>1. crit \in Advancing /\ active' = crit.prev
    BY <1>11 DEF RollBack, TypeOK, Idle, Restoring, Backfilling
  <2>2. CASE HasPrevious
    <3>1. crit' = [crit EXCEPT !.at = "resubscribe"]
      BY <1>11, <2>2 DEF RollBack
    <3>2. crit'.at = "resubscribe" /\ crit'.prev = crit.prev /\ crit' # Idle
      BY <2>1, <3>1 DEF Advancing, Idle
    <3>3. QED
      BY <2>1, <2>2, <3>2 DEF HasPrevious
  <2>3. CASE ~HasPrevious
    <3>1. crit' = Idle
      BY <1>11, <2>3 DEF RollBack, Return
    <3>2. QED
      BY <2>1, <2>3, <3>1 DEF HasPrevious, Idle
  <2>4. QED
    BY <2>2, <2>3
<1>12. CASE Resubscribed
  BY <1>12 DEF Resubscribed, Return, SetSymbolSucceeds, PreviousSubscription,
               Idle
<1>13. CASE JobDone
  <2>1. crit \in Backfilling
    BY <1>13 DEF JobDone, TypeOK, Idle, Advancing, Restoring
  <2>2. QED
    BY <1>13, <2>1 DEF JobDone, Idle, Backfilling, wsVars
<1>14. CASE JobFailed
  <2>1. crit \in Backfilling
    BY <1>14 DEF JobFailed, TypeOK, Idle, Advancing, Restoring
  <2>2. QED
    BY <1>14, <2>1 DEF JobFailed, Idle, Backfilling, wsVars
<1>15. ASSUME NEW j \in jobs, JobDropped(j) PROVE Kept
  BY <1>15 DEF JobDropped, wsVars, Kept
<1>16. ASSUME NEW j \in jobs, JobBegin(j) PROVE HolderInv'
  <2>1. j.symbol \in Symbols
    BY DEF TypeOK, Jobs
  <2>2. QED
    BY <1>16, <2>1 DEF JobBegin, Wanted, Idle, wsVars
<1>17. ASSUME NEW s \in Symbols, DebounceExpires(s) PROVE Kept
  BY <1>17 DEF DebounceExpires, wsVars, Kept
<1>18. CASE Dial \/ Authenticated \/ AckRead \/ AckSchedule \/ Drop
  <2>1. Kept
    BY <1>18 DEF Dial, Authenticated, AckRead, AckSchedule, Drop, mainVars,
                 Kept
  <2>2. QED
    BY <1>0, <2>1
<1>19. CASE UNCHANGED vars
  <2>1. Kept
    BY <1>19 DEF vars, mainVars, wsVars, Kept
  <2>2. QED
    BY <1>0, <2>1
<1>20. QED
  BY <1>0, <1>1, <1>2, <1>3, <1>4, <1>5, <1>6, <1>7, <1>8, <1>9, <1>10,
     <1>11, <1>12, <1>13, <1>14, <1>15, <1>16, <1>17, <1>18, <1>19
     DEF Next, Grant, HolderStep

\* HolderInv holds at every point of every behaviour.
LEMMA HolderInvariant == Spec => []HolderInv
<1>1. Init => HolderInv
  BY DEF Init, HolderInv, Idle
<1>2. QED
  BY <1>1, TypeCorrect, HolderInvStep, PTL DEF Spec

\* A backfill never runs for a symbol other than the one the ingest filter
\* lets through (runBackfill and switchSymbol under backfillMu).
THEOREM LoadsMatchTapeCorrect == Spec => []LoadsMatchTape
<1>1. HolderInv => LoadsMatchTape
  BY DEF HolderInv, LoadsMatchTape
<1>2. QED
  BY <1>1, HolderInvariant, PTL

\* Whenever backfillMu is free and a symbol is active, that symbol is the
\* one MarketWS subscribes now and after every reconnect.
THEOREM TapeSubscribedCorrect == Spec => []TapeSubscribed
<1>1. HolderInv => TapeSubscribed
  BY DEF HolderInv, TapeSubscribed
<1>2. QED
  BY <1>1, HolderInvariant, PTL
-----------------------------------------------------------------------------
\* No step mixes histories: a Load runs only over a book that is empty or
\* already of its symbol, and a new symbol's tape opens on an empty book.
LEMMA HistoryInvStep ==
  TypeOK /\ HolderInv /\ HistoryInv /\ [Next]_vars => HistoryInv'
<1> SUFFICES ASSUME TypeOK, HolderInv, HistoryInv, [Next]_vars
             PROVE  HistoryInv'
  OBVIOUS
<1> USE SymbolSwitchAssumption DEF HistoryInv
<1> DEFINE Kept == UNCHANGED <<crit, active, book>>
<1>0. Kept => HistoryInv'
  BY DEF Idle
<1> HIDE DEF Kept
<1>a. \/ crit.at \in {"subscribe", "open"}
      \/ crit.who = "switch" /\ crit.at = "fetch"
      => crit \in Advancing
  BY DEF TypeOK, Idle, Restoring, Backfilling
<1>b. crit.who = "backfill" => crit \in Backfilling
  BY DEF TypeOK, Idle, Advancing, Restoring
<1>1. ASSUME NEW s \in Symbols, Request(s) PROVE Kept
  BY <1>1 DEF Request, mainVars, Kept
<1>2. ASSUME NEW m \in replies, ApplyReply(m) PROVE Kept
  BY <1>2 DEF ApplyReply, mainVars, Kept
<1>3. ASSUME NEW r \in waiting, SwitchSame(r) PROVE Kept
  BY <1>3 DEF SwitchSame, Kept
<1>4. ASSUME NEW r \in waiting, SwitchBegin(r) PROVE HistoryInv'
  BY <1>4 DEF SwitchBegin, Idle
<1>5. CASE Subscribed
  <2>1. crit.at = "subscribe" /\ crit' = [crit EXCEPT !.at = "open"]
        /\ active' = active /\ book' = book
    BY <1>5 DEF Subscribed
  <2>2. crit'.at = "open" /\ crit'.prev = crit.prev /\ crit' # Idle
    BY <1>a, <2>1 DEF Advancing, Idle
  <2>3. QED
    BY <2>1, <2>2
<1>6. CASE SubscribeFailed
  <2>1. crit \in Advancing /\ crit.at = "subscribe" /\ active' = crit.prev
        /\ book' = book
    BY <1>6, <1>a DEF SubscribeFailed
  <2>2. CASE HasPrevious
    <3>1. crit' = [crit EXCEPT !.at = "restore"]
      BY <1>6, <2>2 DEF SubscribeFailed
    <3>2. crit'.at = "restore" /\ crit'.prev = crit.prev /\ crit' # Idle
      BY <2>1, <3>1 DEF Advancing, Idle
    <3>3. QED
      BY <2>1, <3>2
  <2>3. CASE ~HasPrevious
    <3>1. crit' = Idle
      BY <1>6, <2>3 DEF SubscribeFailed, Return
    <3>2. QED
      BY <2>1, <2>3, <3>1 DEF HasPrevious, Idle
  <2>4. QED
    BY <2>2, <2>3
<1>7. CASE Restored
  <2>1. active = crit.prev /\ crit.prev # NoSymbol
    BY <1>7 DEF Restored, HolderInv
  <2>2. QED
    BY <1>7, <2>1 DEF Restored, Return, Idle
<1>8. CASE RestoreFailed
  BY <1>8 DEF RestoreFailed, Return, Idle
<1>9. CASE OpenTarget
  <2>1. crit \in Advancing
    BY <1>9, <1>a DEF OpenTarget
  <2>2. crit'.at = "fetch" /\ crit'.symbol = crit.symbol /\ crit' # Idle
    BY <1>9, <2>1 DEF OpenTarget, Advancing, Idle
  <2>3. book' = NoSymbol
    BY <1>9 DEF OpenTarget, ResetMarket, NoBook
  <2>4. QED
    BY <2>2, <2>3
<1>10. CASE SwitchDone
  <2>1. active = crit.symbol /\ book \in {NoSymbol, crit.symbol}
    BY <1>10 DEF SwitchDone, HolderInv
  <2>2. book' \in {NoSymbol, crit.symbol}
    BY <1>10, <2>1 DEF SwitchDone, Backfilled, TypeOK
  <2>3. QED
    BY <1>10, <2>1, <2>2 DEF SwitchDone, Return, Idle
<1>11. CASE RollBack
  <2>1. crit \in Advancing /\ book' = NoSymbol /\ crit.at = "fetch"
    BY <1>11, <1>a DEF RollBack, ResetMarket, NoBook
  <2>2. CASE HasPrevious
    <3>1. crit' = [crit EXCEPT !.at = "resubscribe"]
      BY <1>11, <2>2 DEF RollBack
    <3>2. crit'.at = "resubscribe" /\ crit' # Idle
      BY <2>1, <3>1 DEF Advancing, Idle
    <3>3. QED
      BY <2>1, <3>2
  <2>3. CASE ~HasPrevious
    <3>1. crit' = Idle
      BY <1>11, <2>3 DEF RollBack, Return
    <3>2. QED
      BY <2>1, <3>1 DEF Idle
  <2>4. QED
    BY <2>2, <2>3
<1>12. CASE Resubscribed
  BY <1>12 DEF Resubscribed, Return, Idle
<1>13. CASE JobDone
  <2>1. crit \in Backfilling
    BY <1>13, <1>b DEF JobDone
  <2>2. active = crit.symbol /\ book \in {NoSymbol, crit.symbol}
    BY <2>1 DEF Backfilling, HolderInv
  <2>3. book' \in {NoSymbol, crit.symbol}
    BY <1>13, <2>2 DEF JobDone, Backfilled, TypeOK
  <2>4. QED
    BY <1>13, <2>2, <2>3 DEF JobDone, Idle
<1>14. CASE JobFailed
  <2>1. crit \in Backfilling
    BY <1>14, <1>b DEF JobFailed
  <2>2. active = crit.symbol /\ book \in {NoSymbol, crit.symbol}
    BY <2>1 DEF Backfilling, HolderInv
  <2>3. book' = book
    BY <1>14 DEF JobFailed, TypeOK
  <2>4. QED
    BY <1>14, <2>2, <2>3 DEF JobFailed, Idle
<1>15. ASSUME NEW j \in jobs, JobDropped(j) PROVE Kept
  BY <1>15 DEF JobDropped, Kept
<1>16. ASSUME NEW j \in jobs, JobBegin(j) PROVE HistoryInv'
  <2>1. j.symbol \in Symbols
    BY DEF TypeOK, Jobs
  <2>2. QED
    BY <1>16, <2>1 DEF JobBegin, Wanted, Idle
<1>17. ASSUME NEW s \in Symbols, DebounceExpires(s) PROVE Kept
  BY <1>17 DEF DebounceExpires, Kept
<1>18. CASE Dial \/ Authenticated \/ AckRead \/ AckSchedule \/ Drop
  <2>1. Kept
    BY <1>18 DEF Dial, Authenticated, AckRead, AckSchedule, Drop, mainVars,
                 Kept
  <2>2. QED
    BY <1>0, <2>1
<1>19. CASE UNCHANGED vars
  <2>1. Kept
    BY <1>19 DEF vars, mainVars, Kept
  <2>2. QED
    BY <1>0, <2>1
<1>20. QED
  BY <1>0, <1>1, <1>2, <1>3, <1>4, <1>5, <1>6, <1>7, <1>8, <1>9, <1>10,
     <1>11, <1>12, <1>13, <1>14, <1>15, <1>16, <1>17, <1>18, <1>19
     DEF Next, Grant, HolderStep

\* The rings hold REST history of the active symbol or none, after any mix of
\* switches, rollbacks, reconnects and failed backfills.
THEOREM HistoryMatchesTapeCorrect == Spec => []HistoryMatchesTape
<1>1. Init => HistoryInv
  BY DEF Init, HistoryInv, Idle, NoBook
<1>2. HistoryInv => HistoryMatchesTape
  BY DEF HistoryInv, HistoryMatchesTape
<1>3. QED
  BY <1>1, <1>2, TypeCorrect, HolderInvariant, HistoryInvStep, PTL DEF Spec
-----------------------------------------------------------------------------
\* A request is waiting or holds backfillMu, never both: Request numbers it
\* afresh and SwitchBegin takes it out of waiting.
LEMMA RequestsDistinctStep ==
  TypeOK /\ RequestsDistinct /\ [Next]_vars => RequestsDistinct'
<1> SUFFICES ASSUME TypeOK, RequestsDistinct, [Next]_vars
             PROVE  RequestsDistinct'
  OBVIOUS
<1> USE SymbolSwitchAssumption DEF RequestsDistinct
<1>t. /\ switchGen \in Nat
      /\ \A r \in waiting : r.gen \in Nat /\ r.gen > 0
      /\ crit.gen \in Nat
  BY DEF TypeOK, Requests, Gens, Idle, Advancing, Restoring, Backfilling
<1>k. UNCHANGED <<waiting, switchGen>> /\ crit'.gen \in {0, crit.gen}
      => RequestsDistinct'
  BY <1>t
<1>1. ASSUME NEW s \in Symbols, Request(s) PROVE RequestsDistinct'
  <2>1. waiting' = waiting \cup {[gen |-> switchGen + 1, symbol |-> s]}
        /\ switchGen' = switchGen + 1 /\ crit' = crit
    BY <1>1 DEF Request, mainVars
  <2>2. QED
    BY <1>t, <2>1
<1>2. ASSUME NEW m \in replies, ApplyReply(m) PROVE RequestsDistinct'
  BY <1>2, <1>k, <1>t DEF ApplyReply, mainVars
<1>3. ASSUME NEW r \in waiting, SwitchSame(r) PROVE RequestsDistinct'
  BY <1>3, <1>t DEF SwitchSame
<1>4. ASSUME NEW r \in waiting, SwitchBegin(r) PROVE RequestsDistinct'
  BY <1>4, <1>t DEF SwitchBegin
<1>5. CASE HolderStep
  <2>1. UNCHANGED <<waiting, switchGen>>
    BY <1>5 DEF HolderStep, Subscribed, SubscribeFailed, Restored,
       RestoreFailed, OpenTarget, SwitchDone, RollBack, Resubscribed,
       JobDone, JobFailed, uiVars
  <2>2. crit' \in {Idle, [crit EXCEPT !.at = "open"],
                   [crit EXCEPT !.at = "restore"],
                   [crit EXCEPT !.at = "fetch"],
                   [crit EXCEPT !.at = "resubscribe"]}
    BY <1>5 DEF HolderStep, Subscribed, SubscribeFailed, Restored,
       RestoreFailed, OpenTarget, SwitchDone, RollBack, Resubscribed,
       JobDone, JobFailed, Return
  <2>3. crit'.gen \in {0, crit.gen}
    BY <2>2 DEF TypeOK, Idle, Advancing, Restoring, Backfilling
  <2>4. QED
    BY <1>k, <2>1, <2>3
<1>6. ASSUME NEW j \in jobs, JobDropped(j) \/ JobBegin(j)
      PROVE  RequestsDistinct'
  BY <1>6, <1>k, <1>t DEF JobDropped, JobBegin, uiVars
<1>7. ASSUME NEW s \in Symbols, DebounceExpires(s) PROVE RequestsDistinct'
  BY <1>7, <1>k, <1>t DEF DebounceExpires, uiVars
<1>8. CASE Dial \/ Authenticated \/ AckRead \/ AckSchedule \/ Drop
  BY <1>8, <1>k, <1>t DEF Dial, Authenticated, AckRead, AckSchedule, Drop,
     mainVars, uiVars
<1>9. CASE UNCHANGED vars
  BY <1>9, <1>k, <1>t DEF vars, mainVars, uiVars
<1>10. QED
  BY <1>1, <1>2, <1>3, <1>4, <1>5, <1>6, <1>7, <1>8, <1>9 DEF Next, Grant

\* The abstract effect of a holder that releases backfillMu with `outcome`.
LEMMA ReturnSettles ==
  ASSUME TypeOK, RequestsDistinct, crit.who = "switch",
         NEW outcome \in {crit.symbol, crit.prev, NoSymbol},
         Return(outcome), active' = outcome,
         UNCHANGED <<uiSymbol, switchGen, waiting>>
  PROVE  Atomic!Next
<1> DEFINE r == [gen |-> crit.gen, symbol |-> crit.symbol]
<1>1. r \in waiting \cup InFlight /\ r \notin waiting
  BY DEF InFlight, RequestsDistinct
<1>2. crit' = Idle /\ InFlight' = {} /\ Committed' = outcome
  BY DEF Return, InFlight, Committed, Idle
<1>3. (waiting \cup InFlight)' = (waiting \cup InFlight) \ {r}
  BY <1>1, <1>2 DEF InFlight
<1>4. outcome \in {r.symbol, Committed, NoSymbol}
  BY DEF Committed
<1>5. outcome \in Atomic!Tape
  BY DEF Atomic!Tape, TypeOK, Idle, Advancing, Restoring, Backfilling, Tape
<1>6. Atomic!Settle(r, outcome)
  BY <1>1, <1>2, <1>3, <1>4 DEF Atomic!Settle, Return
<1>7. QED
  BY <1>1, <1>5, <1>6 DEF Atomic!Next

\* Every step of the wiring is a step of the atomic switch or changes nothing
\* a user could tell: all of a switch takes effect at its unlock.
LEMMA StepSimulation ==
  TypeOK /\ HolderInv /\ RequestsDistinct /\ [Next]_vars
    => [Atomic!Next]_(Atomic!vars)
<1> SUFFICES ASSUME TypeOK, HolderInv, RequestsDistinct, [Next]_vars
             PROVE  Atomic!Next \/ UNCHANGED Atomic!vars
  OBVIOUS
<1>a. \/ crit.at \in {"subscribe", "open"}
      \/ crit.who = "switch" /\ crit.at = "fetch"
      => crit \in Advancing
  BY DEF TypeOK, Idle, Restoring, Backfilling
<1>r. crit.at \in {"restore", "resubscribe"} => crit \in Restoring
  BY DEF TypeOK, Idle, Advancing, Backfilling
<1>k. ASSUME UNCHANGED <<uiVars, lastGen>>, InFlight' = InFlight,
             Committed' = Committed
      PROVE  UNCHANGED Atomic!vars
  BY <1>k DEF Atomic!vars, uiVars
<1>m. ASSUME crit \in Advancing, UNCHANGED <<uiVars, lastGen>>,
             crit' \in {[crit EXCEPT !.at = "open"],
                       [crit EXCEPT !.at = "restore"],
                       [crit EXCEPT !.at = "fetch"],
                       [crit EXCEPT !.at = "resubscribe"]}
      PROVE  UNCHANGED Atomic!vars
  <2>1. /\ crit.who = "switch" /\ crit'.who = "switch"
        /\ crit'.gen = crit.gen /\ crit'.symbol = crit.symbol
        /\ crit'.prev = crit.prev
    BY <1>m DEF Advancing
  <2>2. InFlight' = InFlight /\ Committed' = Committed
    BY <2>1 DEF InFlight, Committed
  <2>3. QED
    BY <1>k, <1>m, <2>2
<1>1. ASSUME NEW s \in Symbols, Request(s) PROVE Atomic!Next
  <2>1. InFlight' = InFlight /\ Committed' = Committed
    BY <1>1 DEF Request, mainVars, InFlight, Committed
  <2>2. Atomic!Request(s)
    BY <1>1, <2>1 DEF Request, Atomic!Request, mainVars
  <2>3. QED
    BY <2>2 DEF Atomic!Next
<1>2. ASSUME NEW m \in replies, ApplyReply(m) PROVE Atomic!Next
  <2>1. InFlight' = InFlight /\ Committed' = Committed
    BY <1>2 DEF ApplyReply, mainVars, InFlight, Committed
  <2>2. Atomic!Deliver(m)
    BY <1>2, <2>1 DEF ApplyReply, ShownAfter, Atomic!Deliver, mainVars
  <2>3. QED
    BY <2>2 DEF Atomic!Next
<1>3. ASSUME NEW r \in waiting, SwitchSame(r) PROVE Atomic!Next
  <2>1. InFlight = {} /\ InFlight' = {} /\ Committed = active
        /\ Committed' = active
    BY <1>3 DEF SwitchSame, InFlight, Committed, Idle
  <2>2. Atomic!Settle(r, active) /\ active \in Atomic!Tape
    BY <1>3, <2>1 DEF SwitchSame, Atomic!Settle, Atomic!Tape, TypeOK, Tape
  <2>3. QED
    BY <2>1, <2>2 DEF Atomic!Next
<1>4. ASSUME NEW r \in waiting, SwitchBegin(r) PROVE UNCHANGED Atomic!vars
  <2>1. r = [gen |-> r.gen, symbol |-> r.symbol]
    BY DEF TypeOK, Requests
  <2>2. InFlight = {} /\ InFlight' = {r}
    BY <1>4, <2>1 DEF SwitchBegin, InFlight, Idle
  <2>3. Committed' = Committed
    BY <1>4 DEF SwitchBegin, Committed, Idle
  <2>4. QED
    BY <1>4, <2>2, <2>3 DEF SwitchBegin, Atomic!vars
<1>5. CASE Subscribed
  BY <1>5, <1>a, <1>m DEF Subscribed
<1>6. CASE SubscribeFailed
  <2>1. crit \in Advancing
    BY <1>6, <1>a DEF SubscribeFailed
  <2>2. CASE HasPrevious
    BY <1>6, <1>m, <2>1, <2>2 DEF SubscribeFailed, uiVars
  <2>3. CASE ~HasPrevious
    BY <1>6, <2>1, <2>3, ReturnSettles DEF SubscribeFailed, Advancing
  <2>4. QED
    BY <2>2, <2>3
<1>7. CASE Restored \/ Resubscribed
  <2>1. crit \in Restoring
    BY <1>7, <1>r DEF Restored, Resubscribed
  <2>2. active' = crit.prev
    BY <1>7 DEF Restored, Resubscribed, HolderInv
  <2>3. QED
    BY <1>7, <2>1, <2>2, ReturnSettles DEF Restored, Resubscribed, Restoring
<1>8. CASE RestoreFailed
  <2>1. crit \in Restoring
    BY <1>8, <1>r DEF RestoreFailed
  <2>2. QED
    BY <1>8, <2>1, ReturnSettles DEF RestoreFailed, Restoring
<1>9. CASE OpenTarget
  BY <1>9, <1>a, <1>m DEF OpenTarget
<1>10. CASE SwitchDone
  <2>1. active' = crit.symbol
    BY <1>10 DEF SwitchDone, HolderInv
  <2>2. QED
    BY <1>10, <2>1, ReturnSettles DEF SwitchDone
<1>11. CASE RollBack
  <2>1. crit \in Advancing
    BY <1>11, <1>a DEF RollBack
  <2>2. CASE HasPrevious
    BY <1>11, <1>m, <2>1, <2>2 DEF RollBack, uiVars
  <2>3. CASE ~HasPrevious
    BY <1>11, <2>1, <2>3, ReturnSettles DEF RollBack
  <2>4. QED
    BY <2>2, <2>3
<1>12. CASE JobDone \/ JobFailed
  <2>1. InFlight' = InFlight /\ Committed' = Committed
    BY <1>12 DEF JobDone, JobFailed, InFlight, Committed, Idle
  <2>2. QED
    BY <1>12, <1>k, <2>1 DEF JobDone, JobFailed
<1>13. ASSUME NEW j \in jobs, JobDropped(j) \/ JobBegin(j)
       PROVE  UNCHANGED Atomic!vars
  <2>1. InFlight' = InFlight /\ Committed' = Committed
    BY <1>13 DEF JobDropped, JobBegin, InFlight, Committed, Idle
  <2>2. QED
    BY <1>13, <1>k, <2>1 DEF JobDropped, JobBegin
<1>14. ASSUME NEW s \in Symbols, DebounceExpires(s)
       PROVE  UNCHANGED Atomic!vars
  <2>1. InFlight' = InFlight /\ Committed' = Committed
    BY <1>14 DEF DebounceExpires, InFlight, Committed
  <2>2. QED
    BY <1>14, <1>k, <2>1 DEF DebounceExpires
<1>15. CASE Dial \/ Authenticated \/ AckRead \/ AckSchedule \/ Drop
  <2>1. InFlight' = InFlight /\ Committed' = Committed
    BY <1>15 DEF Dial, Authenticated, AckRead, AckSchedule, Drop, mainVars,
       InFlight, Committed
  <2>2. QED
    BY <1>15, <1>k, <2>1 DEF Dial, Authenticated, AckRead, AckSchedule, Drop,
       mainVars
<1>16. CASE UNCHANGED vars
  BY <1>16, <1>k DEF vars, mainVars, InFlight, Committed
<1>17. QED
  BY <1>1, <1>2, <1>3, <1>4, <1>5, <1>6, <1>7, <1>8, <1>9, <1>10, <1>11,
     <1>12, <1>13, <1>14, <1>15, <1>16 DEF Next, Grant, HolderStep

\* No two requests in flight share a number, along every behaviour.
LEMMA RequestsDistinctInvariant == Spec => []RequestsDistinct
<1>1. Init => RequestsDistinct
  BY DEF Init, RequestsDistinct, Idle
<1>2. QED
  BY <1>1, TypeCorrect, RequestsDistinctStep, PTL DEF Spec

\* switchSymbol, its rollbacks and every interleaving with reconnects and
\* backfills implement the atomic switch.
THEOREM ImplementsAtomic == Spec => AtomicSpec
<1>1. Init => Atomic!Init
  BY DEF Init, Atomic!Init, InFlight, Committed, Idle
<1>2. QED
  BY <1>1, StepSimulation, TypeCorrect, HolderInvariant,
     RequestsDistinctInvariant, PTL DEF Spec, AtomicSpec, Atomic!Spec
-----------------------------------------------------------------------------
\* AnswerInv speaks of the abstract state only, so the atomic switch is enough
\* to keep it: no detail of switchSymbol enters this argument.
LEMMA AnswerInvStep ==
  TypeOK /\ RequestsDistinct /\ AnswerInv /\ [Atomic!Next]_(Atomic!vars)
    => AnswerInv'
<1> SUFFICES ASSUME TypeOK, RequestsDistinct, AnswerInv,
                    [Atomic!Next]_(Atomic!vars)
             PROVE  AnswerInv'
  OBVIOUS
<1> DEFINE Pending == waiting \cup InFlight
<1>t. /\ switchGen \in Nat /\ lastGen \in Nat
      /\ \A r \in Pending : r.gen \in Nat /\ r.gen <= switchGen
      /\ \A m \in replies : m.gen \in Nat
  <2>1. switchGen \in Nat /\ lastGen \in Nat /\ crit.gen \in Nat
    BY SymbolSwitchAssumption DEF TypeOK, Idle, Advancing, Restoring,
       Backfilling, Gens
  <2>2. \A r \in waiting : r.gen \in Nat
    BY SymbolSwitchAssumption DEF TypeOK, Requests, Gens
  <2>3. \A m \in replies : m.gen \in Nat
    BY SymbolSwitchAssumption DEF TypeOK, Replies, Gens
  <2>4. QED
    BY <2>1, <2>2, <2>3 DEF InFlight, RequestsDistinct
<1>d. \A r, q \in Pending : r.gen = q.gen => r = q
  BY DEF InFlight, RequestsDistinct
<1> USE DEF AnswerInv
<1>1. ASSUME NEW s \in Symbols, Atomic!Request(s) PROVE AnswerInv'
  <2>1. /\ Pending' = Pending \cup {[gen |-> switchGen + 1, symbol |-> s]}
        /\ switchGen' = switchGen + 1
        /\ UNCHANGED <<replies, lastGen>>
    BY <1>1 DEF Atomic!Request
  <2>2. lastGen' # switchGen' /\ lastGen' <= switchGen'
    BY <1>t, <2>1
  <2>3. \A m \in replies' : m.gen <= switchGen'
    BY <1>t, <2>1
  <2>4. \A r \in Pending', m \in replies' : r.gen # m.gen
    BY <1>t, <2>1
  <2>5. QED
    BY <2>2, <2>3, <2>4
<1>2. ASSUME NEW r \in Pending, NEW outcome, Atomic!Settle(r, outcome)
      PROVE  AnswerInv'
  <2>1. /\ Pending' = Pending \ {r}
        /\ Committed' = outcome
        /\ replies' = replies \cup {[gen |-> r.gen, active |-> outcome]}
        /\ lastGen' = r.gen
        /\ UNCHANGED <<uiSymbol, switchGen>>
    BY <1>2 DEF Atomic!Settle
  <2>2. \A q \in Pending', m \in replies' : q.gen # m.gen
    BY <1>d, <2>1
  <2>3. (\A m \in replies' : m.gen <= switchGen') /\ lastGen' <= switchGen'
    BY <1>t, <2>1
  <2>4. r.gen = switchGen => \A q \in replies : q.gen # switchGen
    BY <2>1
  <2>5. [gen |-> r.gen, active |-> outcome] \in replies'
    BY <2>1
  <2>6. ASSUME lastGen' = switchGen'
        PROVE  \E q \in replies' : q.gen = switchGen'
    BY <2>1, <2>5, <2>6
  <2>7. ASSUME lastGen' = switchGen'
        PROVE  \A q \in replies' :
                 q.gen = switchGen' => q.active = Committed'
    BY <2>1, <2>4, <2>7
  <2>8. ASSUME lastGen' = switchGen'
        PROVE  \A q \in Pending' : q.gen # switchGen'
    BY <1>d, <2>1, <2>8
  <2>9. QED
    BY <2>2, <2>3, <2>6, <2>7, <2>8
<1>3. ASSUME NEW m \in replies, Atomic!Deliver(m) PROVE AnswerInv'
  <2>1. /\ replies' = replies \ {m}
        /\ uiSymbol' = IF m.gen = switchGen THEN m.active ELSE uiSymbol
        /\ Pending' = Pending /\ Committed' = Committed
        /\ UNCHANGED <<switchGen, lastGen>>
    BY <1>3 DEF Atomic!Deliver
  <2>2. ASSUME lastGen' = switchGen'
        PROVE  (\E q \in replies' : q.gen = switchGen')
               \/ uiSymbol' = Committed'
    <3>1. CASE m.gen = switchGen
      BY <2>1, <2>2, <3>1
    <3>2. CASE m.gen # switchGen
      BY <2>1, <2>2, <3>2
    <3>3. QED
      BY <3>1, <3>2
  <2>3. ASSUME lastGen' = switchGen'
        PROVE  /\ \A q \in Pending' : q.gen # switchGen'
               /\ \A q \in replies' :
                    q.gen = switchGen' => q.active = Committed'
    BY <2>1, <2>3
  <2>4. QED
    BY <2>1, <2>2, <2>3
<1>4. CASE UNCHANGED Atomic!vars
  <2>1. /\ Pending' = Pending /\ Committed' = Committed
        /\ UNCHANGED <<uiSymbol, switchGen, replies, lastGen>>
    BY <1>4 DEF Atomic!vars
  <2>2. QED
    BY <2>1
<1>5. QED
  BY <1>1, <1>2, <1>3, <1>4 DEF Atomic!Next

\* Once every `:sym` is answered, the newest one having released backfillMu
\* last, the terminal names and trades the symbol whose tape is live.
THEOREM NewestShownCorrect == Spec => []NewestShown
<1>1. Init => AnswerInv
  BY DEF Init, AnswerInv, InFlight, Committed, Idle
<1>2. AnswerInv => NewestShown
  BY DEF AnswerInv, NewestShown, Quiet, Committed
<1>3. QED
  BY <1>1, <1>2, AnswerInvStep, StepSimulation, TypeCorrect,
     HolderInvariant, RequestsDistinctInvariant, PTL DEF Spec
=============================================================================
