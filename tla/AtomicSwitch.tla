---------------------------- MODULE AtomicSwitch ----------------------------
(***************************************************************************)
(* What a `:sym` request promises its user, with every lock, socket and    *)
(* REST call hidden: requests are issued one after the other, each takes   *)
(* effect in one step at some later moment and in any order, and that step *)
(* either moves the tape to the requested symbol, or leaves it where it    *)
(* was, or (both subscriptions failed) leaves it muted.  The terminal      *)
(* shows the outcome of its newest request only.                           *)
(*                                                                         *)
(* SymbolSwitch implements this specification.                             *)
(***************************************************************************)
EXTENDS Naturals

CONSTANTS Symbols,        \* tradable symbols
          NoSymbol,       \* the empty string: no active symbol, tape muted
          DefaultSymbol,  \* cfg.DefaultSymbol
          MaxSwitches     \* bound: number of `:sym` requests

VARIABLES uiSymbol,   \* Model.symbol, the name the terminal shows and trades
          switchGen,  \* Model.switchGen, the number of the newest request
          pending,    \* requests that have not taken effect
          replies,    \* outcomes on their way back to the terminal
          committed,  \* the symbol whose tape is live
          lastGen     \* the request that took effect last (0: none yet)

vars == <<uiSymbol, switchGen, pending, replies, committed, lastGen>>

Gens == 1..MaxSwitches
Tape == Symbols \cup {NoSymbol}
Requests == [gen: Gens, symbol: Symbols]
Replies == [gen: Gens, active: Tape]

Init ==
  /\ uiSymbol = DefaultSymbol
  /\ switchGen = 0
  /\ pending = {}
  /\ replies = {}
  /\ committed = DefaultSymbol
  /\ lastGen = 0

\* The user types `:sym s`; a request for the displayed symbol does nothing.
Request(s) ==
  /\ s # uiSymbol
  /\ switchGen < MaxSwitches
  /\ switchGen' = switchGen + 1
  /\ pending' = pending \cup {[gen |-> switchGen + 1, symbol |-> s]}
  /\ UNCHANGED <<uiSymbol, replies, committed, lastGen>>

\* Request r takes effect: the tape moves, stays, or is muted.
Settle(r, outcome) ==
  /\ r \in pending
  /\ outcome \in {r.symbol, committed, NoSymbol}
  /\ pending' = pending \ {r}
  /\ committed' = outcome
  /\ replies' = replies \cup {[gen |-> r.gen, active |-> outcome]}
  /\ lastGen' = r.gen
  /\ UNCHANGED <<uiSymbol, switchGen>>

\* The terminal receives an outcome; a superseded one is dropped.
Deliver(m) ==
  /\ m \in replies
  /\ replies' = replies \ {m}
  /\ uiSymbol' = IF m.gen = switchGen THEN m.active ELSE uiSymbol
  /\ UNCHANGED <<switchGen, pending, committed, lastGen>>

Next ==
  \/ \E s \in Symbols : Request(s)
  \/ \E r \in pending : \E outcome \in Tape : Settle(r, outcome)
  \/ \E m \in replies : Deliver(m)

Spec == Init /\ [][Next]_vars
-----------------------------------------------------------------------------
TypeOK ==
  /\ uiSymbol \in Tape
  /\ switchGen \in 0..MaxSwitches
  /\ pending \subseteq Requests
  /\ replies \subseteq Replies
  /\ committed \in Tape
  /\ lastGen \in 0..MaxSwitches

\* When nothing is in flight and the newest request was also the last to take
\* effect, the terminal shows the symbol whose tape is live.
NewestShown ==
  pending = {} /\ replies = {} /\ lastGen = switchGen => uiSymbol = committed
=============================================================================
