-------------------------------- MODULE Ring --------------------------------
(***************************************************************************)
(* The circular buffer of internal/bars/bars.go: ringCap slots, the first  *)
(* of the candles held and how many there are.  A slot that is not held    *)
(* keeps whatever was written there last, or the zero Bar it was made      *)
(* with.                                                                   *)
(***************************************************************************)
EXTENDS Naturals, Sequences

CONSTANTS RingCap,  \* ringCap
          NoCandle  \* the zero value of a slot

ASSUME RingAssumption == RingCap \in Nat \ {0}

Slots == 0..RingCap - 1

NewRing == [slots |-> [k \in Slots |-> NoCandle], start |-> 0, count |-> 0]

\* The slot of the i-th candle from the oldest, from 0.
At(r, i) == (r.start + i) % RingCap

\* Mutant: the capacity is not looked at.
PushGrows(r, e) == [r EXCEPT !.slots[At(r, r.count)] = e, !.count = @ + 1]

\* A full ring overwrites its oldest candle.
Push(r, e) ==
  IF r.count < RingCap
    THEN [r EXCEPT !.slots[At(r, r.count)] = e, !.count = @ + 1]
    ELSE [r EXCEPT !.slots[r.start] = e, !.start = At(r, 1)]

Newest(r) == r.slots[At(r, r.count - 1)]

\* The slot keeps the candle that is no longer held.
PopLast(r) == [r EXCEPT !.count = @ - 1]

\* The candles held, oldest first: what a ring stands for.
Held(r) == [i \in 1..r.count |-> r.slots[At(r, i - 1)]]
=============================================================================
