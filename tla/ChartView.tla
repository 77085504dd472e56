----------------------------- MODULE ChartView -----------------------------
(***************************************************************************)
(* The chart of the terminal over the aggregator of BarRings: the          *)
(* resolution shown, the pan offset, the focus crop, and the frame that    *)
(* Aggregator.Snapshot makes of them.                                      *)
(***************************************************************************)
EXTENDS BarRings

CONSTANTS ChartWidth  \* chartWidth(): the bars that fit

ASSUME ChartAssumption == ChartWidth \in Nat \ {0}

VARIABLES
  ui  \* tf: the built-in resolution; pan: panOffset; crop: leftCrop;
      \* awaits: the reply to a `:sym` that succeeded is on its way

viewVars == <<vars, ui>>
NewView == [tf |-> "minute", pan |-> 0, crop |-> 0, awaits |-> FALSE]

ViewInit == Init /\ ui = NewView
-----------------------------------------------------------------------------
(* Snapshot. *)

Fewer(a, b) == IF a < b THEN a ELSE b

\* `count` candles of the ring, from logical index `first`.
Copied(s, first, count) ==
  LET slot(k) == s.ring.slots[At(s.ring, first + k - 1)] IN
  [k \in 1..count |-> IF slot(k) = NoCandle THEN NoCandle ELSE slot(k).bar]

\* Mutant: the first step back does not drop the forming candle.
BackFromForming(s, offset) ==
  IF offset >= s.ring.count THEN s.ring.count - 1 ELSE offset

\* The closed candles between the right edge and the newest one.
Back(s, offset) ==
  LET back == IF s.forming # NoCandle THEN offset - 1 ELSE offset IN
  IF back >= s.ring.count THEN s.ring.count - 1 ELSE back

Snapshot(s, n, offset) ==
  LET count  == Fewer(s.ring.count + 1, n)
      newest == s.ring.count - 1 - Back(s, offset)
      shown  == Fewer(newest + 1, n)
  IN CASE n <= 0 \/ (s.ring.count = 0 /\ s.forming = NoCandle) -> <<>>
       [] n > 0 /\ offset = 0 /\ s.forming # NoCandle ->
            Append(Copied(s, s.ring.count - (count - 1), count - 1), s.forming)
       [] OTHER -> Copied(s, newest - shown + 1, shown)

Shown == IF agg.length > 0 THEN "custom" ELSE ui.tf
Depth == agg.series[Shown].ring.count
Step == IF ChartWidth < 4 THEN 1 ELSE ChartWidth \div 4

\* The bars the frame asks for.
Asked == IF ChartWidth > ui.crop THEN ChartWidth - ui.crop ELSE 1

Frame == Snapshot(agg.series[Shown], Asked, ui.pan)
-----------------------------------------------------------------------------
(* Keys and commands. *)

Pressed ==
  /\ left.keys > 0
  /\ left' = [left EXCEPT !.keys = @ - 1]
  /\ UNCHANGED <<now, tape, market, agg, fetch, watched, past>>

PanBack ==
  /\ Pressed /\ Depth > 0
  /\ ui' = [ui EXCEPT !.pan = Fewer(@ + Step, Depth)]

PanForward ==
  /\ Pressed /\ Depth > 0 /\ ui.pan > 0
  /\ ui' = [ui EXCEPT !.pan = IF @ > Step THEN @ - Step ELSE 0]

CropIn ==
  /\ Pressed
  /\ ui' = [ui EXCEPT !.crop = Fewer(@ + Step, ChartWidth - 1)]

CropOut ==
  /\ Pressed /\ ui.crop > 0
  /\ ui' = [ui EXCEPT !.crop = IF @ > Step THEN @ - Step ELSE 0]

\* The view starts over, with resolution tf.
Shows(tf) == ui' = [ui EXCEPT !.tf = tf, !.pan = 0, !.crop = 0]

Viewed ==
  /\ left.views > 0
  /\ left' = [left EXCEPT !.views = @ - 1]
  /\ UNCHANGED <<now, tape, market, fetch, watched, past>>

ClearCustom(a) ==
  [a EXCEPT !.length = 0, !.series["custom"] = NewSeries,
            !.given["custom"] = {}, !.odd = @ \ {"custom"}]

\* `:tf` with a custom resolution.
EnableCustom(len) ==
  /\ Viewed
  /\ agg' = rebuildCustomLocked([agg EXCEPT !.length = len])
  /\ Shows(ui.tf)

\* `:tf` with a built-in one.
ChooseTf(tf) ==
  /\ Viewed
  /\ agg' = ClearCustom(agg)
  /\ Shows(tf)

\* Tab: off the custom resolution, or on to the next.
CycleTf ==
  /\ Viewed
  /\ agg' = ClearCustom(agg)
  /\ \E tf \in {"fine", "minute"} :
       /\ IF agg.length > 0 THEN tf = ui.tf ELSE tf # ui.tf
       /\ Shows(tf)
-----------------------------------------------------------------------------
(* Switches. *)

\* The reply of a switch that succeeded; that of a rollback names the symbol
\* shown already and leaves the view alone.
SymbolSwitched ==
  /\ ui.awaits
  /\ ui' = [ui EXCEPT !.pan = 0, !.crop = 0, !.awaits = FALSE]
  /\ UNCHANGED vars

\* The aggregator's steps; the last of a switch sends the reply.
Feed ==
  /\ FeedNext
  /\ ui' = [ui EXCEPT !.awaits = @ \/ (EndBackfill /\ fetch.switch)]

Next ==
  \/ Feed
  \/ SymbolSwitched
  \/ PanBack
  \/ PanForward
  \/ CropIn
  \/ CropOut
  \/ \E len \in CustomLens : EnableCustom(len)
  \/ \E tf \in {"fine", "minute"} : ChooseTf(tf)
  \/ CycleTf

Spec == ViewInit /\ [][Next]_viewVars
-----------------------------------------------------------------------------
(* Properties. *)

\* The view keeps its type: the crop leaves a bar.
ViewTypeOK ==
  /\ TypeOK
  /\ ui \in [tf: {"fine", "minute"}, pan: 0..RingCap, crop: 0..ChartWidth - 1,
             awaits: BOOLEAN]

\* The frame the offsets ask for: the candles that end ui.pan before the
\* newest, or with the oldest.
FrameOf(bars) ==
  LET right == IF Len(bars) > ui.pan THEN Len(bars) - ui.pan
                                     ELSE Fewer(Len(bars), 1)
      first == IF right > Asked THEN right - Asked + 1 ELSE 1
  IN SubSeq(bars, first, right)

\* However the history shrinks, shifts and forms under a panned and cropped
\* view, the frame is a run of candles of the series shown, none skipped and
\* never blank while there is one.  The exception: panned back over a series
\* that has only a forming candle, the frame is an empty slot of the ring.
FrameShowsHeld ==
  LET s == agg.series[Shown] IN
  (s.ring.count = 0 => ui.pan = 0) => Frame = FrameOf(Bars(s))

\* What the comment of Snapshot says of any offset: past the oldest candle it
\* returns available ones, and never a slot that holds none of the series.
FrameAvailable ==
  \A bar \in Range(Frame) : bar \in Range(Bars(agg.series[Shown]))
=============================================================================
