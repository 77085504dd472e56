---------------------------- MODULE MCChartView ----------------------------
(* The histories TLC checks ChartView on, one bound at a time stretched. *)
EXTENDS ChartView

Still == [reports |-> 0, unheard |-> 0, delay |-> 0, wild |-> 0,
          backfills |-> 0, resets |-> 0, views |-> 0, keys |-> 0]

MCBounds == {
  \* late reports and evicted candles
  [Still EXCEPT !.reports = 4, !.delay = 2],
  \* late reports around a backfill, a part of the tape only REST has
  [Still EXCEPT !.reports = 3, !.delay = 1, !.backfills = 1],
  [Still EXCEPT !.reports = 2, !.unheard = 1, !.backfills = 1],
  \* the custom series, fed, loaded and panned
  [Still EXCEPT !.reports = 3, !.backfills = 1, !.views = 1],
  [Still EXCEPT !.reports = 3, !.views = 1, !.keys = 2],
  \* bad ticks and gaps, across a symbol switch or not
  [Still EXCEPT !.reports = 3, !.wild = 2],
  [Still EXCEPT !.reports = 2, !.wild = 1, !.resets = 1],
  \* a panned or cropped view over a switch
  [Still EXCEPT !.reports = 3, !.resets = 1, !.keys = 1]}
=============================================================================
