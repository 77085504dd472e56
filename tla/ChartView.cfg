SPECIFICATION Spec
CONSTANTS
  RingCap = 2
  NoCandle = NoCandle
  FineLen = 1
  MinuteLen = 2
  CustomLens = {3, 4}
  SessionLen = 4
  MaxTime = 5
  Prices = {2, 3, 6}
  Ratio = 2
  OpenPrice = 3
  ChartWidth = 2
  Bounds <- MCBounds
INVARIANTS
  ViewTypeOK
  OneCandlePerBucket
  EmaOverCloses
  PrintsInTheirCandle
  VwapOfWindow
  CustomIsResampled
  MarketPricesPass
  FrameShowsHeld
CHECK_DEADLOCK FALSE
