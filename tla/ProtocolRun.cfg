SPECIFICATION FairSpec
CONSTANTS
  Base = 4
  Id = {1, 2, 4}
  Size <- MCSize
  Direction <- MCDirection
  RawMax = 1
  RxSize = 8
  Measured <- MCMeasured
  FrameMax = 16
  Command <- MCCommand
  Splits = {1}
  MaxSends = 2
INVARIANT TypeOK
PROPERTIES Serves MeasuredKept Answers
