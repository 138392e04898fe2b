SPECIFICATION FairSpec
CONSTANTS
  NTask = 3
  Freq <- MCFreq
  NewFreqs = {1}
  Cost <- MCCost
  IdleCost = 1
  AddTicks = 2
  MaxCalls = 1
  OwnCalls = FALSE
  MaxOwed = 22
  TicksPerSec = 12
  Micros = 24
  Wrap = 22
INVARIANTS TypeOK NeverAhead NoRunForgotten TopLatency
PROPERTY EveryTaskRuns
