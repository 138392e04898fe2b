SPECIFICATION FairSpec
CONSTANTS
  Gains <- MCGains
  BootGain = 600
  Freqs <- MCFreqs
  BootFreq = 20000
  MaxReset = 1
INVARIANTS TypeOK GateLatency BridgeLatency CompareInRange GainsTracked
PROPERTY EnableHonoured
