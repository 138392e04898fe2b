SPECIFICATION Spec
CONSTANTS
  Gains <- MCGains
  BootGain = 600
  Freqs <- MCFreqs
  BootFreq = 20000
  MaxReset = 1
PROPERTY ZeroCommandZeroVoltage
