SPECIFICATION Spec
CONSTANTS
  FrameCount = 3
  Reading <- MCReading
  Highest <- MCHighest
  One = 4
  Word = 128
  VGain = 6
  IGain = 4
  BootKp = 3
  BootKi = 8
  Gains <- MCGains
  Ts = 1
  Setpoints <- MCSetpoints
  Lut <- MCLut
  Spacing = 64
  MaxFrames = 4
INVARIANTS TypeOK WholeFrames NoWindup
PROPERTIES NoneSkipped Integrates TemperatureRises
