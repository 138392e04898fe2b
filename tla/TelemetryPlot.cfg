SPECIFICATION Spec
CONSTANTS
  Base = 8
  ByteXor <- MCXor
  Sync <- MCSync
  PayloadSize = 2
  Splits = {1, 3}
  MaxWire = 2
  Payload <- MCPayload
  Others <- MCOthers
  FirstSeq = 6
  Window = 2
  MaxFrames = 3
  MaxOthers = 1
INVARIANTS TypeOK Decodes Accounted
