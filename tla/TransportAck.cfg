SPECIFICATION Spec
CONSTANTS
  Base = 16
  ByteXor <- MCXor
  Sync <- MCSync
  PayloadSize = 4
  Splits = {1, 4}
  MaxWire = 3
  REPLY = 8
  Payload <- MCPayload
  Command <- MCCommand
  Readable = {1, 2}
  Data <- MCData
  MaxSize = 7
  Kept = {3}
  FirstSeq = 15
  MaxFrames = 3
  MaxRequests = 2
INVARIANT AckIsReal
CHECK_DEADLOCK FALSE
