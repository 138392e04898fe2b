SPECIFICATION FairSpec
CONSTANTS
  Byte <- OneByte
  Frame <- OneFrame
  Replies <- OneReply
  N = 3
  Packet = 1
  DescPackets = 1
  MaxControl = 2
  MaxReset = 1
INVARIANTS TypeOK BusyEnds
PROPERTIES LostOnlyByArm QueueDrains
