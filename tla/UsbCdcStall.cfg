SPECIFICATION FairSpec
CONSTANTS
  Byte <- OneByte
  Frame <- OneFrame
  Replies <- OneReply
  N = 3
  Packet = 1
  DescPackets = 1
  MaxControl = 1
  MaxReset = 0
PROPERTY Flushes
