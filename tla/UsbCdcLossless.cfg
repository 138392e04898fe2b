SPECIFICATION Spec
CONSTANTS
  Byte <- MCBytes
  Frame <- MCFrame
  Replies <- MCReplies
  N = 4
  Packet = 2
  DescPackets = 2
  MaxControl = 0
  MaxReset = 0
PROPERTY NothingLost
