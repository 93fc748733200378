SPECIFICATION FairSpec
CONSTANTS
  Guid <- MCGuid
  SeqNum <- MCSeqNum3
  WriterGuid = 1
  WriterQos <- MCReliable
  Durability = "Volatile"
  ChannelCapacity = 2
  ReadersLeave = TRUE
  Readers = {r1}
PROPERTIES
  WriteReturns
CHECK_DEADLOCK FALSE
