SPECIFICATION KindsFairSpec
CONSTANTS
  Guid <- MCGuid
  SeqNum <- MCSeqNum3
  WriterGuid = 1
  WriterQos <- MCReliable
  Durability = "Volatile"
  ChannelCapacity = 1
  ReadersLeave = FALSE
  Readers = {r1, r2}
INVARIANTS
  NoLostWakeup
  NoPanic
PROPERTIES
  WrittenIsSent
  WriteReturns
CHECK_DEADLOCK FALSE
