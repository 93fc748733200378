SPECIFICATION Spec
CONSTANTS
  Guid <- MCGuid
  SeqNum <- MCSeqNum3
  WriterGuid = 1
  WriterQos <- MCReliable
  Durability = "TransientLocal"
  ChannelCapacity = 2
  ReadersLeave = TRUE
  Readers = {r1, r2}
INVARIANTS
  TypeOK
  NoLostWakeup
  UnackedIsCached
  NoPanic
PROPERTIES
  SentInOrder
  HeartbeatCoversUnacked
  ImplementsStore
CHECK_DEADLOCK FALSE
