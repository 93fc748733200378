SPECIFICATION FairSpec
CONSTANTS
  Guid <- MCGuid
  WriterGuid = 1
  WriterQos <- MCWriterQos
  Durability = "TransientLocal"
  NackResponseDelay = 0
  HbResponseDelay = 0
  MaxHeartbeats = 1
  MaxBacklog = 4
  SeqNum <- MCSeqNum3
  Readers = {1}
  ReaderQos <- MCReliable
  Hosts = {"a"}
  Host <- MCHost
  EntityId <- MCEntityId
  ApartHosts = {}
  MaxBits = 4
  MaxLosses = 2
PROPERTIES
  Delivered
  Released
CHECK_DEADLOCK FALSE
