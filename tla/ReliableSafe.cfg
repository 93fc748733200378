SPECIFICATION Spec
CONSTANTS
  Guid <- MCGuid
  WriterGuid = 1
  WriterQos <- MCWriterQos
  Durability = "TransientLocal"
  NackResponseDelay = 0
  HbResponseDelay = 0
  MaxHeartbeats = 1
  MaxBacklog = 4
  SeqNum <- MCSeqNum3
  Readers <- MCReaders
  ReaderQos <- MCMixedQos
  Hosts = {"a"}
  Host <- MCHost
  EntityId <- MCEntityId
  ApartHosts = {}
  MaxBits = 3
  MaxLosses = 1
INVARIANTS
  TypeOK
  AckedIsReceived
  StillRepairable
  NewestLast
PROPERTIES
  OnceAcked
CHECK_DEADLOCK FALSE
