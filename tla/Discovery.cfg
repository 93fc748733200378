CONSTANTS
  p1 = p1
  p2 = p2
  Count = 3
  Participants <- MCParticipants
  Endpoints <- MCEndpoints
  Mortal <- MCMortal
  SeqNum <- MCSeqNum
  Owner <- MCOwner
  Role <- MCRole
  Topic <- MCTopic
  TopicKind <- MCTopicKind
  Settings <- MCSettings
  NanosPerSecond = 10
  FractionsPerSecond = 43
  MaxSeconds = 3
  LateEndpoints = FALSE
  MaxFaults = 1
  MaxUnderWay = 1
SPECIFICATION Spec
INVARIANTS
  TypeOK
  NoZombieProxies
  AckedIsMatched
