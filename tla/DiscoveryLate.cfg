CONSTANTS
  p1 = p1
  p2 = p2
  Count = 2
  Participants <- MCParticipants
  Endpoints <- MCEndpoints
  Mortal = {}
  SeqNum <- MCSeqNum
  Owner <- MCOwner
  Role <- MCRole
  Topic <- MCTopic
  TopicKind <- MCTopicKind
  Settings <- MCSettings
  NanosPerSecond = 10
  FractionsPerSecond = 43
  MaxSeconds = 3
  LateEndpoints = TRUE
  MaxFaults = 0
  MaxUnderWay = 1
SPECIFICATION FairSpec
PROPERTIES
  Matched
