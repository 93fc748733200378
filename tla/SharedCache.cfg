SPECIFICATION Spec
CONSTANTS
  Guid <- MCGuid
  SeqNum <- MCSeqNum
  QosChoices <- MCQosChoices
  WriterGuid = 1
INVARIANTS
  TypeOK
  InsertionIndexAgrees
  LookupIndexesAgree
  UnprocessedIsCached
  KeepLastDepth
  WithinMaxSamples
  NoPanic
CHECK_DEADLOCK FALSE
