SPECIFICATION Spec
CONSTANTS
  w1 = w1
  w2 = w2
  r1 = r1
  NanosPerSecond = 4
  FractionsPerSecond = 8
  MaxSeconds = 9
  Writers = {w1, w2}
  Readers = {r1}
  Kind <- MCKind
  Lease <- MCLease
  Requested <- MCRequested
  AssertPeriod = 2
  IdlePeriod = 3
  Lossy = TRUE
  EarlyAssertions = FALSE
  MaxUnderWay = 1
INVARIANTS
  TypeOK
  DetectedInTime
  ReportedInTime
PROPERTIES
  LostOnlyAfterLease
