------------------------- MODULE SharedCacheProofs --------------------------
(***************************************************************************)
(* The shared cache keeps its indexes in agreement with its samples, never *)
(* loses a sample the RTPS Writer has still to process, stays within its   *)
(* limits and never panics, for any number of writers and any order of the *)
(* calls; what the last two need of the QoS is said in their theorems.     *)
(***************************************************************************)
EXTENDS SharedCache, HistoryCacheProofs

\* Nothing of a Reader's cache waits for an RTPS Writer.
ReaderProcessed == IsReader => hc.unprocessed_seqnum = {}

\* The inductive invariant: types, agreeing indexes, and held unprocessed samples.
Inv == TypeOK /\ Sound(hc) /\ Indexed(hc, Distinct) /\ ReaderProcessed

\* It holds when the endpoint is created.
LEMMA InitInv == Init => Inv
<1> SUFFICES ASSUME Init PROVE Inv
  OBVIOUS
<1>1. Sound(hc)
  BY EmptySound DEF Init
<1>2. TypeOK
  BY <1>1 DEF Init, TypeOK, Sound
<1>3. Indexed(hc, Distinct) /\ ReaderProcessed
  <2>1. hc.ts2key = << >> /\ hc.changes = {} /\ hc.unprocessed_seqnum = {}
    BY DEF Init, EmptyCache
  <2>2. << >> \in Seq(HCKey) /\ Range(<< >>) = {} /\ PairsIn(<< >>, Distinct)
    BY DEF Range, PairsIn
  <2> QED BY <2>1, <2>2 DEF Indexed, ReaderProcessed
<1> QED BY <1>1, <1>2, <1>3 DEF Inv

\* What a call does to the cache: add_change that succeeds, ...
Adds == \E k \in HCKey : AddChangeResult(hc, k, qos) = "Ok" /\ hc' = AddChange(hc, k, qos)

\* ... or a call that only removes samples or leaves them alone.
Shrinks == /\ Sound(hc') /\ Indexed(hc', Distinct)
           /\ hc'.changes \subseteq hc.changes
           /\ hc'.unprocessed_seqnum \subseteq hc.unprocessed_seqnum

\* remove_change shrinks the cache.
LEMMA RemoveShrinks ==
  ASSUME Inv, NEW S, NEW taken \in BOOLEAN, hc' = RemoveChanges(hc, S, taken)
  PROVE  Shrinks
<1>1. Sound(hc) /\ IsCache(hc) /\ Indexed(hc, Distinct)
  BY DEF Inv, Sound
<1>2. Sound(hc')
  BY <1>1, RemoveSound
<1>3. Indexed(hc', Distinct)
  BY <1>1, RemoveIndexed
<1>4. hc'.changes \subseteq hc.changes /\ hc'.unprocessed_seqnum = hc.unprocessed_seqnum
  BY <1>1, RemoveFields
<1> QED BY <1>2, <1>3, <1>4 DEF Shrinks

\* A call that leaves the samples and their order alone shrinks the cache.
LEMMA QuietShrinks ==
  ASSUME Inv, Sound(hc'), hc'.changes = hc.changes, hc'.ts2key = hc.ts2key,
         hc'.unprocessed_seqnum \subseteq hc.unprocessed_seqnum
  PROVE  Shrinks
  BY DEF Inv, Indexed, Shrinks

\* Every call of either thread is one of the two.
LEMMA Calls ==
  ASSUME Inv, [Next]_vars
  PROVE  /\ Adds \/ Shrinks
         /\ qos' = qos /\ last' \in Nat /\ panicked' \in BOOLEAN
<1>0. /\ Sound(hc) /\ IsCache(hc)
      /\ qos \in Qos
      /\ last \in Nat
      /\ panicked \in BOOLEAN
  BY QosAssumption DEF Inv, TypeOK
<1> DEFINE Goal == /\ Adds \/ Shrinks
                   /\ qos' = qos /\ last' \in Nat /\ panicked' \in BOOLEAN
<1>a. hc' = hc => Shrinks
  BY <1>0, QuietShrinks
<1>1. ASSUME NEW inc \in BOOLEAN, DataWriterWrite(inc) PROVE Goal
  <2> DEFINE k == [guid |-> WriterGuid, seq_num |-> WriteSeqNum(inc)]
  <2>1. k \in HCKey
    BY <1>1, WriterGuidAssumption DEF DataWriterWrite, HCKey
  <2>2. Adds \/ hc' = hc
    BY <1>1, <2>1 DEF DataWriterWrite, Adds
  <2>3. last' \in Nat
    BY <1>1, SeqNumAssumption DEF DataWriterWrite
  <2> QED BY <1>1, <1>a, <2>2, <2>3 DEF DataWriterWrite
<1>2. ASSUME WriterGetUnprocessed PROVE Goal
  <2>1. Sound(hc')
    BY <1>0, <1>2, GetUnprocessedSound DEF WriterGetUnprocessed
  <2>2. /\ hc'.changes = hc.changes /\ hc'.ts2key = hc.ts2key
        /\ hc'.unprocessed_seqnum \subseteq hc.unprocessed_seqnum
    BY <1>0, <1>2 DEF WriterGetUnprocessed, GetUnprocessed, IsCache
  <2> QED BY <1>0, <1>2, <2>1, <2>2, QuietShrinks DEF WriterGetUnprocessed
<1>3. ASSUME NEW k \in HCKey, WriterRemove(k) PROVE Goal
  BY <1>0, <1>3, RemoveShrinks DEF WriterRemove, RemoveChange
<1>4. ASSUME NEW k \in HCKey, ReaderAdd(k) PROVE Goal
  <2>1. Adds \/ hc' = hc
    BY <1>4 DEF ReaderAdd, Adds
  <2> QED BY <1>0, <1>4, <1>a, <2>1 DEF ReaderAdd
<1>5. ASSUME ReaderFlush PROVE Goal
  <2>1. Sound(hc')
    BY <1>0, <1>5, FlushSound DEF ReaderFlush
  <2>2. /\ hc'.changes = hc.changes /\ hc'.ts2key = hc.ts2key
        /\ hc'.unprocessed_seqnum \subseteq hc.unprocessed_seqnum
    BY <1>0, <1>5 DEF ReaderFlush, Flush, IsCache
  <2> QED BY <1>0, <1>5, <2>1, <2>2, QuietShrinks DEF ReaderFlush
<1>6. ASSUME DataReaderTake PROVE Goal
  BY <1>0, <1>6, RemoveShrinks DEF DataReaderTake, TakeReady
<1>7. ASSUME ReaderGetTaken PROVE Goal
  <2>1. CASE hc' = GetTaken(hc)
    <3>1. Sound(hc')
      BY <1>0, <2>1, GetTakenSound
    <3>2. /\ hc'.changes = hc.changes /\ hc'.ts2key = hc.ts2key
          /\ hc'.unprocessed_seqnum \subseteq hc.unprocessed_seqnum
      BY <1>0, <2>1 DEF GetTaken, IsCache
    <3> QED BY <1>0, <1>7, <3>1, <3>2, QuietShrinks DEF ReaderGetTaken
  <2>2. ASSUME NEW g, NEW n, hc' = GetTakenLessThan(hc, g, n) PROVE Goal
    <3>1. Sound(hc')
      BY <1>0, <2>2, GetTakenLessThanSound
    <3>2. /\ hc'.changes = hc.changes /\ hc'.ts2key = hc.ts2key
          /\ hc'.unprocessed_seqnum \subseteq hc.unprocessed_seqnum
      BY <1>0, <2>2 DEF GetTakenLessThan, IsCache
    <3> QED BY <1>0, <1>7, <3>1, <3>2, QuietShrinks DEF ReaderGetTaken
  <2> QED BY <1>7, <2>1, <2>2 DEF ReaderGetTaken
<1>8. ASSUME NEW k \in HCKey, LifespanExpired(k) PROVE Goal
  <2>1. hc' = hc \/ hc' = RemoveChanges(hc, {k}, FALSE)
    BY <1>8 DEF LifespanExpired, RemoveIfExist, RemoveChange
  <2> QED BY <1>0, <1>8, <1>a, <2>1, RemoveShrinks DEF LifespanExpired
<1>9. ASSUME NEW g \in Guid, WriterLost(g) PROVE Goal
  BY <1>0, <1>9, RemoveShrinks DEF WriterLost, RemoveFromWriter
<1>10. CASE UNCHANGED vars
  BY <1>0, <1>10, <1>a DEF vars
<1> QED BY <1>1, <1>2, <1>3, <1>4, <1>5, <1>6, <1>7, <1>8, <1>9, <1>10 DEF Next

\* Every call keeps the invariant.
LEMMA NextInv == Inv /\ [Next]_vars => Inv'
<1> SUFFICES ASSUME Inv, [Next]_vars PROVE Inv'
  OBVIOUS
<1>0. /\ Sound(hc) /\ IsCache(hc) /\ Indexed(hc, Distinct)
      /\ qos \in Qos
  BY QosAssumption DEF Inv, TypeOK
<1>1. Sound(hc') /\ Indexed(hc', Distinct) /\ (IsReader => hc'.unprocessed_seqnum = {})
  <2>1. CASE Shrinks
    BY <2>1 DEF Shrinks, Inv, ReaderProcessed
  <2>2. CASE Adds
    <3>1. PICK k \in HCKey : hc' = AddChange(hc, k, qos)
      BY <2>2 DEF Adds
    <3>2. Sound(hc')
      BY <1>0, <3>1, AddSound
    <3>3. k \notin hc.changes => \A j \in hc.changes : <<j, k>> \in Distinct
      BY <1>0 DEF Distinct, IsCache
    <3>4. Indexed(hc', Distinct)
      BY <1>0, <3>1, <3>3, AddIndexed
    <3>5. IsReader => hc'.unprocessed_seqnum = {}
      BY <1>0, <3>1, AddDepth DEF Inv, ReaderProcessed, IsReader
    <3> QED BY <3>2, <3>4, <3>5
  <2> QED BY <2>1, <2>2, Calls
<1>2. qos' = qos /\ last' \in Nat /\ panicked' \in BOOLEAN
  BY Calls
<1> QED BY <1>1, <1>2 DEF Inv, TypeOK, Sound, ReaderProcessed, IsReader

\* The fields of the cache keep their types under every interleaving of the
\* calls of cache.rs.
THEOREM TypeCorrect == Spec => []TypeOK
<1>1. Inv => TypeOK
  BY DEF Inv
<1> QED BY <1>1, InitInv, NextInv, PTL DEF Spec

\* The insertion-order index lists the samples held, each of them once, so the
\* eviction of ts2key[0] takes away the oldest sample and no other.
THEOREM InsertionOrderKept == Spec => []InsertionIndexAgrees
<1>1. Inv => InsertionIndexAgrees
  BY IndexedOrdered DEF Inv, Sound, InsertionIndexAgrees
<1> QED BY <1>1, InitInv, NextInv, PTL DEF Spec

\* The kind index and the ready set always agree with the samples, so the
\* panic of get_ready_changes is out of reach.
THEOREM IndexesAgree == Spec => []LookupIndexesAgree
<1>1. Inv => LookupIndexesAgree
  BY DEF Inv, Sound, LookupIndexesAgree
<1> QED BY <1>1, InitInv, NextInv, PTL DEF Spec

\* No removal, eviction or KeepLast deletion ever drops a sample that the RTPS
\* Writer has not processed.
THEOREM UnprocessedKept == Spec => []UnprocessedIsCached
<1>1. Inv => UnprocessedIsCached
  BY DEF Inv, Sound, UnprocessedIsCached
<1> QED BY <1>1, InitInv, NextInv, PTL DEF Spec

-----------------------------------------------------------------------------
(* The limits. *)

\* A cache that shrinks holds no more than before.
LEMMA ShrinksSize ==
  ASSUME Inv, Shrinks
  PROVE  /\ Cardinality(hc'.changes) <= Cardinality(hc.changes)
         /\ Cardinality(hc'.changes) \in Nat /\ Cardinality(hc.changes) \in Nat
<1>1. IsFiniteSet(hc.changes)
  BY IndexedOrdered DEF Inv, Sound
<1> QED BY <1>1, FS_Subset, FS_CardinalityType DEF Shrinks

\* A KeepLast Reader never holds more than depth samples, whatever it receives
\* from however many Writers, and whatever max_samples is.
THEOREM DepthKept == Spec => []KeepLastDepth
<1>1. Init => KeepLastDepth
  <2> SUFFICES ASSUME Init, qos.history = "KeepLast" PROVE Cardinality(hc.changes) <= qos.depth
    BY DEF KeepLastDepth
  <2>1. hc.changes = {} /\ qos.depth \in Nat
    BY QosAssumption DEF Init, EmptyCache, Qos
  <2> QED BY <2>1, FS_EmptySet
<1>2. Inv /\ KeepLastDepth /\ [Next]_vars => KeepLastDepth'
  <2> SUFFICES ASSUME Inv, KeepLastDepth, [Next]_vars, IsReader, qos.history = "KeepLast"
               PROVE  Cardinality(hc'.changes) <= qos.depth
    BY Calls DEF KeepLastDepth, IsReader
  <2>1. qos \in Qos /\ qos.depth \in Nat /\ Cardinality(hc.changes) <= qos.depth
    BY QosAssumption DEF Inv, TypeOK, Qos, KeepLastDepth
  <2>2. CASE Shrinks
    BY <2>1, <2>2, ShrinksSize
  <2>3. CASE Adds
    BY <2>1, <2>3, AddDepth DEF Adds, Inv, ReaderProcessed, IsReader
  <2> QED BY <2>2, <2>3, Calls
<1> QED BY <1>1, <1>2, InitInv, NextInv, PTL DEF Spec

\* The cache never holds more than max_samples samples, for every endpoint but a
\* best-effort Writer with a limit: the sample such a Writer would evict may be
\* one that its event loop has still to process, and is then kept.
THEOREM LimitKept ==
  ASSUME \A q \in QosChoices :
           q.hc_type = "Writer" /\ ~q.is_reliable => q.max_samples = LENGTH_UNLIMITED
  PROVE  Spec => []WithinMaxSamples
<1>1. Init => WithinMaxSamples
  <2> SUFFICES ASSUME Init, qos.max_samples # LENGTH_UNLIMITED
               PROVE  Cardinality(hc.changes) <= qos.max_samples
    BY DEF WithinMaxSamples
  <2>1. hc.changes = {} /\ qos.max_samples \in Nat
    BY QosAssumption DEF Init, EmptyCache, Qos, LENGTH_UNLIMITED
  <2> QED BY <2>1, FS_EmptySet
<1>2. Inv /\ WithinMaxSamples /\ [Next]_vars => WithinMaxSamples'
  <2> SUFFICES ASSUME Inv, WithinMaxSamples, [Next]_vars, qos.max_samples # LENGTH_UNLIMITED
               PROVE  Cardinality(hc'.changes) <= qos.max_samples
    BY Calls DEF WithinMaxSamples
  <2>1. /\ qos \in Qos /\ qos \in QosChoices /\ qos.max_samples \in Nat
        /\ Cardinality(hc.changes) <= qos.max_samples
    BY QosAssumption DEF Inv, TypeOK, Qos, WithinMaxSamples, LENGTH_UNLIMITED
  <2>2. CASE Shrinks
    BY <2>1, <2>2, ShrinksSize
  <2>3. CASE Adds
    <3>1. qos.is_reliable \/ hc.unprocessed_seqnum = {}
      BY <2>1 DEF Inv, ReaderProcessed, IsReader, Qos
    <3> QED BY <2>1, <2>3, <3>1, AddSize DEF Adds, Inv
  <2> QED BY <2>2, <2>3, Calls
<1> QED BY <1>1, <1>2, InitInv, NextInv, PTL DEF Spec

\* The index panic of add_change and the lookup panic of get_ready_changes are
\* out of reach, provided that a best-effort endpoint with a limit may hold two
\* samples or more (with less, the first add_change panics).
THEOREM NeverPanics ==
  ASSUME \A q \in QosChoices :
           ~q.is_reliable => q.max_samples = LENGTH_UNLIMITED \/ q.max_samples >= 2
  PROVE  Spec => []NoPanic
<1>1. Init => NoPanic
  BY DEF Init, NoPanic
<1>2. Inv /\ NoPanic /\ [Next]_vars => NoPanic'
  <2> SUFFICES ASSUME Inv, NoPanic, [Next]_vars PROVE ~panicked'
    BY DEF NoPanic
  <2>0. qos \in Qos /\ qos \in QosChoices /\ IsCache(hc) /\ Indexed(hc, Distinct)
    BY QosAssumption DEF Inv, TypeOK
  <2>1. ASSUME NEW k PROVE AddChangeResult(hc, k, qos) # "Panic"
    <3>1. ~qos.is_reliable /\ AtLimit(hc, qos) => hc.ts2key # << >>
      <4> SUFFICES ASSUME ~qos.is_reliable, AtLimit(hc, qos) PROVE Len(hc.ts2key) # 0
        OBVIOUS
      <4>1. Cardinality(hc.changes) = Len(hc.ts2key) /\ Len(hc.ts2key) \in Nat
        BY <2>0, IndexedOrdered DEF Indexed
      <4> QED BY <2>0, <4>1 DEF AtLimit, Qos, LENGTH_UNLIMITED
    <3>2. qos.is_reliable \in BOOLEAN
      BY <2>0 DEF Qos
    <3> QED BY <3>1, <3>2, Zenon DEF AddChangeResult
  <2>2. ReadyLookupOK(hc)
    BY DEF Inv, Sound, LookupIndexed, ReadyLookupOK, ReadyKeys
  <2>3. ASSUME NEW inc \in BOOLEAN, DataWriterWrite(inc) PROVE ~panicked'
    BY <2>1, <2>3 DEF DataWriterWrite
  <2>4. ASSUME NEW k \in HCKey, ReaderAdd(k) PROVE ~panicked'
    BY <2>1, <2>4 DEF ReaderAdd
  <2>5. CASE DataReaderTake
    BY <2>2, <2>5 DEF DataReaderTake
  <2>6. CASE UNCHANGED panicked
    BY <2>6 DEF NoPanic
  <2> QED BY <2>3, <2>4, <2>5, <2>6 DEF Next, vars, WriterGetUnprocessed, WriterRemove,
      ReaderFlush, ReaderGetTaken, LifespanExpired, WriterLost
<1> QED BY <1>1, <1>2, InitInv, NextInv, PTL DEF Spec
=============================================================================
