---------------------------- MODULE SharedCache -----------------------------
(***************************************************************************)
(* One history cache and the calls its two threads make on it, in any      *)
(* order: on a Writer's cache DataWriter::writer_data_to_hc and the RTPS   *)
(* Writer; on a Reader's cache the RTPS Reader, the event loop's timers    *)
(* and DataReader::take.                                                   *)
(***************************************************************************)
EXTENDS HistoryCache

CONSTANTS
  WriterGuid,     \* the owner of a Writer's cache
  QosChoices      \* the QoS records a run explores

ASSUME WriterGuidAssumption == WriterGuid \in Guid
ASSUME QosAssumption        == QosChoices \subseteq Qos

VARIABLES
  hc,         \* the cache
  qos,        \* the endpoint's QoS, fixed when the endpoint is created
  last,       \* DataWriter.last_change_sequence_number
  panicked    \* a method indexed or looked up something that is not there

vars == <<hc, qos, last, panicked>>

Init == /\ hc = EmptyCache
        /\ qos \in QosChoices
        /\ last = 0
        /\ panicked = FALSE

IsWriter == qos.hc_type = "Writer"
IsReader == qos.hc_type = "Reader"

-----------------------------------------------------------------------------
(* Calls on a Writer's cache. *)

\* The sequence number of a write: incremented, or kept for the SPDP
\* announcement, which is rewritten under sequence number 1.
WriteSeqNum(inc) == IF inc THEN last + 1 ELSE IF last = 0 THEN 1 ELSE last

\* A write that add_change accepts; while it answers WouldBlock the DataWriter
\* sleeps and tries again.
DataWriterWrite(inc) ==
  LET k == [guid |-> WriterGuid, seq_num |-> WriteSeqNum(inc)]
      r == AddChangeResult(hc, k, qos)
  IN  /\ IsWriter
      /\ ~panicked
      /\ k.seq_num \in SeqNum
      /\ r # "WouldBlock"
      /\ last' = k.seq_num
      /\ panicked' = (r = "Panic")
      /\ hc' = IF r = "Ok" THEN AddChange(hc, k, qos) ELSE hc
      /\ UNCHANGED qos

\* Writer::handle_write_data_cmd collects what it has not seen.
WriterGetUnprocessed ==
  /\ IsWriter
  /\ ~panicked
  /\ hc' = GetUnprocessed(hc)
  /\ UNCHANGED <<qos, last, panicked>>

\* The RTPS Writer drops a change it believes acknowledged or has sent.  It
\* chose the key under an earlier acquisition of the lock.
WriterRemove(k) ==
  /\ IsWriter
  /\ ~panicked
  /\ hc' = RemoveChange(hc, k, FALSE)
  /\ UNCHANGED <<qos, last, panicked>>

-----------------------------------------------------------------------------
(* Calls on a Reader's cache. *)

\* Reader::add_change stores a received sample.
ReaderAdd(k) ==
  LET r == AddChangeResult(hc, k, qos)
  IN  /\ IsReader
      /\ ~panicked
      /\ panicked' = (r = "Panic")
      /\ hc' = IF r = "Ok" THEN AddChange(hc, k, qos) ELSE hc
      /\ UNCHANGED <<qos, last>>

\* The Reader makes everything it holds visible.
ReaderFlush == /\ IsReader
               /\ ~panicked
               /\ hc' = Flush(hc)
               /\ UNCHANGED <<qos, last, panicked>>

\* DataReader::take.  get_ready_changes panics on a dangling kind2key entry.
DataReaderTake == /\ IsReader
                  /\ ~panicked
                  /\ panicked' = ~ReadyLookupOK(hc)
                  /\ hc' = TakeReady(hc)
                  /\ UNCHANGED <<qos, last>>

\* The Reader collects the taken keys (best effort: all; reliable: the old ones).
ReaderGetTaken ==
  /\ IsReader
  /\ ~panicked
  /\ \/ ~qos.is_reliable /\ hc' = GetTaken(hc)
     \/ /\ qos.is_reliable
        /\ \E g \in Guid, n \in SeqNum : hc' = GetTakenLessThan(hc, g, n)
  /\ UNCHANGED <<qos, last, panicked>>

\* The lifespan timer of a sample fires.
LifespanExpired(k) == /\ IsReader
                      /\ ~panicked
                      /\ hc' = RemoveIfExist(hc, k)
                      /\ UNCHANGED <<qos, last, panicked>>

\* Reader::matched_writer_remove drops what a lost writer sent.
WriterLost(g) == /\ IsReader
                 /\ ~panicked
                 /\ hc' = RemoveFromWriter(hc, g)
                 /\ UNCHANGED <<qos, last, panicked>>

-----------------------------------------------------------------------------

Next == \/ \E inc \in BOOLEAN : DataWriterWrite(inc)
        \/ WriterGetUnprocessed
        \/ \E k \in HCKey : WriterRemove(k)
        \/ \E k \in HCKey : ReaderAdd(k)
        \/ ReaderFlush
        \/ DataReaderTake
        \/ ReaderGetTaken
        \/ \E k \in HCKey : LifespanExpired(k)
        \/ \E g \in Guid : WriterLost(g)

Spec == Init /\ [][Next]_vars

-----------------------------------------------------------------------------
(* Properties *)

\* The fields of the cache, the QoS and the counter have their types.
TypeOK == /\ IsCache(hc)
          /\ qos \in QosChoices
          /\ last \in Nat
          /\ panicked \in BOOLEAN

\* The insertion-order index names exactly the cached changes, each once: the
\* eviction of ts2key[0] and ReaderProxy::new's "latest" rely on it.
InsertionIndexAgrees == InsertionOrdered(hc)

\* The kind index names exactly the cached changes, and what take() may return
\* is cached, so the lookup in get_ready_changes cannot hit its panic.
LookupIndexesAgree == LookupIndexed(hc)

\* A sample the RTPS Writer has been told about but has not processed is still
\* in the cache, whatever is acknowledged, sent or evicted in between.
UnprocessedIsCached == UnprocessedHeld(hc)

\* take() on a KeepLast reader returns at most depth samples, as its
\* documentation promises (datareader.rs).
KeepLastDepth ==
  IsReader /\ qos.history = "KeepLast" =>
    Cardinality(hc.changes) <= qos.depth

\* The cache never holds more than max_samples changes.
WithinMaxSamples ==
  qos.max_samples # LENGTH_UNLIMITED =>
    Cardinality(hc.changes) <= qos.max_samples

\* add_change never indexes an empty ts2key and get_ready_changes never meets
\* a key without a change.
NoPanic == ~panicked
=============================================================================
