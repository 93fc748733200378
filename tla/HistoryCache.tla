---------------------------- MODULE HistoryCache ----------------------------
(***************************************************************************)
(* The history cache of a Writer or of a Reader (src/src/rtps/cache.rs).   *)
(*                                                                         *)
(* One cache is shared, behind a RwLock, by an application thread          *)
(* (DataWriter::write, DataReader::take) and by the event loop (Writer,    *)
(* Reader).  Every method runs under one acquisition of the lock, so every *)
(* method is one atomic operator on the record hc below.  Payloads are     *)
(* left out: a key determines its payload (the code declares the other     *)
(* case unreachable), and timestamps are reduced to "the writer has one".  *)
(***************************************************************************)
EXTENDS SequenceNumbers, Sequences

CONSTANT Guid      \* writer GUIDs; naturals, because HCKey orders them

LENGTH_UNLIMITED == -1

\* What add_change reads of the endpoint's QoS, and which endpoint it is.
Qos == [hc_type     : {"Reader", "Writer"},
        is_reliable : BOOLEAN,
        max_samples : {LENGTH_UNLIMITED} \cup Nat,
        history     : {"KeepLast", "KeepAll"},
        depth       : Nat \ {0}]

ASSUME GuidAssumption == Guid \subseteq Nat /\ Guid # {}

HCKey == [guid : Guid, seq_num : SeqNum]

\* Ord for HCKey: by sequence number, then by GUID.
KeyLess(a, b) == \/ a.seq_num < b.seq_num
                 \/ a.seq_num = b.seq_num /\ a.guid < b.guid

\* The fields of a cache.  That ts2key is a sequence of keys is part of
\* InsertionOrdered, which relates it to the samples.
IsCache(h) ==
  h \in [changes            : SUBSET HCKey,     \* the samples held
         ts2key             : {h.ts2key},       \* their keys in insertion order
         kind2key           : SUBSET HCKey,     \* the keys of kind Alive
         unprocessed_seqnum : SUBSET SeqNum,    \* Writer: not yet seen by the RTPS Writer
         taken_key          : SUBSET HCKey,     \* Reader: taken, not yet reported
         ready_key          : SUBSET HCKey,     \* Reader: visible to take()
         last_added         : SUBSET Guid]      \* writers with a last-added timestamp

\* ts2key lists the samples held, each of them once.
InsertionOrdered(h) ==
  /\ h.ts2key \in Seq(HCKey)
  /\ {h.ts2key[i] : i \in DOMAIN h.ts2key} = h.changes
  /\ Len(h.ts2key) = Cardinality(h.changes)

\* The kind index names the samples held, and only they are ready.
LookupIndexed(h) == h.kind2key = h.changes /\ h.ready_key \subseteq h.changes

\* A sample that waits for the RTPS Writer is held.
UnprocessedHeld(h) == \A n \in h.unprocessed_seqnum : \E k \in h.changes : k.seq_num = n

EmptyCache == [changes            |-> {},
               ts2key             |-> << >>,
               kind2key           |-> {},
               unprocessed_seqnum |-> {},
               taken_key          |-> {},
               ready_key          |-> {},
               last_added         |-> {}]

-----------------------------------------------------------------------------
(* Methods of HistoryCache, as operators from a cache to a cache. *)

\* The sequence s without the elements of S.
Without(s, S) ==
  LET Kept[i \in 0..Len(s)] ==
        IF i = 0 THEN << >>
        ELSE IF s[i] \in S THEN Kept[i - 1] ELSE Append(Kept[i - 1], s[i])
  IN  Kept[Len(s)]

\* Mutants of RemoveChanges: the indexes are not kept up to date; an unprocessed
\* change is removed too.
RemoveChangesKeepsIndexes(h, S, taken) ==
  [h EXCEPT !.changes = @ \ {k \in S : k.seq_num \notin h.unprocessed_seqnum}]
RemoveChangesUnprocessed(h, S, taken) ==
  [h EXCEPT !.changes   = @ \ S,
            !.taken_key = IF taken THEN @ \cup (S \cap h.changes) ELSE @,
            !.ready_key = @ \ S,
            !.kind2key  = @ \ S,
            !.ts2key    = Without(@, S)]

\* remove_change, applied to every key of the set S.  A change the RTPS
\* Writer has not processed yet is never removed.
RemoveChanges(h, S, taken) ==
  LET gone   == {k \in S : k.seq_num \notin h.unprocessed_seqnum}
      cached == gone \cap h.changes
  IN  [h EXCEPT !.changes   = @ \ gone,
                !.taken_key = IF taken THEN @ \cup cached ELSE @,
                !.ready_key = @ \ cached,
                !.kind2key  = @ \ cached,
                !.ts2key    = Without(@, gone)]

RemoveChange(h, k, taken) == RemoveChanges(h, {k}, taken)

\* Mutant of BeyondDepth: one sample too many is kept.
BeyondDepthPlusOne(S, depth) ==
  {k \in S : Cardinality({j \in S : KeyLess(k, j)}) > depth}

\* The keys add_change deletes for KeepLast: all but the depth largest.
BeyondDepth(S, depth) ==
  {k \in S : Cardinality({j \in S : KeyLess(k, j)}) >= depth}

\* Mutant of AtLimit: the sample to add is not counted.
AtLimitTooLate(h, q) == /\ q.max_samples # LENGTH_UNLIMITED
                        /\ Cardinality(h.changes) > q.max_samples

\* add_change has no room: the test that compares len() + 1 with max_samples.
AtLimit(h, q) == /\ q.max_samples # LENGTH_UNLIMITED
                 /\ Cardinality(h.changes) + 1 >= q.max_samples

\* Mutant of Refresh: the wrong number is marked.
RefreshPrevious(h, k, q) ==
  [h EXCEPT !.last_added = @ \cup {k.guid},
            !.unprocessed_seqnum =
               IF q.hc_type = "Writer" THEN @ \cup {k.seq_num - 1} ELSE @]

\* add_change on a known key with the same payload.
Refresh(h, k, q) ==
  [h EXCEPT !.last_added = @ \cup {k.guid},
            !.unprocessed_seqnum =
               IF q.hc_type = "Writer" THEN @ \cup {k.seq_num} ELSE @]

\* add_change on a new key once there is room for it.
Insert(h, k, q) ==
  LET put == [h EXCEPT !.last_added = @ \cup {k.guid},
                       !.ts2key     = Append(@, k),
                       !.kind2key   = @ \cup {k},
                       !.changes    = @ \cup {k}]
  IN  IF q.hc_type = "Writer"
      THEN [put EXCEPT !.unprocessed_seqnum = @ \cup {k.seq_num}]
      ELSE IF q.history = "KeepLast"
           THEN RemoveChanges(put, BeyondDepth(put.changes, q.depth), FALSE)
           ELSE put

\* What add_change answers: Ok, WouldBlock, or the panic of ts2key[0] on an
\* empty vector.
AddChangeResult(h, k, q) ==
  CASE k \in h.changes                                        -> "Ok"
    [] k \notin h.changes /\ ~AtLimit(h, q)                   -> "Ok"
    [] k \notin h.changes /\ AtLimit(h, q) /\ q.is_reliable   ->
         IF q.hc_type = "Writer" THEN "WouldBlock" ELSE "Ok"
    [] k \notin h.changes /\ AtLimit(h, q) /\ ~q.is_reliable  ->
         IF h.ts2key = << >> THEN "Panic" ELSE "Ok"

\* The cache add_change leaves behind (when it does not panic).
AddChange(h, k, q) ==
  CASE k \in h.changes                                        -> Refresh(h, k, q)
    [] k \notin h.changes /\ ~AtLimit(h, q)                   -> Insert(h, k, q)
    [] k \notin h.changes /\ AtLimit(h, q) /\ q.is_reliable   -> h
    [] k \notin h.changes /\ AtLimit(h, q) /\ ~q.is_reliable  ->
         Insert(RemoveChange(h, Head(h.ts2key), FALSE), k, q)

GetUnprocessed(h) == [h EXCEPT !.unprocessed_seqnum = {}]

GetTaken(h) == [h EXCEPT !.taken_key = {}]

\* Mutant of TakenLessThan: the number itself is reported too.
TakenUpTo(h, guid, n) == {k \in h.taken_key : k.guid = guid /\ k.seq_num <= n}

\* get_taken_less_than: the keys it returns, and the cache it leaves.
TakenLessThan(h, guid, n) == {k \in h.taken_key : k.guid = guid /\ k.seq_num < n}

GetTakenLessThan(h, guid, n) == [h EXCEPT !.taken_key = @ \ TakenLessThan(h, guid, n)]

Flush(h) == [h EXCEPT !.ready_key = @ \cup h.changes]

\* get_ready_changes looks every ready Alive key up in changes.
ReadyKeys(h)     == h.kind2key \cap h.ready_key
ReadyLookupOK(h) == ReadyKeys(h) \subseteq h.changes

\* DataReader::get_data: read the ready changes and remove them, one lock.
TakeReady(h) == RemoveChanges(h, ReadyKeys(h), TRUE)

RemoveFromWriter(h, guid) ==
  RemoveChanges(h, {k \in h.changes : k.guid = guid}, FALSE)

RemoveIfExist(h, k) == IF k \in h.changes THEN RemoveChange(h, k, FALSE) ELSE h

\* get_seq_num_min / get_seq_num_max skip unprocessed changes; 0 if none is left.
Announced(h) == {k.seq_num : k \in h.changes} \ h.unprocessed_seqnum
SeqNumMin(h) == MinOrZero(Announced(h))
SeqNumMax(h) == MaxOrZero(Announced(h))

=============================================================================
