--------------------------- MODULE StatefulWriter ---------------------------
(***************************************************************************)
(* The decisions of the RTPS Writer (src/src/rtps/writer.rs) that its      *)
(* handlers share: which readers are to get a new change, which changes    *)
(* are acknowledged, and what a new ReaderProxy starts from.               *)
(***************************************************************************)
EXTENDS HistoryCache, Proxies

CONSTANTS
  Readers,           \* the remote readers
  WriterGuid,        \* the writer
  WriterQos,         \* its QoS, as add_change sees it
  Durability         \* "Volatile" or "TransientLocal"

ASSUME WriterGuidAssumption == WriterGuid \in Guid
ASSUME WriterQosAssumption  == WriterQos \in Qos /\ WriterQos.hc_type = "Writer"
ASSUME DurabilityAssumption == Durability \in {"Volatile", "TransientLocal"}

Key(n) == [guid |-> WriterGuid, seq_num |-> n]

\* Mutant of IsAckedByAll: one reader is enough.
IsAckedByOne(p, m, n) == \E r \in m : IsAcked(p[r], n)

\* is_acked_by_all, for the proxies p of the matched readers m.
IsAckedByAll(p, m, n) == \A r \in m : IsAcked(p[r], n)

\* is_acked_all_changes.
IsAckedAllChanges(h, p, m) == \A k \in h.changes : IsAckedByAll(p, m, k.seq_num)

\* What remove_acked_changes(base) finds: a TransientLocal writer keeps base.
AckedChanges(h, p, m, base) ==
  LET limit == IF Durability = "Volatile" THEN base ELSE base - 1
  IN  {k \in h.changes : k.seq_num <= limit /\ IsAckedByAll(p, m, k.seq_num)}

\* The ReaderProxies after the states of the numbers in S are dropped.
ForgetStates(p, m, S) ==
  [r \in Readers |-> IF r \in m THEN RemoveReaderCacheState(p[r], S) ELSE p[r]]

\* Which of the new changes S every reader is to get: with KeepLast, the
\* newest ones of the batch only.
IsRelevant(n, S) ==
  LET newer == Cardinality({m \in S : m > n})
  IN  \/ WriterQos.history = "KeepAll"
      \/ Durability = "Volatile"       /\ newer < WriterQos.depth
      \/ Durability = "TransientLocal" /\ newer <= WriterQos.depth

\* handle_write_data_cmd registers the new changes S with every ReaderProxy.
RegisterUnsent(p, m, S) ==
  [r \in Readers |-> IF r \in m
                     THEN UpdateCacheState(p[r], S, LAMBDA n : IsRelevant(n, S), "Unsent")
                     ELSE p[r]]

\* ReaderProxy::new over the writer's cache.
ProxyOf(h, durability) ==
  NewReaderProxy({k.seq_num : k \in h.changes},
                 IF h.ts2key = << >> THEN 0 ELSE h.ts2key[Len(h.ts2key)].seq_num,
                 durability)

\* Mutant of HeartbeatFirst: off by one.
HeartbeatFirstPlusOne(h) == SeqNumMin(h) + 1

\* The range a HEARTBEAT announces; an empty cache has none (first = 0).
HeartbeatFirst(h) == SeqNumMin(h)
HeartbeatLast(h)  == SeqNumMax(h)
CanAnnounce(h) == HeartbeatFirst(h) > 0 /\ HeartbeatLast(h) >= HeartbeatFirst(h) - 1
=============================================================================
