--------------------------- MODULE MCSharedCache ----------------------------
EXTENDS SharedCache

\* Two writers, three sequence numbers: enough for KeepLast to choose between
\* writers and for eviction, refresh and retransmission to meet.
MCGuid   == {1, 2}
MCSeqNum == 1..3

Choice(t, r, m, h, d) == [hc_type |-> t, is_reliable |-> r, max_samples |-> m,
                          history |-> h, depth |-> d]

\* Every kind of endpoint, without a limit and with one, for which the limit is
\* respected.
MCQosChoices ==
  {Choice("Writer", TRUE,  m, h, 1) : m \in {-1, 3}, h \in {"KeepAll", "KeepLast"}}
    \cup {Choice("Writer", FALSE, -1, "KeepAll", 1)}
    \cup {Choice("Reader", TRUE, -1, "KeepAll", 1)}
    \cup {Choice("Reader", r, 3, "KeepAll", 1)     : r \in BOOLEAN}
    \cup {Choice("Reader", r, m, "KeepLast", d) : r \in BOOLEAN, m \in {-1, 3}, d \in {1, 2}}
=============================================================================
