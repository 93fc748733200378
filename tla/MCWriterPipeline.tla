-------------------------- MODULE MCWriterPipeline --------------------------
EXTENDS WriterPipeline

MCGuid    == {1}
MCSeqNum3 == 1..3

WriterWith(reliable, max, history, depth) ==
  [hc_type |-> "Writer", is_reliable |-> reliable, max_samples |-> max,
   history |-> history, depth |-> depth]

\* Reliable, room for two samples (the limit is one more than the code uses).
MCReliable   == WriterWith(TRUE, 3, "KeepAll", 1)
MCBestEffort == WriterWith(FALSE, -1, "KeepLast", 2)
=============================================================================
