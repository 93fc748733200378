------------------------- MODULE MCReliableProtocol -------------------------
(***************************************************************************)
(* ReliableProtocol for TLC: readers of one participant.                   *)
(***************************************************************************)
EXTENDS ReliableProtocol

MCGuid    == {1}
MCSeqNum3 == 1..3

QosOf(type, reliable) ==
  [hc_type |-> type, is_reliable |-> reliable, max_samples |-> -1,
   history |-> "KeepAll", depth |-> 1]

MCReaders    == {1, 2}
MCWriterQos  == QosOf("Writer", TRUE)
MCMixedQos   == [r \in Readers |-> QosOf("Reader", r = 1)]
MCReliable   == [r \in Readers |-> QosOf("Reader", TRUE)]
MCHost       == [r \in Readers |-> "a"]
MCEntityId   == [r \in Readers |-> r]
=============================================================================
