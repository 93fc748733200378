---------------------------- MODULE MCDiscovery -----------------------------
(***************************************************************************)
(* Discovery for TLC: participant p1 has Writer 1, p2 has Reader 2, which  *)
(* matches it, and, where Count is 3, Reader 3 of the same topic with      *)
(* another topic kind.                                                     *)
(***************************************************************************)
EXTENDS Discovery, TLC

CONSTANTS p1, p2, Count

MCParticipants == {p1, p2}
MCEndpoints  == 1..Count
MCMortal     == {p1}
MCSeqNum     == 1..2
MCOwner      == [e \in MCEndpoints |-> IF e = 1 THEN p1 ELSE p2]
MCRole       == [e \in MCEndpoints |-> IF e = 1 THEN "Writer" ELSE "Reader"]
MCTopic      == [e \in MCEndpoints |-> "square"]
MCTopicKind  == [e \in MCEndpoints |-> IF e = 3 THEN "NoKey" ELSE "WithKey"]

\* The Topic asks for TransientLocal; Reader 2 is reliable, Reader 3 has the
\* QoS of a Subscriber.
MCSettings ==
  [e \in MCEndpoints |->
     [use_default |-> e = 3,
      topic       |-> [durability |-> "TransientLocal"],
      default     |-> << >>,
      own         |-> IF e = 2 THEN [reliability |-> DefaultReliability("Reliable")]
                      ELSE [reliability |-> DefaultReliability("Reliable"),
                            deadline |-> [seconds |-> 1, fraction |-> 0]]]]
=============================================================================
