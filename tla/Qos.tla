-------------------------------- MODULE Qos ---------------------------------
(***************************************************************************)
(* The QoS policies of DataWriters and DataReaders (src/src/dds/qos.rs):   *)
(* how the QoS of an endpoint is combined from its Topic, its Publisher or *)
(* Subscriber and its own settings, and the offered/requested comparison.  *)
(* The policies of Participants, Publishers and Subscribers are not read   *)
(* by anything.                                                            *)
(***************************************************************************)
EXTENDS Integers, Sequences

CONSTANTS
  NanosPerSecond,       \* 10^9
  FractionsPerSecond,   \* 2^32
  MaxSeconds            \* 0x7fffffff

ASSUME DurationAssumption ==
  /\ NanosPerSecond \in Nat \ {0}
  /\ FractionsPerSecond \in Nat \ {0}
  /\ MaxSeconds \in Nat

-----------------------------------------------------------------------------
(* Duration (src/src/structure/duration.rs) *)

Duration == [seconds : 0..MaxSeconds, fraction : 0..FractionsPerSecond - 1]
INFINITE == [seconds |-> MaxSeconds, fraction |-> FractionsPerSecond - 1]
ZERO     == [seconds |-> 0, fraction |-> 0]

LENGTH_UNLIMITED == -1

\* Ord::cmp adds fractions, which are parts of 2^32, to nanoseconds.
Nanos(d)     == d.seconds * NanosPerSecond + d.fraction
NotLonger(c, d) == Nanos(c) <= Nanos(d)

-----------------------------------------------------------------------------
(* Policies *)

\* The discriminants of the enumerations, which `as usize` and write_to use.
DurabilityRank       == [Volatile |-> 0, TransientLocal |-> 1]
OwnershipRank        == [Shared |-> 0, Exclusive |-> 1]
LivelinessRank       == [Automatic |-> 0, ManualByParticipant |-> 1, ManualByTopic |-> 2]
ReliabilityRank      == [BestEffort |-> 1, Reliable |-> 2]
DestinationOrderRank == [ByReceptionTimestamp |-> 0, BySourceTimestamp |-> 1]
HistoryRank          == [KeepLast |-> 0, KeepAll |-> 1]

Liveliness     == [kind : DOMAIN LivelinessRank, lease_duration : Duration]
Reliability    == [kind : DOMAIN ReliabilityRank, max_bloking_time : Duration]
History        == [kind : DOMAIN HistoryRank, depth : Int]
ResourceLimits == [max_samples : Int, max_instance : Int, max_samples_per_instanse : Int]
DurabilityService == [service_cleanup_delay : Duration, history_kind : DOMAIN HistoryRank,
                      history_depth : Int, max_samples : Int, max_instance : Int,
                      max_samples_per_instanse : Int]

\* UserData: a number of bytes, and the bytes four at a time.
UserData == {u \in [length : Nat, cells : Seq(Int)] : Len(u.cells) = (u.length + 3) \div 4}

DataWriterQosPolicies ==
  [durability : DOMAIN DurabilityRank, durability_service : DurabilityService,
   deadline : Duration, latency_budget : Duration, liveliness : Liveliness,
   reliability : Reliability, destination_order : DOMAIN DestinationOrderRank,
   history : History, resource_limits : ResourceLimits, transport_priority : Int,
   lifespan : Duration, user_data : UserData, ownership : DOMAIN OwnershipRank,
   ownership_strength : Int, writer_data_lifecycle : BOOLEAN]

DataReaderQosPolicies ==
  [durability : DOMAIN DurabilityRank, deadline : Duration, latency_budget : Duration,
   liveliness : Liveliness, reliability : Reliability,
   destination_order : DOMAIN DestinationOrderRank, history : History,
   resource_limits : ResourceLimits, user_data : UserData,
   ownership : DOMAIN OwnershipRank, time_based_filter : Duration,
   reader_data_lifecycle : [autopurge_nowriter_samples_delay : Duration,
                            autopurge_dispose_samples_delay : Duration]]

\* The policies of both roles, those of one role, and those a Topic can set.
CommonPolicies == {"durability", "deadline", "latency_budget", "liveliness", "reliability",
                   "destination_order", "history", "resource_limits", "user_data", "ownership"}

PolicyNames(role) ==
  CommonPolicies \cup
    (IF role = "Writer"
     THEN {"durability_service", "transport_priority", "lifespan", "ownership_strength",
           "writer_data_lifecycle"}
     ELSE {"time_based_filter", "reader_data_lifecycle"})

TopicPolicyNames ==
  (CommonPolicies \ {"user_data"}) \cup {"durability_service", "transport_priority", "lifespan"}

\* Reliability::default_besteffort and default_reliable: 100 ms.
DefaultReliability(kind) ==
  [kind |-> kind, max_bloking_time |-> [seconds |-> 0, fraction |-> FractionsPerSecond \div 10]]

\* Default::default of every policy.
DefaultPolicies(kind) ==
  [durability            |-> "Volatile",
   durability_service    |-> [service_cleanup_delay |-> ZERO, history_kind |-> "KeepLast",
                              history_depth |-> 1, max_samples |-> LENGTH_UNLIMITED,
                              max_instance |-> LENGTH_UNLIMITED,
                              max_samples_per_instanse |-> LENGTH_UNLIMITED],
   deadline              |-> INFINITE,
   latency_budget        |-> ZERO,
   liveliness            |-> [kind |-> "Automatic", lease_duration |-> INFINITE],
   reliability           |-> DefaultReliability(kind),
   destination_order     |-> "ByReceptionTimestamp",
   history               |-> [kind |-> "KeepLast", depth |-> 1],
   resource_limits       |-> [max_samples |-> LENGTH_UNLIMITED, max_instance |-> LENGTH_UNLIMITED,
                              max_samples_per_instanse |-> LENGTH_UNLIMITED],
   transport_priority    |-> 0,
   lifespan              |-> INFINITE,
   user_data             |-> [length |-> 0, cells |-> << >>],
   ownership             |-> "Shared",
   ownership_strength    |-> 0,
   writer_data_lifecycle |-> TRUE,
   time_based_filter     |-> ZERO,
   reader_data_lifecycle |-> [autopurge_nowriter_samples_delay |-> INFINITE,
                              autopurge_dispose_samples_delay |-> INFINITE]]

\* DataReaderQosBuilder and TopicQosBuilder start from BestEffort,
\* DataWriterQosBuilder from Reliable.
BuilderReliability(role) == IF role = "Writer" THEN "Reliable" ELSE "BestEffort"

-----------------------------------------------------------------------------
(* The QoS of an endpoint.  Settings are what an application gave a builder: *)
(* a function from some of the policy names.                                 *)

Build(role, settings, default) ==
  [p \in PolicyNames(role) |-> IF p \in DOMAIN settings
                               THEN [policy |-> settings[p], explicit |-> TRUE]
                               ELSE [policy |-> default[p], explicit |-> FALSE]]

Combine(role, self, policies) ==
  [p \in PolicyNames(role) |->
     IF self[p].policy # policies[p].policy
     THEN IF policies[p].explicit THEN policies[p] ELSE self[p]
     ELSE [self[p] EXCEPT !.explicit = @ \/ (p # "reliability" /\ policies[p].explicit)]]

\* create_datawriter and create_datareader with Policies(own).
CombinedQos(role, topic, default, own) ==
  LET builder == DefaultPolicies(BuilderReliability(role))
      start   == Build(role, topic, DefaultPolicies("BestEffort"))
  IN  Combine(role, Combine(role, start, Build(role, default, builder)),
              Build(role, own, builder))

\* The same with DataWriterQos::Default and DataReaderQos::Default.
DefaultQos(role, default) == Build(role, default, DefaultPolicies(BuilderReliability(role)))

Values(qos) == [p \in DOMAIN qos |-> qos[p].policy]

-----------------------------------------------------------------------------
(* is_compatible *)

DurabilityCompatible(o, r)       == DurabilityRank[o] >= DurabilityRank[r]
DeadlineCompatible(o, r)         == r = INFINITE \/ NotLonger(o, r)
LatencyBudgetCompatible(o, r)    == NotLonger(o, r)
OwnershipCompatible(o, r)        == OwnershipRank[o] = OwnershipRank[r]
LivelinessCompatible(o, r)       == /\ LivelinessRank[o.kind] >= LivelinessRank[r.kind]
                                    /\ NotLonger(o.lease_duration, r.lease_duration)
ReliabilityCompatible(o, r)      == ReliabilityRank[o.kind] >= ReliabilityRank[r.kind]
DestinationOrderCompatible(o, r) == DestinationOrderRank[o] >= DestinationOrderRank[r]

Compatible(offered, requested) ==
  /\ DurabilityCompatible(offered.durability, requested.durability)
  /\ DeadlineCompatible(offered.deadline, requested.deadline)
  /\ LatencyBudgetCompatible(offered.latency_budget, requested.latency_budget)
  /\ OwnershipCompatible(offered.ownership, requested.ownership)
  /\ LivelinessCompatible(offered.liveliness, requested.liveliness)
  /\ ReliabilityCompatible(offered.reliability, requested.reliability)
  /\ DestinationOrderCompatible(offered.destination_order, requested.destination_order)

-----------------------------------------------------------------------------
(* What the comparison is about: the reference the code is measured by. *)

\* c is no longer than d in time.
Within(c, d) == \/ c.seconds < d.seconds
                \/ c.seconds = d.seconds /\ c.fraction <= d.fraction

\* The offered QoS keeps every promise the requested one asks for.
Honours(offered, requested) ==
  /\ DurabilityRank[offered.durability] >= DurabilityRank[requested.durability]
  /\ Within(offered.deadline, requested.deadline)
  /\ Within(offered.latency_budget, requested.latency_budget)
  /\ offered.ownership = requested.ownership
  /\ LivelinessRank[offered.liveliness.kind] >= LivelinessRank[requested.liveliness.kind]
  /\ Within(offered.liveliness.lease_duration, requested.liveliness.lease_duration)
  /\ ReliabilityRank[offered.reliability.kind] >= ReliabilityRank[requested.reliability.kind]
  /\ DestinationOrderRank[offered.destination_order] >= DestinationOrderRank[requested.destination_order]
=============================================================================
