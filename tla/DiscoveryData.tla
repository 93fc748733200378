--------------------------- MODULE DiscoveryData ----------------------------
(***************************************************************************)
(* The QoS of an endpoint on its way through SEDP: written into a list of  *)
(* parameters by write_to of ReaderProxy and WriterProxy                   *)
(* (src/src/structure/proxy.rs), read back by read_from of SDPBuiltinData  *)
(* and turned into a proxy by gen_readerpoxy and gen_writerproxy           *)
(* (src/src/discovery/structure/data.rs).  A parameter is its identifier,  *)
(* its length and words of four bytes.  read_from does not look at the     *)
(* length of a parameter it knows: it takes as many words as the value     *)
(* needs, and reads the next parameter from there.  Names, locators and    *)
(* GUIDs are left out.                                                     *)
(***************************************************************************)
EXTENDS Qos

\* The policies that are sent, and the bytes declared for them.
AnnouncedPolicies(role) ==
  PolicyNames(role) \ {"writer_data_lifecycle", "reader_data_lifecycle"}

PadLen(n) == (4 - (n % 4)) % 4
AsU16(n) == n % 65536

ParameterLength(p, v) ==
  CASE p \in {"durability", "destination_order", "ownership", "ownership_strength",
              "transport_priority"} -> 4
    [] p \in {"deadline", "latency_budget", "lifespan", "time_based_filter", "history"} -> 8
    [] p \in {"liveliness", "reliability", "resource_limits"} -> 12
    [] p = "durability_service" -> 28
    [] p = "user_data" -> AsU16(4 + v.length + PadLen(v.length))

-----------------------------------------------------------------------------
(* write_to: an enumeration is written as its discriminant. *)

Rank(p) == CASE p = "durability"        -> DurabilityRank
             [] p = "destination_order" -> DestinationOrderRank
             [] p = "ownership"         -> OwnershipRank

DurationWords(d)       == <<d.seconds, d.fraction>>
HistoryWords(v)        == <<HistoryRank[v.kind], v.depth>>
LivelinessWords(v)     == <<LivelinessRank[v.kind]>> \o DurationWords(v.lease_duration)
ReliabilityWords(v)    == <<ReliabilityRank[v.kind]>> \o DurationWords(v.max_bloking_time)
ResourceLimitsWords(v) == <<v.max_samples, v.max_instance, v.max_samples_per_instanse>>
UserDataWords(v)       == <<v.length>> \o v.cells
DurabilityServiceWords(v) ==
  DurationWords(v.service_cleanup_delay)
    \o <<HistoryRank[v.history_kind], v.history_depth,
         v.max_samples, v.max_instance, v.max_samples_per_instanse>>

Encode(p, v) ==
  CASE p \in {"durability", "destination_order", "ownership"} -> <<Rank(p)[v]>>
    [] p \in {"ownership_strength", "transport_priority"} -> <<v>>
    [] p \in {"deadline", "latency_budget", "lifespan", "time_based_filter"} -> DurationWords(v)
    [] p = "history"            -> HistoryWords(v)
    [] p = "liveliness"         -> LivelinessWords(v)
    [] p = "reliability"        -> ReliabilityWords(v)
    [] p = "resource_limits"    -> ResourceLimitsWords(v)
    [] p = "durability_service" -> DurabilityServiceWords(v)
    [] p = "user_data"          -> UserDataWords(v)

-----------------------------------------------------------------------------
(* read_from: the value of a parameter whose words stand in s after position *)
(* i, and the words it takes.                                                *)

Named(rank, n) == CHOOSE k \in DOMAIN rank : rank[k] = n

\* read_from of LivelinessQosKind exchanges the two manual kinds.
DecodeLiveliness(n) ==
  CASE n = 0 -> "Automatic" [] n = 1 -> "ManualByTopic" [] n = 2 -> "ManualByParticipant"

DurationAt(s, i)    == [seconds |-> s[i + 1], fraction |-> s[i + 2]]
HistoryAt(s, i)     == [kind |-> Named(HistoryRank, s[i + 1]), depth |-> s[i + 2]]
LivelinessAt(s, i)  == [kind |-> DecodeLiveliness(s[i + 1]), lease_duration |-> DurationAt(s, i + 1)]
ReliabilityAt(s, i) == [kind |-> Named(ReliabilityRank, s[i + 1]),
                        max_bloking_time |-> DurationAt(s, i + 1)]
ResourceLimitsAt(s, i) == [max_samples |-> s[i + 1], max_instance |-> s[i + 2],
                           max_samples_per_instanse |-> s[i + 3]]
DurabilityServiceAt(s, i) ==
  [service_cleanup_delay |-> DurationAt(s, i),
   history_kind |-> Named(HistoryRank, s[i + 3]), history_depth |-> s[i + 4],
   max_samples |-> s[i + 5], max_instance |-> s[i + 6], max_samples_per_instanse |-> s[i + 7]]

Cells(n)         == (n + PadLen(n)) \div 4
UserDataAt(s, i) == [length |-> s[i + 1], cells |-> [k \in 1..Cells(s[i + 1]) |-> s[i + 1 + k]]]

Decode(p, s, i) ==
  CASE p \in {"durability", "destination_order", "ownership"} -> Named(Rank(p), s[i + 1])
    [] p \in {"ownership_strength", "transport_priority"} -> s[i + 1]
    [] p \in {"deadline", "latency_budget", "lifespan", "time_based_filter"} -> DurationAt(s, i)
    [] p = "history"            -> HistoryAt(s, i)
    [] p = "liveliness"         -> LivelinessAt(s, i)
    [] p = "reliability"        -> ReliabilityAt(s, i)
    [] p = "resource_limits"    -> ResourceLimitsAt(s, i)
    [] p = "durability_service" -> DurabilityServiceAt(s, i)
    [] p = "user_data"          -> UserDataAt(s, i)

WordsRead(p, s, i) ==
  CASE p \in {"durability", "destination_order", "ownership", "ownership_strength",
              "transport_priority"} -> 1
    [] p \in {"deadline", "latency_budget", "lifespan", "time_based_filter", "history"} -> 2
    [] p \in {"liveliness", "reliability", "resource_limits"} -> 3
    [] p = "durability_service" -> 7
    [] p = "user_data" -> 1 + Cells(s[i + 1])

-----------------------------------------------------------------------------
(* What the other side makes of an announcement. *)

\* SEDP from write_to to gen_writerproxy and gen_readerpoxy: what is not sent
\* has the default of the builder.
OnTheWire(role, q) ==
  [p \in PolicyNames(role) |->
     IF p \in AnnouncedPolicies(role) THEN Decode(p, Encode(p, q[p]), 0)
     ELSE DefaultPolicies(BuilderReliability(role))[p]]

\* DataWriterQosPolicies::is_compatible with the Reader's announced QoS, and
\* DataReaderQosPolicies::is_compatible with the Writer's.
WriterAccepts(offered, requested) == Compatible(offered, OnTheWire("Reader", requested))
ReaderAccepts(requested, offered) == Compatible(OnTheWire("Writer", offered), requested)
=============================================================================
