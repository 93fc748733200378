----------------------------- MODULE QosProofs ------------------------------
(***************************************************************************)
(* What Qos.tla and DiscoveryData.tla say of every QoS: which setting an   *)
(* endpoint ends up with, what of it reaches the other side, when the two  *)
(* sides of a match agree, and when the comparison does what it is for.    *)
(***************************************************************************)
EXTENDS DiscoveryData, TLAPS

\* The policy that counts is the last one that was set explicitly, in the order
\* Topic, Publisher or Subscriber, endpoint; a policy nobody set has the default
\* of the Topic (combine, create_datawriter_with_entityid).
THEOREM LastExplicitWins ==
  ASSUME NEW role, NEW topic, NEW default, NEW own, NEW p \in PolicyNames(role)
  PROVE  Values(CombinedQos(role, topic, default, own))[p] =
           IF p \in DOMAIN own THEN own[p]
           ELSE IF p \in DOMAIN default THEN default[p]
           ELSE IF p \in DOMAIN topic THEN topic[p]
           ELSE DefaultPolicies("BestEffort")[p]
<1> DEFINE builder == DefaultPolicies(BuilderReliability(role))
           t == Build(role, topic, DefaultPolicies("BestEffort"))
           d == Build(role, default, builder)
           o == Build(role, own, builder)
           c == Combine(role, t, d)
<1>1. t[p].policy = IF p \in DOMAIN topic THEN topic[p] ELSE DefaultPolicies("BestEffort")[p]
  BY DEF Build
<1>2. IF p \in DOMAIN default THEN d[p].explicit = TRUE /\ d[p].policy = default[p]
                             ELSE d[p].explicit = FALSE
  BY DEF Build
<1>3. IF p \in DOMAIN own THEN o[p].explicit = TRUE /\ o[p].policy = own[p]
                             ELSE o[p].explicit = FALSE
  BY DEF Build
<1> HIDE DEF t, d, o
<1>4. c[p].policy = IF p \in DOMAIN default THEN default[p] ELSE t[p].policy
  BY <1>2 DEF Combine
<1> HIDE DEF c
<1>5. Combine(role, c, o)[p].policy = IF p \in DOMAIN own THEN own[p] ELSE c[p].policy
  BY <1>3 DEF Combine
<1>6. CombinedQos(role, topic, default, own) = Combine(role, c, o)
  BY DEF CombinedQos, c, t, d, o
<1>7. Values(Combine(role, c, o))[p] = Combine(role, c, o)[p].policy
  BY DEF Values, Combine
<1> QED
  BY <1>1, <1>4, <1>5, <1>6, <1>7

-----------------------------------------------------------------------------
(* The parameter list *)

QosPolicies(role) == IF role = "Writer" THEN DataWriterQosPolicies ELSE DataReaderQosPolicies

\* The words w stand in the stream s after position i.
StandsAt(w, s, i) == \A k \in 1..Len(w) : s[i + k] = w[k]

\* A duration, for the four policies that are one.
LEMMA DurationReadBack ==
  ASSUME NEW d \in Duration, NEW s, NEW i \in Nat,
         s[i + 1] = d.seconds, s[i + 2] = d.fraction
  PROVE  DurationAt(s, i) = d
BY DEF DurationAt, Duration

LEMMA NamedInverse ==
  /\ \A k \in DOMAIN DurabilityRank : Named(DurabilityRank, DurabilityRank[k]) = k
  /\ \A k \in DOMAIN DestinationOrderRank : Named(DestinationOrderRank, DestinationOrderRank[k]) = k
  /\ \A k \in DOMAIN OwnershipRank : Named(OwnershipRank, OwnershipRank[k]) = k
  /\ \A k \in DOMAIN ReliabilityRank : Named(ReliabilityRank, ReliabilityRank[k]) = k
  /\ \A k \in DOMAIN HistoryRank : Named(HistoryRank, HistoryRank[k]) = k
<1>1. \A k \in DOMAIN DurabilityRank : Named(DurabilityRank, DurabilityRank[k]) = k
  BY DEF Named, DurabilityRank
<1>2. \A k \in DOMAIN DestinationOrderRank : Named(DestinationOrderRank, DestinationOrderRank[k]) = k
  BY DEF Named, DestinationOrderRank
<1>3. \A k \in DOMAIN OwnershipRank : Named(OwnershipRank, OwnershipRank[k]) = k
  BY DEF Named, OwnershipRank
<1>4. \A k \in DOMAIN ReliabilityRank : Named(ReliabilityRank, ReliabilityRank[k]) = k
  BY DEF Named, ReliabilityRank
<1>5. \A k \in DOMAIN HistoryRank : Named(HistoryRank, HistoryRank[k]) = k
  BY DEF Named, HistoryRank
<1> QED
  BY <1>1, <1>2, <1>3, <1>4, <1>5

\* What arrives of the value v: the two manual liveliness kinds are exchanged.
Received(p, v) ==
  IF p = "liveliness" THEN [v EXCEPT !.kind = DecodeLiveliness(LivelinessRank[v.kind])] ELSE v

\* serialized_size counts the bytes of user data in 16 bits.
Fits(p, v) == p = "user_data" => v.length <= 65528

\* The reader takes the words the writer wrote, understands them, and the length
\* the writer declared is theirs.
ReadBack(p, v, s, i) ==
  /\ WordsRead(p, s, i) = Len(Encode(p, v))
  /\ Decode(p, s, i) = Received(p, v)
  /\ Fits(p, v) => ParameterLength(p, v) = 4 * Len(Encode(p, v))

LEMMA ReceivedAsSent ==
  ASSUME NEW p, p # "liveliness", NEW v
  PROVE  Received(p, v) = v
BY Zenon DEF Received

LEMMA TwoWords ==
  ASSUME NEW a, NEW b, NEW s, NEW i \in Nat, StandsAt(<<a, b>>, s, i)
  PROVE  s[i + 1] = a /\ s[i + 2] = b
<1>1. 1 \in 1..Len(<<a, b>>) /\ 2 \in 1..Len(<<a, b>>)
  OBVIOUS
<1> QED
  BY <1>1 DEF StandsAt

LEMMA ThreeWords ==
  ASSUME NEW a, NEW b, NEW c, NEW s, NEW i \in Nat, StandsAt(<<a, b, c>>, s, i)
  PROVE  s[i + 1] = a /\ s[i + 2] = b /\ s[i + 3] = c
<1>1. \A k \in 1..3 : k \in 1..Len(<<a, b, c>>)
  OBVIOUS
<1> QED
  BY <1>1 DEF StandsAt

LEMMA SizeOfOne ==
  ASSUME NEW p \in {"durability", "destination_order", "ownership", "ownership_strength",
                    "transport_priority"}, NEW v, NEW s, NEW i
  PROVE  WordsRead(p, s, i) = 1 /\ ParameterLength(p, v) = 4
<1>1. WordsRead(p, s, i) = 1
  BY DEF WordsRead
<1>2. ParameterLength(p, v) = 4
  BY DEF ParameterLength
<1> QED
  BY <1>1, <1>2

LEMMA SizeOfTwo ==
  ASSUME NEW p \in {"deadline", "latency_budget", "lifespan", "time_based_filter", "history"},
         NEW v, NEW s, NEW i
  PROVE  WordsRead(p, s, i) = 2 /\ ParameterLength(p, v) = 8
<1>1. WordsRead(p, s, i) = 2
  BY DEF WordsRead
<1>2. ParameterLength(p, v) = 8
  BY DEF ParameterLength
<1> QED
  BY <1>1, <1>2

LEMMA SizeOfThree ==
  ASSUME NEW p \in {"liveliness", "reliability", "resource_limits"}, NEW v, NEW s, NEW i
  PROVE  WordsRead(p, s, i) = 3 /\ ParameterLength(p, v) = 12
<1>1. WordsRead(p, s, i) = 3
  BY DEF WordsRead
<1>2. ParameterLength(p, v) = 12
  BY DEF ParameterLength
<1> QED
  BY <1>1, <1>2

LEMMA SizeOfService ==
  ASSUME NEW v, NEW s, NEW i
  PROVE  WordsRead("durability_service", s, i) = 7 /\ ParameterLength("durability_service", v) = 28
<1>1. WordsRead("durability_service", s, i) = 7
  BY DEF WordsRead
<1>2. ParameterLength("durability_service", v) = 28
  BY DEF ParameterLength
<1> QED
  BY <1>1, <1>2

LEMMA EncodeDuration ==
  ASSUME NEW p \in {"deadline", "latency_budget", "lifespan", "time_based_filter"}, NEW v, NEW s, NEW i
  PROVE  Encode(p, v) = <<v.seconds, v.fraction>> /\ Decode(p, s, i) = DurationAt(s, i)
BY Zenon DEF Encode, Decode, DurationWords

LEMMA EncodeInt ==
  ASSUME NEW p \in {"ownership_strength", "transport_priority"}, NEW v, NEW s, NEW i
  PROVE  Encode(p, v) = <<v>> /\ Decode(p, s, i) = s[i + 1]
BY Zenon DEF Encode, Decode

LEMMA Sized ==
  ASSUME NEW p, NEW v, NEW s, NEW i, NEW n,
         WordsRead(p, s, i) = n, Len(Encode(p, v)) = n, ParameterLength(p, v) = 4 * n,
         Decode(p, s, i) = Received(p, v)
  PROVE  ReadBack(p, v, s, i)
BY Zenon DEF ReadBack

LEMMA EnumReadBack ==
  ASSUME NEW p \in {"durability", "destination_order", "ownership"}, NEW v \in DOMAIN Rank(p),
         NEW s, NEW i \in Nat, StandsAt(Encode(p, v), s, i)
  PROVE  ReadBack(p, v, s, i)
<1>1. Encode(p, v) = <<Rank(p)[v]>> /\ Decode(p, s, i) = Named(Rank(p), s[i + 1])
  BY Zenon DEF Encode, Decode
<1>2. Named(Rank(p), Rank(p)[v]) = v
  BY NamedInverse, Zenon DEF Rank
<1>3. s[i + 1] = Rank(p)[v] /\ Len(Encode(p, v)) = 1
  BY <1>1 DEF StandsAt
<1> QED
  BY <1>1, <1>2, <1>3, SizeOfOne, ReceivedAsSent DEF ReadBack

LEMMA IntReadBack ==
  ASSUME NEW p \in {"ownership_strength", "transport_priority"}, NEW v,
         NEW s, NEW i \in Nat, StandsAt(Encode(p, v), s, i)
  PROVE  ReadBack(p, v, s, i)
<1>1. s[i + 1] = v /\ Len(Encode(p, v)) = 1
  BY EncodeInt DEF StandsAt
<1> QED
  BY <1>1, EncodeInt, SizeOfOne, ReceivedAsSent DEF ReadBack

LEMMA DurationPolicyReadBack ==
  ASSUME NEW p \in {"deadline", "latency_budget", "lifespan", "time_based_filter"},
         NEW v \in Duration, NEW s, NEW i \in Nat, StandsAt(Encode(p, v), s, i)
  PROVE  ReadBack(p, v, s, i)
<1>1. s[i + 1] = v.seconds /\ s[i + 2] = v.fraction /\ Len(Encode(p, v)) = 2
  BY EncodeDuration, TwoWords
<1> QED
  BY <1>1, EncodeDuration, DurationReadBack, SizeOfTwo, ReceivedAsSent DEF ReadBack

LEMMA HistoryReadBack ==
  ASSUME NEW v \in History, NEW s, NEW i \in Nat, StandsAt(Encode("history", v), s, i)
  PROVE  ReadBack("history", v, s, i)
<1>1. /\ Encode("history", v) = <<HistoryRank[v.kind], v.depth>>
      /\ Decode("history", s, i) = [kind |-> Named(HistoryRank, s[i + 1]), depth |-> s[i + 2]]
  BY Zenon DEF Encode, Decode, HistoryWords, HistoryAt
<1>2. s[i + 1] = HistoryRank[v.kind] /\ s[i + 2] = v.depth /\ Len(Encode("history", v)) = 2
  BY <1>1, TwoWords
<1>3. Decode("history", s, i) = v
  BY <1>1, <1>2, NamedInverse DEF History
<1>5. WordsRead("history", s, i) = 2 /\ ParameterLength("history", v) = 4 * 2
  BY SizeOfTwo
<1>6. Received("history", v) = v
  BY ReceivedAsSent
<1> QED
  BY <1>2, <1>3, <1>5, <1>6, Sized, Zenon

LEMMA LivelinessReadBack ==
  ASSUME NEW v \in Liveliness, NEW s, NEW i \in Nat, StandsAt(Encode("liveliness", v), s, i)
  PROVE  ReadBack("liveliness", v, s, i)
<1>0. Encode("liveliness", v) = LivelinessWords(v) /\ Decode("liveliness", s, i) = LivelinessAt(s, i)
  BY Zenon DEF Encode, Decode
<1>1. /\ Encode("liveliness", v) = <<LivelinessRank[v.kind], v.lease_duration.seconds,
                                    v.lease_duration.fraction>>
      /\ Decode("liveliness", s, i) =
           [kind |-> DecodeLiveliness(s[i + 1]), lease_duration |-> DurationAt(s, i + 1)]
  BY <1>0 DEF LivelinessWords, LivelinessAt, DurationWords
<1>2. /\ s[i + 1] = LivelinessRank[v.kind]
      /\ s[(i + 1) + 1] = v.lease_duration.seconds
      /\ s[(i + 1) + 2] = v.lease_duration.fraction
      /\ Len(Encode("liveliness", v)) = 3
  BY <1>1, ThreeWords
<1>3. DurationAt(s, i + 1) = v.lease_duration
  BY <1>2, DurationReadBack DEF Liveliness
<1>4. Decode("liveliness", s, i) = Received("liveliness", v)
  BY <1>1, <1>2, <1>3 DEF Received, Liveliness
<1>5. WordsRead("liveliness", s, i) = 3 /\ ParameterLength("liveliness", v) = 4 * 3
  BY SizeOfThree
<1> QED
  BY <1>2, <1>4, <1>5, Sized, Zenon

LEMMA ReliabilityReadBack ==
  ASSUME NEW v \in Reliability, NEW s, NEW i \in Nat, StandsAt(Encode("reliability", v), s, i)
  PROVE  ReadBack("reliability", v, s, i)
<1>0. Encode("reliability", v) = ReliabilityWords(v) /\ Decode("reliability", s, i) = ReliabilityAt(s, i)
  BY Zenon DEF Encode, Decode
<1>1. /\ Encode("reliability", v) = <<ReliabilityRank[v.kind], v.max_bloking_time.seconds,
                                     v.max_bloking_time.fraction>>
      /\ Decode("reliability", s, i) =
           [kind |-> Named(ReliabilityRank, s[i + 1]), max_bloking_time |-> DurationAt(s, i + 1)]
  BY <1>0 DEF ReliabilityWords, ReliabilityAt, DurationWords
<1>2. /\ s[i + 1] = ReliabilityRank[v.kind]
      /\ s[(i + 1) + 1] = v.max_bloking_time.seconds
      /\ s[(i + 1) + 2] = v.max_bloking_time.fraction
      /\ Len(Encode("reliability", v)) = 3
  BY <1>1, ThreeWords
<1>3. DurationAt(s, i + 1) = v.max_bloking_time
  BY <1>2, DurationReadBack DEF Reliability
<1>4. Decode("reliability", s, i) = v
  BY <1>1, <1>2, <1>3, NamedInverse DEF Reliability
<1>5. WordsRead("reliability", s, i) = 3 /\ ParameterLength("reliability", v) = 4 * 3
  BY SizeOfThree
<1>6. Received("reliability", v) = v
  BY ReceivedAsSent
<1> QED
  BY <1>2, <1>4, <1>5, <1>6, Sized, Zenon

LEMMA ResourceLimitsReadBack ==
  ASSUME NEW v \in ResourceLimits, NEW s, NEW i \in Nat,
         StandsAt(Encode("resource_limits", v), s, i)
  PROVE  ReadBack("resource_limits", v, s, i)
<1>1. /\ Encode("resource_limits", v) =
           <<v.max_samples, v.max_instance, v.max_samples_per_instanse>>
      /\ Decode("resource_limits", s, i) =
           [max_samples |-> s[i + 1], max_instance |-> s[i + 2],
            max_samples_per_instanse |-> s[i + 3]]
  BY Zenon DEF Encode, Decode, ResourceLimitsWords, ResourceLimitsAt
<1>2. /\ s[i + 1] = v.max_samples /\ s[i + 2] = v.max_instance
      /\ s[i + 3] = v.max_samples_per_instanse
      /\ Len(Encode("resource_limits", v)) = 3
  BY <1>1, ThreeWords
<1>3. Decode("resource_limits", s, i) = v
  BY <1>1, <1>2 DEF ResourceLimits
<1>5. WordsRead("resource_limits", s, i) = 3 /\ ParameterLength("resource_limits", v) = 4 * 3
  BY SizeOfThree
<1>6. Received("resource_limits", v) = v
  BY ReceivedAsSent
<1> QED
  BY <1>2, <1>3, <1>5, <1>6, Sized, Zenon

LEMMA DurabilityServiceReadBack ==
  ASSUME NEW v \in DurabilityService, NEW s, NEW i \in Nat,
         StandsAt(Encode("durability_service", v), s, i)
  PROVE  ReadBack("durability_service", v, s, i)
<1> DEFINE w == <<v.service_cleanup_delay.seconds, v.service_cleanup_delay.fraction,
                  HistoryRank[v.history_kind], v.history_depth,
                  v.max_samples, v.max_instance, v.max_samples_per_instanse>>
<1>0. /\ Encode("durability_service", v) = DurabilityServiceWords(v)
      /\ Decode("durability_service", s, i) = DurabilityServiceAt(s, i)
  BY Zenon DEF Encode, Decode
<1>1. /\ Encode("durability_service", v) = w
      /\ Decode("durability_service", s, i) =
           [service_cleanup_delay |-> DurationAt(s, i),
            history_kind |-> Named(HistoryRank, s[i + 3]), history_depth |-> s[i + 4],
            max_samples |-> s[i + 5], max_instance |-> s[i + 6],
            max_samples_per_instanse |-> s[i + 7]]
  BY <1>0 DEF DurabilityServiceWords, DurabilityServiceAt, DurationWords
<1>2. Len(w) = 7
  OBVIOUS
<1>3. \A k \in 1..7 : s[i + k] = w[k]
  BY <1>1, <1>2, Zenon DEF StandsAt
<1>4. /\ s[i + 1] = v.service_cleanup_delay.seconds /\ s[i + 2] = v.service_cleanup_delay.fraction
      /\ s[i + 3] = HistoryRank[v.history_kind] /\ s[i + 4] = v.history_depth
      /\ s[i + 5] = v.max_samples /\ s[i + 6] = v.max_instance
      /\ s[i + 7] = v.max_samples_per_instanse
  BY <1>3
<1>5. DurationAt(s, i) = v.service_cleanup_delay
  BY <1>4, DurationReadBack DEF DurabilityService
<1>6. Decode("durability_service", s, i) = v
  BY <1>1, <1>4, <1>5, NamedInverse DEF DurabilityService
<1>7. WordsRead("durability_service", s, i) = 7 /\ ParameterLength("durability_service", v) = 4 * 7
  BY SizeOfService
<1>8. Received("durability_service", v) = v
  BY ReceivedAsSent
<1> HIDE DEF w
<1> QED
  BY <1>1, <1>2, <1>6, <1>7, <1>8, Sized, Zenon

\* pad_len fills the last cell.
LEMMA PaddedCells ==
  ASSUME NEW n \in Nat
  PROVE  /\ PadLen(n) \in 0..3
         /\ n + PadLen(n) = 4 * ((n + 3) \div 4)
         /\ (n + PadLen(n)) \div 4 = (n + 3) \div 4
BY DEF PadLen

\* The words of user data: its length, then its cells.
LEMMA LengthAndCells ==
  ASSUME NEW n \in Int, NEW c \in Seq(Int)
  PROVE  /\ Len(<<n>> \o c) = 1 + Len(c)
         /\ (<<n>> \o c)[1] = n
         /\ \A k \in 1..Len(c) : (<<n>> \o c)[1 + k] = c[k]
OBVIOUS

LEMMA UserDataReadBack ==
  ASSUME NEW v \in UserData, NEW s, NEW i \in Nat, StandsAt(Encode("user_data", v), s, i)
  PROVE  ReadBack("user_data", v, s, i)
<1> DEFINE w == <<v.length>> \o v.cells
           m == Cells(s[i + 1])
<1>1. Encode("user_data", v) = w
  BY Zenon DEF Encode, UserDataWords
<1>2. Decode("user_data", s, i) = [length |-> s[i + 1], cells |-> [k \in 1..m |-> s[i + 1 + k]]]
  BY Zenon DEF Decode, UserDataAt
<1>3. WordsRead("user_data", s, i) = 1 + m
  BY Zenon DEF WordsRead
<1>4. ParameterLength("user_data", v) = AsU16(4 + v.length + PadLen(v.length))
  BY Zenon DEF ParameterLength
<1>5. PICK n \in Nat, c \in Seq(Int) :
        v = [length |-> n, cells |-> c] /\ Len(c) = (n + 3) \div 4
  BY DEF UserData
<1>6. v.length = n /\ v.cells = c
  BY <1>5
<1>7. w = <<n>> \o c
  BY <1>6, Zenon
<1> HIDE DEF w
<1>8. Len(w) = 1 + Len(c) /\ w[1] = n /\ \A k \in 1..Len(c) : w[1 + k] = c[k]
  BY <1>7, LengthAndCells
<1>9. \A k \in 1 .. 1 + Len(c) : s[i + k] = w[k]
  BY <1>1, <1>8 DEF StandsAt
<1>10. s[i + 1] = n
  BY <1>8, <1>9
<1>11. m = Len(c)
  BY <1>5, <1>10, PaddedCells DEF Cells
<1>12. \A k \in 1..Len(c) : s[i + 1 + k] = c[k]
  <2> SUFFICES ASSUME NEW k \in 1..Len(c) PROVE s[i + 1 + k] = c[k]
    OBVIOUS
  <2>1. 1 + k \in 1 .. 1 + Len(c) /\ i + (1 + k) = i + 1 + k
    OBVIOUS
  <2> QED
    BY <1>8, <1>9, <2>1
<1> HIDE DEF m
<1>13. [k \in 1..m |-> s[i + 1 + k]] = c
  BY <1>11, <1>12
<1>14. Decode("user_data", s, i) = v
  BY <1>2, <1>5, <1>10, <1>13, Zenon
<1>15. Received("user_data", v) = v
  BY ReceivedAsSent
<1>16. ASSUME Fits("user_data", v) PROVE AsU16(4 + n + PadLen(n)) = 4 * (1 + Len(c))
  <2>1. n <= 65528
    BY <1>6, <1>16 DEF Fits
  <2> DEFINE f == PadLen(n)
             l == Len(c)
  <2>2. l \in Nat /\ f \in 0..3 /\ n + f = 4 * l
    BY <1>5, PaddedCells
  <2> HIDE DEF f, l
  <2>3. PICK x \in Int : x = 4 + n + f /\ 0 <= x /\ x < 65536 /\ x = 4 * (1 + l)
    BY <2>1, <2>2
  <2>4. x % 65536 = x
    BY <2>3
  <2> QED
    BY <2>3, <2>4 DEF AsU16, f, l
<1> QED
  BY <1>1, <1>3, <1>4, <1>6, <1>8, <1>11, <1>14, <1>15, <1>16, Zenon DEF ReadBack

-----------------------------------------------------------------------------
(* What the other side makes of an announcement *)

\* The words of every announced policy, wherever they stand in a parameter list,
\* are taken entirely by read_from and give the value back that write_to was
\* given, but for the exchanged manual kinds.  read_from ignores the declared
\* length of a parameter it knows, so it stands at the next parameter only
\* because of this; the declared length is the right one while the user data
\* fit (ReaderProxy::write_to, WriterProxy::write_to, SDPBuiltinData::read_from).
THEOREM ParameterReadBack ==
  ASSUME NEW role \in {"Writer", "Reader"}, NEW q \in QosPolicies(role),
         NEW p \in AnnouncedPolicies(role), NEW s, NEW i \in Nat, StandsAt(Encode(p, q[p]), s, i)
  PROVE  ReadBack(p, q[p], s, i)
<1>1. CASE p \in {"durability", "destination_order", "ownership"}
  <2>1. q[p] \in DOMAIN Rank(p)
    BY <1>1 DEF Rank, QosPolicies, DataWriterQosPolicies, DataReaderQosPolicies
  <2> QED
    BY <1>1, <2>1, EnumReadBack
<1>2. CASE p \in {"ownership_strength", "transport_priority"}
  BY <1>2, IntReadBack
<1>3. CASE p \in {"deadline", "latency_budget", "lifespan", "time_based_filter"}
  <2>1. q[p] \in Duration
    BY <1>3 DEF QosPolicies, DataWriterQosPolicies, DataReaderQosPolicies, AnnouncedPolicies,
                PolicyNames, CommonPolicies
  <2> QED
    BY <1>3, <2>1, DurationPolicyReadBack
<1>4. CASE p = "history"
  BY <1>4, HistoryReadBack DEF QosPolicies, DataWriterQosPolicies, DataReaderQosPolicies
<1>5. CASE p = "liveliness"
  BY <1>5, LivelinessReadBack DEF QosPolicies, DataWriterQosPolicies, DataReaderQosPolicies
<1>6. CASE p = "reliability"
  BY <1>6, ReliabilityReadBack DEF QosPolicies, DataWriterQosPolicies, DataReaderQosPolicies
<1>7. CASE p = "resource_limits"
  BY <1>7, ResourceLimitsReadBack DEF QosPolicies, DataWriterQosPolicies, DataReaderQosPolicies
<1>8. CASE p = "durability_service"
  <2>1. role = "Writer"
    BY <1>8 DEF AnnouncedPolicies, PolicyNames, CommonPolicies
  <2> QED
    BY <1>8, <2>1, DurabilityServiceReadBack DEF QosPolicies, DataWriterQosPolicies
<1>9. CASE p = "user_data"
  BY <1>9, UserDataReadBack DEF QosPolicies, DataWriterQosPolicies, DataReaderQosPolicies
<1> QED
  BY <1>1, <1>2, <1>3, <1>4, <1>5, <1>6, <1>7, <1>8, <1>9
  DEF AnnouncedPolicies, PolicyNames, CommonPolicies

\* A QoS that went through SEDP has every announced policy as it was sent, but
\* for the exchanged manual kinds, and the default of the life cycle policies,
\* which are not sent (gen_readerpoxy, gen_writerproxy).
THEOREM AnnouncedArrives ==
  ASSUME NEW role \in {"Writer", "Reader"}, NEW q \in QosPolicies(role), NEW p \in PolicyNames(role)
  PROVE  OnTheWire(role, q)[p] =
           IF p \in AnnouncedPolicies(role) THEN Received(p, q[p])
           ELSE DefaultPolicies(BuilderReliability(role))[p]
<1>1. CASE p \in AnnouncedPolicies(role)
  <2>1. \A w : StandsAt(w, w, 0)
    BY DEF StandsAt
  <2>2. ReadBack(p, q[p], Encode(p, q[p]), 0)
    BY <1>1, <2>1, ParameterReadBack
  <2>3. Decode(p, Encode(p, q[p]), 0) = Received(p, q[p])
    BY <2>2, Zenon DEF ReadBack
  <2> QED
    BY <1>1, <2>3, Zenon DEF OnTheWire
<1>2. CASE p \notin AnnouncedPolicies(role)
  BY <1>2, Zenon DEF OnTheWire
<1> QED
  BY <1>1, <1>2

-----------------------------------------------------------------------------
(* The two sides *)

LEMMA Decoded ==
  ASSUME NEW role \in {"Writer", "Reader"}, NEW q \in QosPolicies(role)
  PROVE  /\ OnTheWire(role, q).durability = q.durability
         /\ OnTheWire(role, q).deadline = q.deadline
         /\ OnTheWire(role, q).latency_budget = q.latency_budget
         /\ OnTheWire(role, q).ownership = q.ownership
         /\ OnTheWire(role, q).reliability = q.reliability
         /\ OnTheWire(role, q).destination_order = q.destination_order
         /\ OnTheWire(role, q).liveliness =
              [kind |-> DecodeLiveliness(LivelinessRank[q.liveliness.kind]),
               lease_duration |-> q.liveliness.lease_duration]
<1>1. \A p \in CommonPolicies : p \in PolicyNames(role) /\ p \in AnnouncedPolicies(role)
  BY DEF AnnouncedPolicies, PolicyNames, CommonPolicies
<1>2. \A p \in CommonPolicies : OnTheWire(role, q)[p] = Received(p, q[p])
  BY <1>1, AnnouncedArrives
<1>3. \A p \in CommonPolicies \ {"liveliness"} : OnTheWire(role, q)[p] = q[p]
  BY <1>2, ReceivedAsSent
<1>4. Received("liveliness", q.liveliness) =
        [kind |-> DecodeLiveliness(LivelinessRank[q.liveliness.kind]),
         lease_duration |-> q.liveliness.lease_duration]
  <2>1. q.liveliness \in Liveliness
    BY DEF QosPolicies, DataWriterQosPolicies, DataReaderQosPolicies
  <2> QED
    BY <2>1 DEF Received, Liveliness
<1> QED
  BY <1>2, <1>3, <1>4 DEF CommonPolicies

LEMMA BothDecoded ==
  ASSUME NEW o \in DataWriterQosPolicies, NEW r \in DataReaderQosPolicies
  PROVE  /\ o \in QosPolicies("Writer") /\ r \in QosPolicies("Reader")
         /\ o.liveliness \in Liveliness /\ r.liveliness \in Liveliness
         /\ OnTheWire("Writer", o).liveliness.kind = DecodeLiveliness(LivelinessRank[o.liveliness.kind])
         /\ OnTheWire("Reader", r).liveliness.kind = DecodeLiveliness(LivelinessRank[r.liveliness.kind])
         /\ OnTheWire("Writer", o).liveliness.lease_duration = o.liveliness.lease_duration
         /\ OnTheWire("Reader", r).liveliness.lease_duration = r.liveliness.lease_duration
<1>1. o \in QosPolicies("Writer") /\ r \in QosPolicies("Reader")
  BY DEF QosPolicies
<1>2. o.liveliness \in Liveliness /\ r.liveliness \in Liveliness
  BY DEF DataWriterQosPolicies, DataReaderQosPolicies
<1>3. /\ OnTheWire("Writer", o).liveliness =
           [kind |-> DecodeLiveliness(LivelinessRank[o.liveliness.kind]),
            lease_duration |-> o.liveliness.lease_duration]
      /\ OnTheWire("Reader", r).liveliness =
           [kind |-> DecodeLiveliness(LivelinessRank[r.liveliness.kind]),
            lease_duration |-> r.liveliness.lease_duration]
  BY <1>1, Decoded
<1> QED
  BY <1>1, <1>2, <1>3

\* How the exchange compares: kinds k of the Writer and l of the Reader.
LEMMA ExchangedRanks ==
  ASSUME NEW k \in DOMAIN LivelinessRank, NEW l \in DOMAIN LivelinessRank
  PROVE  /\ (k = l => l = "Automatic") =>
              (LivelinessRank[k] >= LivelinessRank[DecodeLiveliness(LivelinessRank[l])]
                 <=> LivelinessRank[DecodeLiveliness(LivelinessRank[k])] >= LivelinessRank[l])
         /\ k = l /\ l # "Automatic" =>
              ~(/\ LivelinessRank[k] >= LivelinessRank[DecodeLiveliness(LivelinessRank[l])]
                /\ LivelinessRank[DecodeLiveliness(LivelinessRank[k])] >= LivelinessRank[l])
         /\ "Automatic" \in {k, l} =>
              (LivelinessRank[k] >= LivelinessRank[DecodeLiveliness(LivelinessRank[l])]
                 <=> LivelinessRank[k] >= LivelinessRank[l])
BY DEF DecodeLiveliness, LivelinessRank

\* The two sides of a pair come to the same decision unless both ask for the
\* same manual liveliness kind, whatever the other policies and the durations
\* (is_compatible of DataWriterQosPolicies and DataReaderQosPolicies, read_from
\* of LivelinessQosKind).
THEOREM SidesAgree ==
  ASSUME NEW o \in DataWriterQosPolicies, NEW r \in DataReaderQosPolicies,
         o.liveliness.kind = r.liveliness.kind => r.liveliness.kind = "Automatic"
  PROVE  WriterAccepts(o, r) <=> ReaderAccepts(r, o)
<1>1. LivelinessRank[o.liveliness.kind] >= LivelinessRank[OnTheWire("Reader", r).liveliness.kind]
        <=> LivelinessRank[OnTheWire("Writer", o).liveliness.kind] >= LivelinessRank[r.liveliness.kind]
  BY BothDecoded, ExchangedRanks DEF Liveliness
<1> QED
  BY <1>1, BothDecoded, Decoded DEF WriterAccepts, ReaderAccepts, Compatible,
     LivelinessCompatible, ReliabilityCompatible

\* Two sides that ask for the same manual kind never match: one of them refuses.
THEOREM ManualKindsNeverMatch ==
  ASSUME NEW o \in DataWriterQosPolicies, NEW r \in DataReaderQosPolicies,
         o.liveliness.kind = r.liveliness.kind, r.liveliness.kind # "Automatic"
  PROVE  ~(WriterAccepts(o, r) /\ ReaderAccepts(r, o))
<1>1. ~(/\ LivelinessRank[o.liveliness.kind] >= LivelinessRank[OnTheWire("Reader", r).liveliness.kind]
        /\ LivelinessRank[OnTheWire("Writer", o).liveliness.kind] >= LivelinessRank[r.liveliness.kind])
  BY BothDecoded, ExchangedRanks DEF Liveliness
<1> QED
  BY <1>1 DEF WriterAccepts, ReaderAccepts, Compatible, LivelinessCompatible

-----------------------------------------------------------------------------
(* The comparison against its reference *)

\* A duration that the code orders correctly with the others of its kind.
WholeSeconds(d) == d.fraction = 0 \/ d = INFINITE

LEMMA NotLongerIsWithin ==
  ASSUME NEW c \in Duration, NEW d \in Duration, WholeSeconds(c), WholeSeconds(d)
  PROVE  NotLonger(c, d) <=> Within(c, d)
<1> USE DurationAssumption
<1>1. CASE c.fraction = 0 /\ d.fraction = 0
  BY <1>1 DEF NotLonger, Nanos, Within, Duration
<1> QED
  BY <1>1 DEF NotLonger, Nanos, Within, Duration, WholeSeconds, INFINITE

\* With durations of whole seconds and no more than one manual liveliness kind,
\* a Writer accepts a Reader exactly if its offer honours the request, and so
\* does the Reader (is_compatible, Ord::cmp of Duration).
THEOREM AcceptedIsHonoured ==
  ASSUME NEW o \in DataWriterQosPolicies, NEW r \in DataReaderQosPolicies,
         "Automatic" \in {o.liveliness.kind, r.liveliness.kind},
         \A d \in {o.deadline, r.deadline, o.latency_budget, r.latency_budget,
                   o.liveliness.lease_duration, r.liveliness.lease_duration} : WholeSeconds(d)
  PROVE  (WriterAccepts(o, r) <=> Honours(o, r)) /\ (ReaderAccepts(r, o) <=> Honours(o, r))
<1>1. /\ NotLonger(o.deadline, r.deadline) <=> Within(o.deadline, r.deadline)
      /\ NotLonger(o.latency_budget, r.latency_budget) <=> Within(o.latency_budget, r.latency_budget)
      /\ NotLonger(o.liveliness.lease_duration, r.liveliness.lease_duration)
           <=> Within(o.liveliness.lease_duration, r.liveliness.lease_duration)
  BY NotLongerIsWithin DEF DataWriterQosPolicies, DataReaderQosPolicies, Liveliness
<1>2. r.deadline = INFINITE => Within(o.deadline, r.deadline)
  BY DurationAssumption DEF Within, INFINITE, DataWriterQosPolicies, DataReaderQosPolicies, Duration
<1>3. LivelinessRank[o.liveliness.kind] >= LivelinessRank[OnTheWire("Reader", r).liveliness.kind]
        <=> LivelinessRank[o.liveliness.kind] >= LivelinessRank[r.liveliness.kind]
  BY BothDecoded, ExchangedRanks DEF Liveliness
<1>4. OwnershipCompatible(o.ownership, r.ownership) <=> o.ownership = r.ownership
  BY DEF OwnershipCompatible, OwnershipRank, DataWriterQosPolicies, DataReaderQosPolicies
<1>5. WriterAccepts(o, r) <=> Honours(o, r)
  BY <1>1, <1>2, <1>3, <1>4, BothDecoded, Decoded
  DEF WriterAccepts, Compatible, Honours, DurabilityCompatible, DeadlineCompatible,
      LatencyBudgetCompatible, LivelinessCompatible, ReliabilityCompatible,
      DestinationOrderCompatible
<1>6. o.liveliness.kind = r.liveliness.kind => r.liveliness.kind = "Automatic"
  OBVIOUS
<1> QED
  BY <1>5, <1>6, SidesAgree
=============================================================================
