----------------------- MODULE ReliableProtocolProofs -----------------------
(***************************************************************************)
(* Proofs about ReliableProtocol, for every number of readers, hosts,      *)
(* losses and samples.                                                     *)
(*                                                                         *)
(* BaseInv is the inductive invariant behind the types: nothing that is    *)
(* under way and nothing that a reader knows of is ahead of what the RTPS  *)
(* Writer has processed (Past), and no ACKNACK acknowledges more than its  *)
(* reader has.  NewestInv adds the freshness of best-effort readers.       *)
(*                                                                         *)
(* For reliable readers whose messages arrive in order, what a reader may  *)
(* take for received is Settled: it has had it, the writer holds it no     *)
(* more, or it was never to get it.  TrustInv says that a reader has       *)
(* acknowledged nothing else and that the messages that wait for it, read  *)
(* in their order, will not make it do so; OweInv says that the writer     *)
(* keeps what it owes.  Each of the two needs the other: an ACKNACK is     *)
(* harmless to what is owed since nothing owed is settled, and a GAP or    *)
(* HEARTBEAT is harmless to the reader since what is owed is relevant and  *)
(* held.                                                                   *)
(***************************************************************************)
EXTENDS ReliableProtocol, HistoryCacheProofs, SequenceNumberSetProofs

\* The number that a message to the readers lets them know of.
NumberOf(m) == IF m.type = "HEARTBEAT" THEN m.last ELSE m.n

-----------------------------------------------------------------------------
(* Sequences. *)

\* A sequence over a set is one over every larger set.
LEMMA SeqMono ==
  ASSUME NEW X, NEW Y, X \subseteq Y, NEW s \in Seq(X)
  PROVE  s \in Seq(Y)
<1>1. Len(s) \in Nat /\ s \in [1..Len(s) -> X]
  OBVIOUS
<1>2. s \in [1..Len(s) -> Y]
  BY <1>1
<1> QED BY <1>1, <1>2

\* Removing the i-th element.
LEMMA RemoveAtType ==
  ASSUME NEW X, NEW s \in Seq(X), NEW i \in 1..Len(s)
  PROVE  /\ SubSeq(s, 1, i - 1) \o SubSeq(s, i + 1, Len(s)) \in Seq(X)
         /\ i = 1 => SubSeq(s, 1, i - 1) \o SubSeq(s, i + 1, Len(s)) = Tail(s)
<1>0. Len(s) \in Nat /\ i \in Nat /\ i >= 1 /\ i <= Len(s)
  OBVIOUS
<1>1. SubSeq(s, 1, i - 1) \in Seq(X)
  <2>1. \A j \in 1..(i - 1) : s[j] \in X
    BY <1>0
  <2>2. i - 1 \in Int
    BY <1>0
  <2> QED BY <2>1, <2>2, SubSeqProperties
<1>2. SubSeq(s, i + 1, Len(s)) \in Seq(X)
  <2>1. \A j \in (i + 1)..Len(s) : s[j] \in X
    BY <1>0
  <2>2. i + 1 \in Int /\ Len(s) \in Int
    BY <1>0
  <2> QED BY <2>1, <2>2, SubSeqProperties
<1>3. ASSUME i = 1 PROVE SubSeq(s, 1, i - 1) \o SubSeq(s, i + 1, Len(s)) = Tail(s)
  <2>1. SubSeq(s, 1, i - 1) = << >>
    <3>1. SubSeq(s, 1, 0) = << >>
      BY SubSeqEmpty
    <3> QED BY <1>3, <3>1
  <2>2. s # << >>
    BY <1>0
  <2>3. Tail(s) = SubSeq(s, 2, Len(s))
    BY <2>2, TailIsSubSeq
  <2>4. << >> \o SubSeq(s, 2, Len(s)) = SubSeq(s, 2, Len(s))
    BY <1>2, <1>3
  <2> QED BY <1>3, <2>1, <2>3, <2>4
<1>4. SubSeq(s, 1, i - 1) \o SubSeq(s, i + 1, Len(s)) \in Seq(X)
  BY <1>1, <1>2, ConcatProperties
<1> QED BY <1>3, <1>4

\* s lists the numbers of S in ascending order.
Lists(s, S) == /\ s \in [1..Cardinality(S) -> S]
               /\ \A i, j \in 1..Cardinality(S) : i < j => s[i] < s[j]

\* The numbers below a bound can be listed in ascending order.
LEMMA AscendingExists ==
  ASSUME NEW b \in Nat, NEW S \in SUBSET Nat, \A n \in S : n < b
  PROVE  Cardinality(S) \in Nat /\ IsFiniteSet(S) /\ \E s : Lists(s, S)
<1> DEFINE Below(c) == {U \in SUBSET Nat : \A n \in U : n < c}
           Fine(U)  == Cardinality(U) \in Nat /\ IsFiniteSet(U) /\ \E s : Lists(s, U)
           T == {c \in Nat : \E U \in Below(c) : ~Fine(U)}
<1>1. SUFFICES ASSUME T # {} PROVE FALSE
  OBVIOUS
<1>2. PICK c \in T : \A d \in T : c <= d
  <2>1. T \in SUBSET Nat
    OBVIOUS
  <2> HIDE DEF T
  <2> QED BY <1>1, <2>1, LeastNat
<1>3. PICK U \in Below(c) : ~Fine(U)
  OBVIOUS
<1>4. c # 0
  <2> SUFFICES ASSUME c = 0 PROVE FALSE
    OBVIOUS
  <2>1. U = {}
    BY <1>3
  <2>2. IsFiniteSet({}) /\ Cardinality({}) = 0
    BY FS_EmptySet
  <2>3. Lists(<< >>, {})
    BY <2>2 DEF Lists
  <2> QED BY <1>3, <2>1, <2>2, <2>3
<1>5. c - 1 \in Nat /\ c - 1 \notin T
  BY <1>2, <1>4
<1>6. CASE c - 1 \notin U
  <2>1. U \in Below(c - 1)
    BY <1>3, <1>5, <1>6
  <2> QED BY <1>3, <1>5, <2>1
<1>7. CASE c - 1 \in U
  <2> DEFINE V == U \ {c - 1}
  <2>1. V \in Below(c - 1)
    BY <1>3, <1>5
  <2>2. Fine(V)
    BY <1>5, <2>1
  <2>3. PICK f : Lists(f, V)
    BY <2>2
  <2>4. U = V \cup {c - 1} /\ c - 1 \notin V
    BY <1>7
  <2> DEFINE k == Cardinality(V)
             g == [i \in 1..(k + 1) |-> IF i = k + 1 THEN c - 1 ELSE f[i]]
  <2>5. IsFiniteSet(U) /\ Cardinality(U) = k + 1 /\ k \in Nat
    <3> HIDE DEF V
    <3>1. IsFiniteSet(V) /\ Cardinality(V) \in Nat
      BY <2>2
    <3>2. IsFiniteSet(V \cup {c - 1})
      BY <3>1, FS_AddElement
    <3>3. Cardinality(V \cup {c - 1}) = Cardinality(V) + 1
      BY <2>4, <3>1, FS_AddElement
    <3> QED BY <2>4, <3>1, <3>2, <3>3
  <2>6. f \in [1..k -> V] /\ \A i, j \in 1..k : i < j => f[i] < f[j]
    BY <2>3 DEF Lists
  <2>7. \A v \in V : v \in Nat /\ v < c - 1
    BY <2>1
  <2> HIDE DEF V, k
  <2>8. g \in [1..(k + 1) -> U]
    BY <1>7, <2>4, <2>5, <2>6
  <2>9. ASSUME NEW i \in 1..(k + 1), NEW j \in 1..(k + 1), i < j PROVE g[i] < g[j]
    <3>1. i \in 1..k /\ g[i] = f[i]
      BY <2>5, <2>9
    <3>2. CASE j = k + 1
      BY <2>6, <2>7, <3>1, <3>2
    <3>3. CASE j # k + 1
      BY <2>5, <2>6, <2>9, <3>1, <3>3
    <3> QED BY <3>2, <3>3
  <2>10. Lists(g, U)
    <3> HIDE DEF g
    <3> QED BY <2>5, <2>8, <2>9 DEF Lists
  <2> QED BY <1>3, <2>5, <2>10
<1> QED BY <1>6, <1>7

\* BTreeMap order of the numbers up to a bound.
LEMMA AscendingRight ==
  ASSUME NEW b \in Nat, NEW S \in SUBSET Nat, \A n \in S : n <= b
  PROVE  Cardinality(S) \in Nat /\ Ascending(S) \in [1..Cardinality(S) -> S]
<1>1. b + 1 \in Nat /\ \A n \in S : n < b + 1
  OBVIOUS
<1>2. Cardinality(S) \in Nat /\ \E s : Lists(s, S)
  BY <1>1, AscendingExists
<1>3. \E s \in [1..Cardinality(S) -> S] :
        \A i, j \in 1..Cardinality(S) : i < j => s[i] < s[j]
  BY <1>2 DEF Lists
<1> QED BY <1>2, <1>3 DEF Ascending

-----------------------------------------------------------------------------
(* What the readers do, for the set P of the numbers that the writer has processed. *)

\* A set of numbers 1..p.
IsPast(P) == /\ P \subseteq SeqNum
             /\ \A n \in P : \A m \in 1..n : m \in P
             /\ \E l \in Nat : \A n \in P : n <= l

\* A reader that knows of no number outside P.
ReaderOK(d, P) == /\ IsReader(d)
                  /\ Sound(d.cache)
                  /\ d.acked \in P \cup {0}
                  /\ \A n \in SeqNum : d.wp[n] # "None" => n \in P

\* The messages to the readers about nothing outside P.
Deliverable(P) == {m \in Message : NumberOf(m.body) \in P \cup {0}}

\* The ACKNACKs that acknowledge nothing beyond top and request nothing outside P.
AckMsgs(top, P) ==
  UNION {{AckNack(b, S) : S \in {U \in SUBSET SeqNum : \A n \in U : b <= n /\ n \in P}} :
         b \in 1..(top + 1)}

\* AckMsgs by its elements.
LEMMA AckIn ==
  ASSUME NEW top, NEW P, NEW m
  PROVE  m \in AckMsgs(top, P) <=>
           \E b \in 1..(top + 1), S \in SUBSET SeqNum :
             m = AckNack(b, S) /\ \A n \in S : b <= n /\ n \in P
<1> DEFINE Sets(b) == {U \in SUBSET SeqNum : \A n \in U : b <= n /\ n \in P}
<1>1. m \in AckMsgs(top, P) <=> \E b \in 1..(top + 1) : m \in {AckNack(b, S) : S \in Sets(b)}
  BY Zenon DEF AckMsgs
<1>2. \A b : m \in {AckNack(b, S) : S \in Sets(b)} <=> \E S \in Sets(b) : m = AckNack(b, S)
  BY Zenon
<1>3. \A b, S : S \in Sets(b) <=> S \in SUBSET SeqNum /\ \A n \in S : b <= n /\ n \in P
  BY Zenon
<1> HIDE DEF Sets
<1>4. ASSUME m \in AckMsgs(top, P)
      PROVE  \E b \in 1..(top + 1), S \in SUBSET SeqNum :
               m = AckNack(b, S) /\ \A n \in S : b <= n /\ n \in P
  <2>1. PICK b \in 1..(top + 1) : \E S \in Sets(b) : m = AckNack(b, S)
    BY <1>1, <1>2, <1>4, Zenon
  <2>2. PICK S \in Sets(b) : m = AckNack(b, S)
    BY <2>1
  <2>3. S \in SUBSET SeqNum /\ \A n \in S : b <= n /\ n \in P
    BY <1>3
  <2>4. m = AckNack(b, S) /\ \A n \in S : b <= n /\ n \in P
    BY <2>2, <2>3
  <2> HIDE DEF Sets
  <2> QED BY <2>3, <2>4, Zenon
<1>5. ASSUME NEW b \in 1..(top + 1), NEW S \in SUBSET SeqNum,
             m = AckNack(b, S), \A n \in S : b <= n /\ n \in P
      PROVE  m \in AckMsgs(top, P)
  BY <1>1, <1>2, <1>3, <1>5, Zenon
<1> QED BY <1>4, <1>5

\* The base of an ACKNACK: nothing below it is missing, and all below it is older
\* than something known.
LEMMA BaseRight ==
  ASSUME NEW P, IsPast(P), NEW w \in WriterProxy, \A n \in SeqNum : w[n] # "None" => n \in P
  PROVE  /\ AckNackBase(w) \in Nat \ {0}
         /\ AckNackBase(w) - 1 \in P \cup {0}
         /\ MissingChanges(w) \subseteq P
         /\ \A n \in MissingChanges(w) : AckNackBase(w) <= n
         /\ \A n \in SeqNum : n < AckNackBase(w) =>
              w[n] # "Missing" /\ \E a \in SeqNum : w[a] # "None" /\ n <= a
<1> DEFINE Mis == MissingChanges(w)
           Av  == AvailableChanges(w)
<1>0. P \subseteq SeqNum /\ SeqNum \subseteq Nat \ {0}
  BY SeqNumAssumption DEF IsPast
<1>1. /\ \A n \in Mis : n \in SeqNum /\ w[n] = "Missing"
      /\ \A n \in Av : n \in SeqNum /\ w[n] \in {"Received", "Lost"}
      /\ \A n \in SeqNum : w[n] = "Missing" => n \in Mis
  BY DEF MissingChanges, AvailableChanges
<1>2. Mis \subseteq P /\ Av \subseteq P
  BY <1>1
<1>3. PICK l \in Nat : \A n \in P : n <= l
  BY DEF IsPast
<1>4. CASE Mis = {}
  <2>1. AckNackBase(w) = MaxOrZero(Av) + 1
    BY <1>4 DEF AckNackBase, AvailableChangesMax
  <2>2. MaxOrZero(Av) \in Av \cup {0} /\ Av \in SUBSET Nat
    <3>1. Av \in SUBSET Nat /\ \A n \in Av : n <= l
      BY <1>0, <1>2, <1>3
    <3> HIDE DEF Av
    <3> QED BY <3>1, MaxRight
  <2>6. MaxOrZero(Av) \in Nat
    BY <2>2
  <2> HIDE DEF Mis, Av
  <2>3. ASSUME NEW n \in SeqNum, n < AckNackBase(w)
        PROVE  w[n] # "Missing" /\ \E a \in SeqNum : w[a] # "None" /\ n <= a
    <3>1. n \in Nat /\ n >= 1
      BY <1>0
    <3>2. MaxOrZero(Av) \in Av /\ n <= MaxOrZero(Av)
      BY <2>1, <2>2, <2>3, <2>6, <3>1
    <3>3. MaxOrZero(Av) \in SeqNum /\ w[MaxOrZero(Av)] # "None"
      BY <1>1, <3>2
    <3> QED BY <1>1, <1>4, <3>2, <3>3
  <2>4. AckNackBase(w) \in Nat \ {0} /\ AckNackBase(w) - 1 = MaxOrZero(Av)
    BY <2>1, <2>6
  <2>5. AckNackBase(w) - 1 \in P \cup {0}
    BY <1>2, <2>2, <2>4
  <2> QED BY <1>2, <1>4, <2>3, <2>4, <2>5 DEF Mis
<1>5. CASE Mis # {}
  <2>1. AckNackBase(w) = Min(Mis)
    BY <1>5 DEF AckNackBase
  <2>2. Min(Mis) \in Mis /\ \A n \in Mis : Min(Mis) <= n
    <3>1. Mis \in SUBSET Nat
      BY <1>0, <1>2
    <3> HIDE DEF Mis
    <3> QED BY <1>5, <3>1, MinRight
  <2> HIDE DEF Mis, Av
  <2>3. Min(Mis) \in P /\ Min(Mis) \in SeqNum /\ Min(Mis) \in Nat \ {0} /\ w[Min(Mis)] = "Missing"
    BY <1>0, <1>1, <1>2, <2>2
  <2>4. Min(Mis) - 1 \in P \cup {0}
    <3>1. CASE Min(Mis) = 1
      BY <3>1
    <3>2. CASE Min(Mis) # 1
      <4>1. Min(Mis) - 1 \in 1..Min(Mis)
        BY <2>3, <3>2
      <4> QED BY <2>3, <4>1 DEF IsPast
    <3> QED BY <3>1, <3>2
  <2>5. ASSUME NEW n \in SeqNum, n < Min(Mis)
        PROVE  w[n] # "Missing" /\ \E a \in SeqNum : w[a] # "None" /\ n <= a
    <3>1. n \in Nat /\ ~(Min(Mis) <= n)
      BY <1>0, <2>3, <2>5
    <3>2. n \notin Mis
      BY <2>2, <3>1
    <3>3. n <= Min(Mis)
      BY <2>3, <3>1, <2>5
    <3> QED BY <1>1, <2>3, <3>2, <3>3
  <2> QED BY <1>2, <2>1, <2>2, <2>3, <2>4, <2>5 DEF Mis
<1> QED BY <1>4, <1>5

\* A DATA makes its number Received.
LEMMA ReceivedType ==
  ASSUME NEW w \in WriterProxy, NEW n
  PROVE  /\ ReceivedChangeSet(w, n) \in WriterProxy
         /\ \A m \in SeqNum : ReceivedChangeSet(w, n)[m] = IF m = n THEN "Received" ELSE w[m]
  BY DEF ReceivedChangeSet, WriterProxy, ChangeFromWriterStatusKind

\* A GAP makes its numbers Received.
LEMMA IrrelevantType ==
  ASSUME NEW w \in WriterProxy, NEW S
  PROVE  /\ IrrelevantChangeSet(w, S) \in WriterProxy
         /\ \A m \in SeqNum : IrrelevantChangeSet(w, S)[m] = IF m \in S THEN "Received" ELSE w[m]
  BY DEF IrrelevantChangeSet, WriterProxy, ChangeFromWriterStatusKind

\* A HEARTBEAT makes the unknown numbers it announces Missing.
LEMMA MissingType ==
  ASSUME NEW w \in WriterProxy, NEW f, NEW l
  PROVE  /\ MissingChangesUpdate(w, f, l) \in WriterProxy
         /\ \A m \in SeqNum : MissingChangesUpdate(w, f, l)[m] =
              IF w[m] = "None" /\ f <= m /\ m <= l THEN "Missing" ELSE w[m]
  BY DEF MissingChangesUpdate, WriterProxy, ChangeFromWriterStatusKind

\* A HEARTBEAT makes the missing numbers below its first one Lost.
LEMMA LostType ==
  ASSUME NEW w \in WriterProxy, NEW f
  PROVE  /\ LostChangesUpdate(w, f) \in WriterProxy
         /\ \A m \in SeqNum : LostChangesUpdate(w, f)[m] =
              IF w[m] = "Missing" /\ m < f THEN "Lost" ELSE w[m]
  BY DEF LostChangesUpdate, WriterProxy, ChangeFromWriterStatusKind

\* Forgetting numbers leaves no entry for them and keeps the others.
LEMMA ForgottenType ==
  ASSUME NEW w \in WriterProxy, NEW S
  PROVE  /\ RemoveWriterCacheState(w, S) \in WriterProxy
         /\ \A m \in SeqNum : RemoveWriterCacheState(w, S)[m] = IF m \in S THEN "None" ELSE w[m]
  BY DEF RemoveWriterCacheState, WriterProxy, ChangeFromWriterStatusKind

\* The key of a number.
LEMMA KeyType ==
  ASSUME NEW n \in SeqNum
  PROVE  Key(n) \in HCKey /\ Key(n).seq_num = n /\ Key(n).guid = WriterGuid
  BY WriterGuidAssumption DEF Key, HCKey

\* The parts of a reader.
LEMMA ReaderParts ==
  ASSUME NEW d, NEW P, ReaderOK(d, P)
  PROVE  /\ d.wp \in WriterProxy /\ Sound(d.cache) /\ IsCache(d.cache)
         /\ d.state \in [kind : {"Initial", "Waiting", "Expect"}, wait : SUBSET SeqNum, next : Nat]
         /\ d.got \subseteq SeqNum /\ d.taken \subseteq SeqNum
         /\ d.acked \in P \cup {0} /\ d.acked \in Nat
         /\ d = [cache |-> d.cache, wp |-> d.wp, state |-> d.state,
                 got |-> d.got, acked |-> d.acked, taken |-> d.taken]
  BY DEF ReaderOK, IsReader

\* A record of such parts is a reader.
LEMMA ReaderMade ==
  ASSUME NEW P, NEW c, Sound(c), NEW w \in WriterProxy,
         NEW s \in [kind : {"Initial", "Waiting", "Expect"}, wait : SUBSET SeqNum, next : Nat],
         NEW g \in SUBSET SeqNum, NEW a \in P \cup {0}, a \in Nat, NEW t \in SUBSET SeqNum,
         \A n \in SeqNum : w[n] # "None" => n \in P
  PROVE  ReaderOK([cache |-> c, wp |-> w, state |-> s, got |-> g, acked |-> a, taken |-> t], P)
<1> DEFINE d == [cache |-> c, wp |-> w, state |-> s, got |-> g, acked |-> a, taken |-> t]
<1>1. /\ d.cache = c /\ d.wp = w /\ d.state = s /\ d.got = g /\ d.acked = a /\ d.taken = t
      /\ d \in [cache : {c}, wp : WriterProxy,
                state : [kind : {"Initial", "Waiting", "Expect"}, wait : SUBSET SeqNum, next : Nat],
                got : SUBSET SeqNum, acked : Nat, taken : SUBSET SeqNum]
  OBVIOUS
<1> HIDE DEF d
<1>2. ReaderOK(d, P)
  BY <1>1 DEF ReaderOK, IsReader, Sound
<1> QED BY <1>2 DEF d

\* The state of a reader for the writer keeps its type.
LEMMA StateTypes ==
  ASSUME NEW S \in SUBSET SeqNum, NEW n \in Nat
  PROVE  {Initial, Waiting(S), Expect(n)} \subseteq
           [kind : {"Initial", "Waiting", "Expect"}, wait : SUBSET SeqNum, next : Nat]
  BY DEF Initial, Waiting, Expect

\* What add_change of a reliable reader leaves.
LEMMA AddReliableOK ==
  ASSUME NEW d, NEW P, ReaderOK(d, P), NEW q \in Qos, NEW n \in P, P \subseteq SeqNum
  PROVE  /\ ReaderOK(AddReliable(d, q, n), P)
         /\ AddReliable(d, q, n).wp = ReceivedChangeSet(d.wp, n)
         /\ AddReliable(d, q, n).acked = d.acked
         /\ AddReliable(d, q, n).got =
              IF Key(n) \in AddChange(d.cache, Key(n), q).changes THEN d.got \cup {n} ELSE d.got
<1> DEFINE h     == AddChange(d.cache, Key(n), q)
           wait  == d.state.wait \ {n}
           flush == \/ d.state.kind = "Waiting" /\ wait = {}
                    \/ d.state.kind = "Expect" /\ d.state.next = n
           c == IF flush THEN Flush(h) ELSE h
           s == CASE d.state.kind = "Waiting" -> Waiting(wait)
                  [] d.state.kind = "Expect" /\ flush -> Expect(n + 1)
                  [] OTHER -> d.state
           w == ReceivedChangeSet(d.wp, n)
           g == IF Key(n) \in h.changes THEN d.got \cup {n} ELSE d.got
<1>0. n \in SeqNum /\ n + 1 \in Nat
  BY SeqNumAssumption
<1>1. AddReliable(d, q, n) = [cache |-> c, wp |-> w, state |-> s, got |-> g,
                              acked |-> d.acked, taken |-> d.taken]
  <2>1. AddReliable(d, q, n) = [d EXCEPT !.cache = c, !.state = s, !.wp = w, !.got = g]
    BY Zenon DEF AddReliable
  <2> HIDE DEF c, s, w, g
  <2> QED BY <2>1, ReaderParts
<1>2. Sound(c)
  <2>1. Sound(h)
    BY <1>0, ReaderParts, KeyType, AddSound
  <2> HIDE DEF h, flush
  <2> QED BY <2>1, FlushSound
<1>3. s \in [kind : {"Initial", "Waiting", "Expect"}, wait : SUBSET SeqNum, next : Nat]
  <2>1. wait \in SUBSET SeqNum
    BY ReaderParts
  <2>2. {Waiting(wait), Expect(n + 1), d.state} \subseteq
          [kind : {"Initial", "Waiting", "Expect"}, wait : SUBSET SeqNum, next : Nat]
    <3> HIDE DEF wait
    <3> QED BY <1>0, <2>1, StateTypes, ReaderParts
  <2>3. s \in {Waiting(wait), Expect(n + 1), d.state}
    <3> HIDE DEF wait, flush
    <3> QED OBVIOUS
  <2> QED BY <2>2, <2>3
<1>4. w \in WriterProxy /\ \A m \in SeqNum : w[m] # "None" => m \in P
  <2>1. w \in WriterProxy /\ \A m \in SeqNum : w[m] = IF m = n THEN "Received" ELSE d.wp[m]
    BY ReaderParts, ReceivedType
  <2> HIDE DEF w
  <2> QED BY <2>1 DEF ReaderOK
<1>5. g \in SUBSET SeqNum
  BY <1>0, ReaderParts
<1> HIDE DEF c, s, w, g
<1>6. ReaderOK(AddReliable(d, q, n), P)
  BY <1>1, <1>2, <1>3, <1>4, <1>5, ReaderParts, ReaderMade
<1> QED BY <1>1, <1>6 DEF w, g

\* What add_change of a best-effort reader leaves.
LEMMA AddBestEffortOK ==
  ASSUME NEW d, NEW P, ReaderOK(d, P), NEW q \in Qos, NEW n \in P, P \subseteq SeqNum
  PROVE  /\ ReaderOK(AddBestEffort(d, q, n), P)
         /\ AddBestEffort(d, q, n).acked = d.acked
<1> DEFINE w == RemoveWriterCacheState(d.wp, {k.seq_num : k \in d.cache.taken_key})
           h == GetTaken(d.cache)
           v == ReceivedChangeSet(w, n)
           c == Flush(AddChange(h, Key(n), q))
           x == IF n > AvailableChangesMax(w) + 1 THEN LostChangesUpdate(v, n) ELSE v
           g == d.got \cup {n}
<1>0. n \in SeqNum
  BY SeqNumAssumption
<1>1. w \in WriterProxy /\ \A m \in SeqNum : w[m] # "None" => m \in P
  <2>1. w \in WriterProxy
        /\ \A m \in SeqNum : w[m] = "None" \/ w[m] = d.wp[m]
    <3> DEFINE S == {k.seq_num : k \in d.cache.taken_key}
    <3> HIDE DEF S
    <3>1. /\ RemoveWriterCacheState(d.wp, S) \in WriterProxy
          /\ \A m \in SeqNum : RemoveWriterCacheState(d.wp, S)[m] =
               IF m \in S THEN "None" ELSE d.wp[m]
      BY ReaderParts, ForgottenType
    <3>2. \A m \in SeqNum : RemoveWriterCacheState(d.wp, S)[m] \in {"None", d.wp[m]}
      BY <3>1
    <3> QED BY <3>1, <3>2 DEF S
  <2> HIDE DEF w
  <2> QED BY <2>1 DEF ReaderOK
<1>2. Sound(h)
  BY ReaderParts, GetTakenSound
<1>3. Sound(c)
  <2> HIDE DEF h
  <2> QED BY <1>0, <1>2, KeyType, AddSound, FlushSound
<1>4. v \in WriterProxy /\ \A m \in SeqNum : v[m] # "None" => m \in P
  <2> HIDE DEF w
  <2>1. v \in WriterProxy /\ \A m \in SeqNum : v[m] = IF m = n THEN "Received" ELSE w[m]
    BY <1>1, ReceivedType
  <2> HIDE DEF v
  <2> QED BY <1>1, <2>1
<1>5. x \in WriterProxy /\ \A m \in SeqNum : x[m] # "None" => m \in P
  <2> HIDE DEF v, w
  <2>1. /\ LostChangesUpdate(v, n) \in WriterProxy
        /\ \A m \in SeqNum : LostChangesUpdate(v, n)[m] =
              IF v[m] = "Missing" /\ m < n THEN "Lost" ELSE v[m]
    BY <1>4, LostType
  <2>2. x \in {LostChangesUpdate(v, n), v}
    OBVIOUS
  <2> HIDE DEF x
  <2> QED BY <1>4, <2>1, <2>2
<1>6. CASE IsExpected(w, n)
  <2>1. AddBestEffort(d, q, n) = [d EXCEPT !.cache = c, !.wp = x, !.got = g]
    BY <1>6, Zenon DEF AddBestEffort
  <2> HIDE DEF c, x, g
  <2>2. AddBestEffort(d, q, n) = [cache |-> c, wp |-> x, state |-> d.state, got |-> g,
                                  acked |-> d.acked, taken |-> d.taken]
    BY <2>1, ReaderParts
  <2>3. g \in SUBSET SeqNum
    BY <1>0, ReaderParts DEF g
  <2> QED BY <1>3, <1>5, <2>2, <2>3, ReaderParts, ReaderMade
<1>7. CASE ~IsExpected(w, n)
  <2>1. AddBestEffort(d, q, n) = [d EXCEPT !.cache = h, !.wp = w]
    BY <1>7, Zenon DEF AddBestEffort
  <2> HIDE DEF h, w
  <2>2. AddBestEffort(d, q, n) = [cache |-> h, wp |-> w, state |-> d.state, got |-> d.got,
                                  acked |-> d.acked, taken |-> d.taken]
    BY <2>1, ReaderParts
  <2> QED BY <1>1, <1>2, <2>2, ReaderParts, ReaderMade
<1> QED BY <1>6, <1>7

\* What handle_gap leaves.
LEMMA HandleGapOK ==
  ASSUME NEW d, NEW P, ReaderOK(d, P), NEW n \in P
  PROVE  /\ ReaderOK(HandleGap(d, n), P)
         /\ HandleGap(d, n).wp = IrrelevantChangeSet(d.wp, {n})
         /\ HandleGap(d, n).acked = d.acked
         /\ HandleGap(d, n).got = d.got
         /\ HandleGap(d, n).cache = d.cache
<1> DEFINE w == IrrelevantChangeSet(d.wp, {n})
           s == IF d.state.kind = "Waiting" THEN Waiting(d.state.wait \ {n}) ELSE d.state
<1>1. HandleGap(d, n) = [cache |-> d.cache, wp |-> w, state |-> s, got |-> d.got,
                         acked |-> d.acked, taken |-> d.taken]
  <2>1. HandleGap(d, n) = [d EXCEPT !.wp = w, !.state = s]
    BY ReaderParts DEF HandleGap
  <2> HIDE DEF w, s
  <2> QED BY <2>1, ReaderParts
<1>2. w \in WriterProxy /\ \A m \in SeqNum : w[m] # "None" => m \in P
  <2>1. w \in WriterProxy /\ \A m \in SeqNum : w[m] = IF m \in {n} THEN "Received" ELSE d.wp[m]
    BY ReaderParts, IrrelevantType
  <2> HIDE DEF w
  <2> QED BY <2>1 DEF ReaderOK
<1>3. s \in [kind : {"Initial", "Waiting", "Expect"}, wait : SUBSET SeqNum, next : Nat]
  <2>1. d.state.wait \ {n} \in SUBSET SeqNum
    BY ReaderParts
  <2> QED BY <2>1, StateTypes, ReaderParts
<1> HIDE DEF w, s
<1>4. ReaderOK(HandleGap(d, n), P)
  BY <1>1, <1>2, <1>3, ReaderParts, ReaderMade
<1> QED BY <1>1, <1>4 DEF w

\* The larger of two numbers.
LEMMA MaxOfTwo ==
  ASSUME NEW a \in Nat, NEW b \in Nat
  PROVE  Max({a, b}) \in {a, b} /\ Max({a, b}) >= a /\ Max({a, b}) >= b
<1>1. Bounded({a, b})
  <2>1. CASE a <= b
    BY <2>1 DEF Bounded
  <2>2. CASE b <= a
    BY <2>2 DEF Bounded
  <2> QED BY <2>1, <2>2
<1>2. {a, b} \in SUBSET Nat
  OBVIOUS
<1>3. Max({a, b}) \in {a, b} /\ \A n \in {a, b} : n <= Max({a, b})
  BY <1>1, <1>2, MaxIsTop
<1> QED BY <1>3

\* The numbers that a HEARTBEAT lets a reader forget.
Old(d, first) == {k.seq_num : k \in TakenLessThan(d.cache, WriterGuid, first)}

\* The WriterProxy after a HEARTBEAT.
Announce(d, hb) ==
  LostChangesUpdate(MissingChangesUpdate(RemoveWriterCacheState(d.wp, Old(d, hb.first)),
                                         hb.first, hb.last), hb.first)

\* What a HEARTBEAT makes of an entry.
LEMMA AnnounceType ==
  ASSUME NEW d, d.wp \in WriterProxy, NEW hb, hb.first \in Nat
  PROVE  /\ Announce(d, hb) \in WriterProxy
         /\ \A m \in SeqNum : m \in Old(d, hb.first) =>
              m < hb.first /\ Announce(d, hb)[m] = "None"
         /\ \A m \in SeqNum : m \notin Old(d, hb.first) =>
              Announce(d, hb)[m] =
                IF d.wp[m] = "None" /\ hb.first <= m /\ m <= hb.last THEN "Missing"
                ELSE IF d.wp[m] = "Missing" /\ m < hb.first THEN "Lost" ELSE d.wp[m]
<1> DEFINE O == Old(d, hb.first)
           u == RemoveWriterCacheState(d.wp, O)
           v == MissingChangesUpdate(u, hb.first, hb.last)
           w == LostChangesUpdate(v, hb.first)
<1>0. w = Announce(d, hb)
  BY DEF Announce
<1>1. \A m \in O : m < hb.first
  BY DEF Old, TakenLessThan
<1> HIDE DEF O
<1>2. /\ u \in WriterProxy
      /\ \A m \in SeqNum : u[m] = IF m \in O THEN "None" ELSE d.wp[m]
  BY ForgottenType
<1> HIDE DEF u
<1>3. /\ v \in WriterProxy
      /\ \A m \in SeqNum : v[m] = IF u[m] = "None" /\ hb.first <= m /\ m <= hb.last
                                  THEN "Missing" ELSE u[m]
  BY <1>2, MissingType
<1> HIDE DEF v
<1>4. /\ w \in WriterProxy
      /\ \A m \in SeqNum : w[m] = IF v[m] = "Missing" /\ m < hb.first THEN "Lost" ELSE v[m]
  BY <1>3, LostType
<1> HIDE DEF w
<1>5. ASSUME NEW m \in SeqNum, m \in O PROVE m < hb.first /\ w[m] = "None"
  <2>1. m < hb.first /\ m \in Nat
    BY <1>1, <1>5, SeqNumAssumption
  <2>2. u[m] = "None" /\ ~(hb.first <= m)
    BY <1>2, <1>5, <2>1
  <2>3. v[m] = "None"
    BY <1>3, <2>2
  <2> QED BY <1>4, <2>1, <2>3
<1>6. ASSUME NEW m \in SeqNum, m \notin O
      PROVE  w[m] = IF d.wp[m] = "None" /\ hb.first <= m /\ m <= hb.last THEN "Missing"
                    ELSE IF d.wp[m] = "Missing" /\ m < hb.first THEN "Lost" ELSE d.wp[m]
  <2>1. u[m] = d.wp[m] /\ m \in Nat
    BY <1>2, <1>6, SeqNumAssumption
  <2>2. CASE d.wp[m] = "None" /\ hb.first <= m /\ m <= hb.last
    <3>1. v[m] = "Missing" /\ ~(m < hb.first)
      BY <1>3, <2>1, <2>2
    <3> QED BY <1>4, <2>2, <3>1
  <2>3. CASE ~(d.wp[m] = "None" /\ hb.first <= m /\ m <= hb.last)
    <3>1. v[m] = d.wp[m]
      BY <1>3, <2>1, <2>3
    <3> QED BY <1>4, <2>3, <3>1
  <2> QED BY <2>2, <2>3
<1> QED BY <1>0, <1>4, <1>5, <1>6 DEF O

\* A reader with four new parts.
LEMMA ReaderExceptFour ==
  ASSUME NEW d, NEW P, ReaderOK(d, P), NEW w, NEW c, NEW s, NEW a, NEW e,
         e = [d EXCEPT !.wp = w, !.cache = c, !.state = s, !.acked = a]
  PROVE  e = [cache |-> c, wp |-> w, state |-> s, got |-> d.got, acked |-> a, taken |-> d.taken]
  BY ReaderParts DEF ReaderOK, IsReader

\* A reader with two new parts.
LEMMA ReaderExceptTwo ==
  ASSUME NEW d, NEW P, ReaderOK(d, P), NEW w, NEW c, NEW e, e = [d EXCEPT !.wp = w, !.cache = c]
  PROVE  e = [cache |-> c, wp |-> w, state |-> d.state, got |-> d.got,
              acked |-> d.acked, taken |-> d.taken]
  BY ReaderParts DEF ReaderOK, IsReader

\* What handle_heartbeat leaves, and the ACKNACK that answers it.
LEMMA HandleHeartbeatOK ==
  ASSUME NEW d, NEW P, ReaderOK(d, P), IsPast(P),
         NEW hb, hb.first \in Nat, hb.last \in Nat, hb.last \in P \cup {0}
  PROVE  LET e == HandleHeartbeat(d, hb)
         IN  /\ ReaderOK(e, P)
             /\ e.wp = Announce(d, hb)
             /\ e.got = d.got
             /\ e.acked \in {d.acked, AckNackBase(e.wp) - 1} /\ e.acked >= d.acked
             /\ e.cache \in {GetTakenLessThan(d.cache, WriterGuid, hb.first),
                             Flush(GetTakenLessThan(d.cache, WriterGuid, hb.first))}
             /\ HbResponseDelay = 0 =>
                  AckNack(AckNackBase(e.wp), MissingChanges(e.wp)) \in AckMsgs(e.acked, P)
<1> DEFINE w == Announce(d, hb)
           h == GetTakenLessThan(d.cache, WriterGuid, hb.first)
           e == HandleHeartbeat(d, hb)
           b == AckNackBase(w)
<1>1. w \in WriterProxy /\ \A n \in SeqNum : w[n] # "None" => n \in P
  <2>1. w \in WriterProxy
    BY ReaderParts, AnnounceType
  <2>2. ASSUME NEW n \in SeqNum, w[n] # "None" PROVE n \in P
    <3>0. d.wp \in WriterProxy
      BY ReaderParts
    <3>1. n \notin Old(d, hb.first)
      BY <2>2, <3>0, AnnounceType
    <3>2. w[n] = IF d.wp[n] = "None" /\ hb.first <= n /\ n <= hb.last THEN "Missing"
                 ELSE IF d.wp[n] = "Missing" /\ n < hb.first THEN "Lost" ELSE d.wp[n]
      BY <3>0, <3>1, AnnounceType
    <3> HIDE DEF w
    <3>3. d.wp[n] # "None" \/ n <= hb.last
      BY <2>2, <3>2
    <3>4. CASE n <= hb.last
      <4>0. n \in Nat \ {0} /\ hb.last \in Nat
        BY SeqNumAssumption
      <4>1. n \in Nat \ {0} /\ hb.last \in P /\ hb.last \in Nat
        BY <3>4, <4>0
      <4>3. n \in 1..hb.last
        BY <3>4, <4>1
      <4> QED BY <4>1, <4>3 DEF IsPast
    <3> QED BY <3>3, <3>4 DEF ReaderOK
  <2> QED BY <2>1, <2>2
<1>2. Sound(h) /\ Sound(Flush(h))
  BY ReaderParts, GetTakenLessThanSound, FlushSound
<1> HIDE DEF w, h
<1>3. /\ b \in Nat \ {0} /\ b - 1 \in P \cup {0}
      /\ MissingChanges(w) \subseteq P
      /\ \A n \in MissingChanges(w) : b <= n
  BY <1>1, BaseRight
<1>4. MissingChanges(w) \subseteq SeqNum
  BY DEF MissingChanges
<1>5. CASE HbResponseDelay = 0
  <2> DEFINE missing == MissingChanges(w)
             c == IF missing = {} THEN Flush(h) ELSE h
             s == IF missing = {} THEN Expect(b) ELSE Waiting(missing)
             a == Max({d.acked, b - 1})
  <2>1. e = [d EXCEPT !.wp = w, !.cache = c, !.state = s, !.acked = a]
    BY <1>5, ReaderParts DEF HandleHeartbeat, w, h, Announce, Old
  <2>2. s \in [kind : {"Initial", "Waiting", "Expect"}, wait : SUBSET SeqNum, next : Nat]
    <3>1. missing \in SUBSET SeqNum /\ b \in Nat
      BY <1>3, <1>4
    <3> HIDE DEF missing, b
    <3> QED BY <3>1, StateTypes
  <2>3. a \in {d.acked, b - 1} /\ a >= d.acked /\ a >= b - 1 /\ a \in Nat /\ a \in P \cup {0}
    <3>1. d.acked \in Nat /\ b - 1 \in Nat /\ d.acked \in P \cup {0}
      BY <1>3, ReaderParts
    <3> HIDE DEF b
    <3>2. a \in {d.acked, b - 1} /\ a >= d.acked /\ a >= b - 1
      BY <3>1, MaxOfTwo
    <3> QED BY <1>3, <3>1, <3>2
  <2> HIDE DEF s, a, b
  <2>4. c \in {h, Flush(h)}
    OBVIOUS
  <2> HIDE DEF c
  <2>5. e = [cache |-> c, wp |-> w, state |-> s, got |-> d.got, acked |-> a, taken |-> d.taken]
    <3> HIDE DEF e
    <3> QED BY <2>1, ReaderExceptFour
  <2> HIDE DEF e
  <2>6. ReaderOK(e, P)
    <3>1. Sound(c)
      BY <1>2, <2>4
    <3> QED BY <1>1, <2>2, <2>3, <2>5, <3>1, ReaderParts, ReaderMade
  <2>7. AckNack(b, missing) \in AckMsgs(a, P)
    <3>1. b \in 1..(a + 1) /\ missing \in SUBSET SeqNum /\ \A n \in missing : b <= n /\ n \in P
      BY <1>3, <1>4, <2>3
    <3> HIDE DEF missing
    <3> QED BY <3>1, AckIn
  <2>8. e.wp = w /\ e.got = d.got /\ e.acked = a /\ e.cache = c
    BY <2>5
  <2> QED BY <2>3, <2>4, <2>6, <2>7, <2>8 DEF e, w, h, b
<1>6. CASE HbResponseDelay # 0
  <2>1. e = [d EXCEPT !.wp = w, !.cache = h]
    BY <1>6 DEF HandleHeartbeat, w, h, Announce, Old
  <2>2. e = [cache |-> h, wp |-> w, state |-> d.state, got |-> d.got,
             acked |-> d.acked, taken |-> d.taken]
    <3> HIDE DEF e
    <3> QED BY <2>1, ReaderExceptTwo
  <2> HIDE DEF e
  <2>3. ReaderOK(e, P)
    BY <1>1, <1>2, <2>2, ReaderParts, ReaderMade
  <2>4. e.wp = w /\ e.got = d.got /\ e.acked = d.acked /\ e.cache = h
    BY <2>2
  <2>5. d.acked >= d.acked
    BY ReaderParts
  <2> QED BY <1>6, <2>3, <2>4, <2>5 DEF e, w, h
<1> QED BY <1>5, <1>6

-----------------------------------------------------------------------------
(* The invariant. *)

\* A ReaderProxy with entries for numbers up to l, of which those in P may be requested.
ProxyOK(p, l, P) == /\ p \in ReaderProxy
                    /\ \A n \in SeqNum : /\ p[n].status # "None" => n <= l
                                         /\ p[n].status = "Requested" => n \in P

\* The numbers that the RTPS Writer has processed.
Past == (1..last) \ hc.unprocessed_seqnum

\* The writer's part of the invariant: it holds changes of its own, up to the last
\* one written, and what it has not processed is newer than what it has.
WriterInv ==
  /\ Sound(hc)
  /\ last \in Nat /\ 1..last \subseteq SeqNum
  /\ \A k \in hc.changes : k.guid = WriterGuid /\ k.seq_num <= last
  /\ \A u \in hc.unprocessed_seqnum : \A n \in u..last : n \in hc.unprocessed_seqnum
  /\ matched \subseteq Readers
  /\ an_state \in {"Waiting", "MustRepair"}
  /\ due \in [Readers -> SUBSET SeqNum]
  /\ rp \in [Readers -> ReaderProxy]
  /\ \A r \in Readers : ProxyOK(rp[r], last, Past)

\* The readers know of nothing else.
ReadersInv == /\ known \subseteq Readers
              /\ DOMAIN rd = Readers
              /\ \A r \in Readers : ReaderOK(rd[r], Past)

\* Neither do the messages to them.
NetInv == /\ net \in [Hosts -> Seq(Deliverable(Past))]
          /\ losses \in 0..MaxLosses

\* No ACKNACK acknowledges more than its reader has, or requests anything else.
AcksInv == /\ DOMAIN acks = Readers
           /\ \A r \in Readers : acks[r] \in Seq(AckMsgs(rd[r].acked, Past))

\* No message and no reader is ahead of what the writer has processed.
BaseInv == WriterInv /\ ReadersInv /\ NetInv /\ AcksInv

-----------------------------------------------------------------------------

\* What has been processed is 1..p for some p.
LEMMA PastIsPast ==
  ASSUME WriterInv
  PROVE  /\ IsPast(Past)
         /\ \A n \in Past : n \in SeqNum /\ n \in Nat /\ n >= 1 /\ n <= last
         /\ hc.unprocessed_seqnum \subseteq SeqNum
         /\ last \in Nat
<1>1. last \in Nat /\ 1..last \subseteq SeqNum /\ SeqNum \subseteq Nat \ {0}
  BY SeqNumAssumption DEF WriterInv
<1>2. hc.unprocessed_seqnum \subseteq SeqNum
  BY DEF WriterInv, Sound, IsCache
<1>3. ASSUME NEW n \in Past, NEW m \in 1..n PROVE m \in Past
  <2>1. n \in 1..last /\ n \notin hc.unprocessed_seqnum /\ m \in 1..last
    BY <1>1, <1>3 DEF Past
  <2>2. m \notin hc.unprocessed_seqnum
    <3> SUFFICES ASSUME m \in hc.unprocessed_seqnum PROVE FALSE
      OBVIOUS
    <3>1. n \in m..last
      BY <1>1, <1>3, <2>1
    <3> QED BY <2>1, <3>1 DEF WriterInv
  <2> QED BY <2>1, <2>2 DEF Past
<1>4. \A n \in Past : n \in SeqNum /\ n \in Nat /\ n >= 1 /\ n <= last
  BY <1>1 DEF Past
<1> QED BY <1>1, <1>2, <1>3, <1>4 DEF IsPast

\* The predicates are monotonic in what has been processed.
LEMMA Monotonic ==
  ASSUME NEW P, NEW Q, P \subseteq Q
  PROVE  /\ \A d : ReaderOK(d, P) => ReaderOK(d, Q)
         /\ Deliverable(P) \subseteq Deliverable(Q)
         /\ \A a, b \in Nat : a <= b => AckMsgs(a, P) \subseteq AckMsgs(b, Q)
         /\ \A p : \A l, m \in Int : l <= m /\ ProxyOK(p, l, P) => ProxyOK(p, m, Q)
<1>1. \A d : ReaderOK(d, P) => ReaderOK(d, Q)
  BY DEF ReaderOK
<1>2. Deliverable(P) \subseteq Deliverable(Q)
  BY DEF Deliverable
<1>3. ASSUME NEW a \in Nat, NEW b \in Nat, a <= b, NEW m \in AckMsgs(a, P) PROVE m \in AckMsgs(b, Q)
  <2>1. PICK c \in 1..(a + 1), S \in SUBSET SeqNum :
          m = AckNack(c, S) /\ \A n \in S : c <= n /\ n \in P
    BY AckIn
  <2>2. c \in 1..(b + 1)
    BY <1>3
  <2> QED BY <2>1, <2>2, AckIn
<1>4. ASSUME NEW p, NEW l \in Int, NEW m \in Int, l <= m, ProxyOK(p, l, P) PROVE ProxyOK(p, m, Q)
  BY <1>4, SeqNumAssumption DEF ProxyOK
<1> QED BY <1>1, <1>2, <1>3, <1>4

\* What the readers and the network hold stays right while the writer goes on.
LEMMA ReadersKept ==
  ASSUME ReadersInv, Past \subseteq Past', UNCHANGED <<rd, known>>
  PROVE  ReadersInv'
  BY Monotonic DEF ReadersInv

\* Messages already under way stay deliverable.
LEMMA NetKept ==
  ASSUME NetInv, Past \subseteq Past', NEW h \in Hosts
  PROVE  net[h] \in Seq(Deliverable(Past'))
  BY Monotonic, SeqMono DEF NetInv

\* ACKNACKs under way stay right.
LEMMA AcksKept ==
  ASSUME ReadersInv, AcksInv, Past \subseteq Past', NEW r \in Readers,
         rd'[r].acked \in Nat, rd[r].acked <= rd'[r].acked
  PROVE  acks[r] \in Seq(AckMsgs(rd'[r].acked, Past'))
<1>1. rd[r].acked \in Nat
  BY ReaderParts DEF ReadersInv
<1>2. AckMsgs(rd[r].acked, Past) \subseteq AckMsgs(rd'[r].acked, Past')
  <2> DEFINE a == rd[r].acked
             b == rd'[r].acked
  <2>1. a \in Nat /\ b \in Nat /\ a <= b
    BY <1>1
  <2> HIDE DEF a, b
  <2>2. AckMsgs(a, Past) \subseteq AckMsgs(b, Past')
    BY <2>1, Monotonic
  <2> QED BY <2>2 DEF a, b
<1> QED BY <1>2, SeqMono DEF AcksInv

\* A step of the writer that sends nothing leaves the others as they are.
LEMMA WriterStepKeeps ==
  ASSUME BaseInv, Past \subseteq Past', UNCHANGED <<rd, known, net, losses, acks>>
  PROVE  ReadersInv' /\ NetInv' /\ AcksInv'
<1>1. ReadersInv'
  BY ReadersKept DEF BaseInv
<1>2. NetInv'
  <2>1. \A h \in Hosts : net[h] \in Seq(Deliverable(Past'))
    BY NetKept DEF BaseInv
  <2>2. net' \in [Hosts -> Seq(Deliverable(Past'))]
    BY <2>1 DEF BaseInv, NetInv
  <2> QED BY <2>2 DEF BaseInv, NetInv
<1>3. AcksInv'
  <2>1. \A r \in Readers : rd[r].acked \in Nat /\ rd[r].acked <= rd[r].acked
    BY ReaderParts DEF BaseInv, ReadersInv
  <2>2. \A r \in Readers : acks[r] \in Seq(AckMsgs(rd'[r].acked, Past'))
    BY <2>1, AcksKept DEF BaseInv
  <2> QED BY <2>2 DEF BaseInv, AcksInv
<1> QED BY <1>1, <1>2, <1>3

-----------------------------------------------------------------------------
(* What the writer does to a ReaderProxy. *)

\* Entries that get another status keep their relevance.
LEMMA StatusEntries ==
  ASSUME NEW p \in ReaderProxy, NEW S, NEW kind \in ChangeForReaderStatusKind
  PROVE  /\ WithStatus(p, S, kind) \in ReaderProxy
         /\ \A n \in SeqNum : n \in S =>
              /\ WithStatus(p, S, kind)[n].status = kind
              /\ WithStatus(p, S, kind)[n].is_relevant = p[n].is_relevant
         /\ \A n \in SeqNum : n \notin S => WithStatus(p, S, kind)[n] = p[n]
<1>1. /\ WithStatus(p, S, kind) \in ReaderProxy
      /\ \A n \in SeqNum : WithStatus(p, S, kind)[n] =
           IF n \in S THEN [status |-> kind, is_relevant |-> p[n].is_relevant] ELSE p[n]
  BY WithStatusType
<1>2. ASSUME NEW n \in SeqNum, n \in S
      PROVE  /\ WithStatus(p, S, kind)[n].status = kind
             /\ WithStatus(p, S, kind)[n].is_relevant = p[n].is_relevant
  <2>1. WithStatus(p, S, kind)[n] = [status |-> kind, is_relevant |-> p[n].is_relevant]
    BY <1>1, <1>2, Zenon
  <2> QED BY <2>1
<1>3. ASSUME NEW n \in SeqNum, n \notin S PROVE WithStatus(p, S, kind)[n] = p[n]
  BY <1>1, <1>3, Zenon
<1> QED BY <1>1, <1>2, <1>3

\* A requested entry is as relevant as it was, and relevant if there was none.
LEMMA RequestedEntries ==
  ASSUME NEW p \in ReaderProxy, NEW S
  PROVE  /\ RequestedChangesSet(p, S) \in ReaderProxy
         /\ \A n \in SeqNum : n \in S =>
              /\ RequestedChangesSet(p, S)[n].status = "Requested"
              /\ RequestedChangesSet(p, S)[n].is_relevant <=> p[n].status = "None" \/ p[n].is_relevant
         /\ \A n \in SeqNum : n \notin S => RequestedChangesSet(p, S)[n] = p[n]
<1> DEFINE q == RequestedChangesSet(p, S)
           Rel(n) == p[n].status = "None" \/ p[n].is_relevant
<1>0. \A n \in SeqNum : p[n] \in ChangeForReader
  BY DEF ReaderProxy
<1>1. q = [n \in SeqNum |-> IF n \in S
             THEN [status |-> "Requested", is_relevant |-> Rel(n)] ELSE p[n]]
  BY Zenon DEF RequestedChangesSet, UpdateCacheState
<1>2. \A n : Rel(n) \in BOOLEAN
  OBVIOUS
<1> HIDE DEF q, Rel
<1>3. ASSUME NEW n \in SeqNum, n \in S
      PROVE  /\ q[n].status = "Requested" /\ (q[n].is_relevant <=> Rel(n))
             /\ q[n] \in ChangeForReader
  <2>1. q[n] = [status |-> "Requested", is_relevant |-> Rel(n)]
    BY <1>1, <1>3, Zenon
  <2> QED BY <1>2, <2>1 DEF ChangeForReader, ChangeForReaderStatusKind
<1>4. ASSUME NEW n \in SeqNum, n \notin S PROVE q[n] = p[n]
  BY <1>1, <1>4, Zenon
<1>5. q \in ReaderProxy
  <2>1. \A n \in SeqNum : q[n] \in ChangeForReader
    BY <1>0, <1>3, <1>4
  <2> QED BY <1>1, <2>1 DEF ReaderProxy
<1> QED BY <1>3, <1>4, <1>5 DEF q, Rel

\* What registering new changes S does to the proxies of the matched readers m.
LEMMA RegisterEntries ==
  ASSUME NEW p \in [Readers -> ReaderProxy], NEW m, NEW S
  PROVE  /\ RegisterUnsent(p, m, S) \in [Readers -> ReaderProxy]
         /\ \A r \in Readers, n \in SeqNum : r \in m /\ n \in S =>
              /\ RegisterUnsent(p, m, S)[r][n].status = "Unsent"
              /\ RegisterUnsent(p, m, S)[r][n].is_relevant <=> IsRelevant(n, S)
         /\ \A r \in Readers, n \in SeqNum : r \in m /\ n \notin S =>
              RegisterUnsent(p, m, S)[r][n] = p[r][n]
         /\ \A r \in Readers : r \notin m => RegisterUnsent(p, m, S)[r] = p[r]
<1> DEFINE q == RegisterUnsent(p, m, S)
<1>1. \A n : IsRelevant(n, S) \in BOOLEAN
  BY DEF IsRelevant
<1>2. ASSUME NEW r \in Readers
      PROVE  /\ r \in m => q[r] = [n \in SeqNum |-> IF n \in S
                  THEN [status |-> "Unsent", is_relevant |-> IsRelevant(n, S)] ELSE p[r][n]]
             /\ r \notin m => q[r] = p[r]
  BY Zenon DEF RegisterUnsent, UpdateCacheState
<1>3. \A r \in Readers, n \in SeqNum : p[r][n] \in ChangeForReader
  BY DEF ReaderProxy
<1>4. \A n : [status |-> "Unsent", is_relevant |-> IsRelevant(n, S)] \in ChangeForReader
  BY <1>1 DEF ChangeForReader, ChangeForReaderStatusKind
<1> HIDE DEF q
<1>5. ASSUME NEW r \in Readers, NEW n \in SeqNum, r \in m, n \in S
      PROVE  q[r][n] = [status |-> "Unsent", is_relevant |-> IsRelevant(n, S)]
  BY <1>2, <1>5, Zenon
<1>6. ASSUME NEW r \in Readers, NEW n \in SeqNum, r \in m, n \notin S PROVE q[r][n] = p[r][n]
  BY <1>2, <1>6, Zenon
<1>7. ASSUME NEW r \in Readers, r \notin m PROVE q[r] = p[r]
  BY <1>2, <1>7
<1>8. ASSUME NEW r \in Readers PROVE q[r] \in ReaderProxy
  <2>1. CASE r \in m
    <3>1. \A n \in SeqNum : q[r][n] \in ChangeForReader
      BY <1>3, <1>4, <1>5, <1>6, <2>1
    <3> QED BY <1>2, <2>1, <3>1 DEF ReaderProxy
  <2> QED BY <1>7, <2>1
<1>9. q \in [Readers -> ReaderProxy]
  <2>1. q = [r \in Readers |-> q[r]]
    BY DEF q, RegisterUnsent
  <2> QED BY <1>8, <2>1
<1>10. ASSUME NEW r \in Readers, NEW n \in SeqNum, r \in m, n \in S
       PROVE  q[r][n].status = "Unsent" /\ (q[r][n].is_relevant <=> IsRelevant(n, S))
  <2>1. q[r][n] = [status |-> "Unsent", is_relevant |-> IsRelevant(n, S)]
    BY <1>5, <1>10
  <2> QED BY <1>1, <2>1
<1> QED BY <1>6, <1>7, <1>9, <1>10 DEF q

\* What forgetting the states of S does to them.
LEMMA ForgetEntries ==
  ASSUME NEW p \in [Readers -> ReaderProxy], NEW m, NEW S
  PROVE  /\ ForgetStates(p, m, S) \in [Readers -> ReaderProxy]
         /\ \A r \in Readers, n \in SeqNum : r \in m /\ n \in S =>
              ForgetStates(p, m, S)[r][n].status = "None"
         /\ \A r \in Readers, n \in SeqNum : ~(r \in m /\ n \in S) =>
              ForgetStates(p, m, S)[r][n] = p[r][n]
<1> DEFINE q == ForgetStates(p, m, S)
<1>1. ASSUME NEW r \in Readers
      PROVE  /\ r \in m => q[r] = [n \in SeqNum |-> IF n \in S THEN NoChangeForReader ELSE p[r][n]]
             /\ r \notin m => q[r] = p[r]
  BY Zenon DEF ForgetStates, RemoveReaderCacheState
<1>2. q = [r \in Readers |-> q[r]]
  BY DEF ForgetStates
<1>3. \A r \in Readers, n \in SeqNum : p[r][n] \in ChangeForReader
  BY DEF ReaderProxy
<1>4. NoChangeForReader \in ChangeForReader /\ NoChangeForReader.status = "None"
  BY DEF NoChangeForReader, ChangeForReader
<1> HIDE DEF q
<1>5. ASSUME NEW r \in Readers, NEW n \in SeqNum, r \in m, n \in S
      PROVE  q[r][n] = NoChangeForReader
  BY <1>1, <1>5, Zenon
<1>6. ASSUME NEW r \in Readers, NEW n \in SeqNum, ~(r \in m /\ n \in S) PROVE q[r][n] = p[r][n]
  <2>1. CASE r \notin m
    BY <1>1, <2>1
  <2>2. CASE r \in m /\ n \notin S
    BY <1>1, <2>2, Zenon
  <2> QED BY <1>6, <2>1, <2>2
<1>7. ASSUME NEW r \in Readers PROVE q[r] \in ReaderProxy
  <2>1. CASE r \in m
    <3>1. \A n \in SeqNum : q[r][n] \in ChangeForReader
      BY <1>3, <1>4, <1>5, <1>6
    <3> QED BY <1>1, <2>1, <3>1 DEF ReaderProxy
  <2> QED BY <1>1, <2>1
<1>8. q \in [Readers -> ReaderProxy]
  BY <1>2, <1>7
<1> QED BY <1>4, <1>5, <1>6, <1>8 DEF q

\* Forgetting states keeps proxies right.
LEMMA ForgetOK ==
  ASSUME NEW p \in [Readers -> ReaderProxy], NEW m, NEW S, NEW l, NEW P,
         \A r \in Readers : ProxyOK(p[r], l, P)
  PROVE  \A r \in Readers : ProxyOK(ForgetStates(p, m, S)[r], l, P)
<1> SUFFICES ASSUME NEW r \in Readers PROVE ProxyOK(ForgetStates(p, m, S)[r], l, P)
  OBVIOUS
<1>1. ForgetStates(p, m, S)[r] \in ReaderProxy
  BY ForgetEntries
<1>2. ASSUME NEW n \in SeqNum
      PROVE  /\ ForgetStates(p, m, S)[r][n].status # "None" => n <= l
             /\ ForgetStates(p, m, S)[r][n].status = "Requested" => n \in P
  <2>1. CASE r \in m /\ n \in S
    BY <2>1, ForgetEntries
  <2>2. CASE ~(r \in m /\ n \in S)
    <3>1. ForgetStates(p, m, S)[r][n] = p[r][n]
      BY <2>2, ForgetEntries
    <3> QED BY <3>1 DEF ProxyOK
  <2> QED BY <2>1, <2>2
<1> QED BY <1>1, <1>2 DEF ProxyOK

\* A new proxy has an unsent entry for every change in the cache, relevant only if
\* it is the last one and the reader is TransientLocal.
LEMMA NewEntries ==
  ASSUME NEW h, NEW d
  PROVE  /\ ProxyOf(h, d) \in ReaderProxy
         /\ \A n \in SeqNum : ProxyOf(h, d)[n].status # "None" =>
              /\ ProxyOf(h, d)[n].status = "Unsent"
              /\ \E k \in h.changes : k.seq_num = n
         /\ \A n \in SeqNum : ProxyOf(h, d)[n].is_relevant =>
              /\ ProxyOf(h, d)[n].status = "Unsent"
              /\ d = "TransientLocal"
              /\ h.ts2key # << >> /\ n = h.ts2key[Len(h.ts2key)].seq_num
<1> DEFINE C == {k.seq_num : k \in h.changes}
           latest == IF h.ts2key = << >> THEN 0 ELSE h.ts2key[Len(h.ts2key)].seq_num
           q == ProxyOf(h, d)
           Rel(n) == d = "TransientLocal" /\ n = latest
<1>0. \A n \in C : \E k \in h.changes : k.seq_num = n
  OBVIOUS
<1>1. q = [n \in SeqNum |-> IF n \in C
             THEN [status |-> "Unsent", is_relevant |-> Rel(n)]
             ELSE NoChangeForReader]
  BY Zenon DEF ProxyOf, NewReaderProxy
<1>2. \A n : Rel(n) \in BOOLEAN
  OBVIOUS
<1>3. \A n \in SeqNum : Rel(n) => d = "TransientLocal" /\ h.ts2key # << >> /\ n = h.ts2key[Len(h.ts2key)].seq_num
  BY SeqNumAssumption
<1> HIDE DEF C, latest, q, Rel
<1>4. ASSUME NEW n \in SeqNum, n \in C
      PROVE  q[n].status = "Unsent" /\ (q[n].is_relevant <=> Rel(n)) /\ q[n] \in ChangeForReader
  <2>1. q[n] = [status |-> "Unsent", is_relevant |-> Rel(n)]
    BY <1>1, <1>4, Zenon
  <2> QED BY <1>2, <2>1 DEF ChangeForReader, ChangeForReaderStatusKind
<1>5. ASSUME NEW n \in SeqNum, n \notin C
      PROVE  q[n].status = "None" /\ ~q[n].is_relevant /\ q[n] \in ChangeForReader
  <2>1. q[n] = NoChangeForReader
    BY <1>1, <1>5, Zenon
  <2> QED BY <2>1 DEF NoChangeForReader, ChangeForReader
<1>6. q \in ReaderProxy
  <2>1. \A n \in SeqNum : q[n] \in ChangeForReader
    BY <1>4, <1>5
  <2> QED BY <1>1, <2>1 DEF ReaderProxy
<1> QED BY <1>0, <1>3, <1>4, <1>5, <1>6 DEF q

-----------------------------------------------------------------------------
(* What the writer sends. *)

\* A sequence made from the numbers of S in order.
LEMMA EachType ==
  ASSUME NEW b \in Nat, NEW S \in SUBSET Nat, \A n \in S : n <= b, NEW X, NEW t,
         t = [i \in DOMAIN Ascending(S) |-> t[i]],
         \A i \in DOMAIN Ascending(S) : Ascending(S)[i] \in S => t[i] \in X
  PROVE  t \in Seq(X)
<1>1. Cardinality(S) \in Nat /\ Ascending(S) \in [1..Cardinality(S) -> S]
  BY AscendingRight
<1>2. DOMAIN Ascending(S) = 1..Cardinality(S)
  BY <1>1
<1>3. t \in [1..Cardinality(S) -> X]
  BY <1>1, <1>2
<1> QED BY <1>1, <1>3

\* What handle_write_data_cmd drops, the proxies it then has, and the readers of a
\* host that it sends number n to.
WdNew == RegisterUnsent(rp, matched, hc.unprocessed_seqnum)
WdDone == AckedChanges(GetUnprocessed(hc), WdNew, matched, MinOrZero(hc.unprocessed_seqnum))
WdProxies == ForgetStates(WdNew, matched, {k.seq_num : k \in WdDone})
WdFor(g, rel, n) == {r \in matched \cap Local(g) : n \in UnsentChanges(WdProxies[r])
                                                   /\ WdProxies[r][n].is_relevant = rel}

\* handle_write_data_cmd in these terms.
LEMMA WdStep ==
  ASSUME HandleWriteData
  PROVE  /\ hc' = RemoveChanges(GetUnprocessed(hc), WdDone, FALSE)
         /\ rp' = [r \in Readers |-> IF r \in matched
                     THEN WithStatus(WdProxies[r], UnsentChanges(WdProxies[r]), "Underway")
                     ELSE WdProxies[r]]
         /\ net' = [g \in Hosts |-> net[g] \o Each(SeqNum, Data, LAMBDA n : WdFor(g, TRUE, n))
                                           \o Each(SeqNum, Gap, LAMBDA n : WdFor(g, FALSE, n))]
         /\ due' = [r \in Readers |->
                      IF r \in matched
                      THEN (due[r] \ hc.unprocessed_seqnum)
                             \cup {n \in hc.unprocessed_seqnum : IsRelevant(n, hc.unprocessed_seqnum)}
                      ELSE due[r]]
         /\ UNCHANGED <<last, matched, an_state, acks, losses, rd, known>>
  BY Zenon DEF HandleWriteData, WdNew, WdDone, WdProxies, WdFor, readerVars

\* What it sends to host g is in X if every message is.
LEMMA WdSends ==
  ASSUME NEW X, NEW g \in Hosts, NEW b \in Nat,
         \A n \in SeqNum : WdFor(g, TRUE, n) # {} =>
           n <= b /\ Datagram("unicast", WdFor(g, TRUE, n), Data(n)) \in X,
         \A n \in SeqNum : WdFor(g, FALSE, n) # {} =>
           n <= b /\ Datagram("unicast", WdFor(g, FALSE, n), Gap(n)) \in X
  PROVE  /\ Each(SeqNum, Data, LAMBDA n : WdFor(g, TRUE, n)) \in Seq(X)
         /\ Each(SeqNum, Gap, LAMBDA n : WdFor(g, FALSE, n)) \in Seq(X)
<1>1. Each(SeqNum, Data, LAMBDA n : WdFor(g, TRUE, n)) \in Seq(X)
  <2> DEFINE S == {n \in SeqNum : WdFor(g, TRUE, n) # {}}
             t == Each(SeqNum, Data, LAMBDA n : WdFor(g, TRUE, n))
  <2>1. t = [i \in DOMAIN Ascending(S) |->
               Datagram("unicast", WdFor(g, TRUE, Ascending(S)[i]), Data(Ascending(S)[i]))]
    BY Zenon DEF Each
  <2>2. \A n \in S : n \in Nat /\ n <= b
                     /\ Datagram("unicast", WdFor(g, TRUE, n), Data(n)) \in X
    BY SeqNumAssumption
  <2> HIDE DEF S, t
  <2>3. S \in SUBSET Nat /\ \A n \in S : n <= b
    BY <2>2
  <2>4. t = [i \in DOMAIN Ascending(S) |-> t[i]]
    BY <2>1
  <2>5. \A i \in DOMAIN Ascending(S) : Ascending(S)[i] \in S => t[i] \in X
    BY <2>1, <2>2
  <2>6. t \in Seq(X)
    BY <2>3, <2>4, <2>5, EachType
  <2> QED BY <2>6 DEF t
<1>2. Each(SeqNum, Gap, LAMBDA n : WdFor(g, FALSE, n)) \in Seq(X)
  <2> DEFINE S == {n \in SeqNum : WdFor(g, FALSE, n) # {}}
             t == Each(SeqNum, Gap, LAMBDA n : WdFor(g, FALSE, n))
  <2>1. t = [i \in DOMAIN Ascending(S) |->
               Datagram("unicast", WdFor(g, FALSE, Ascending(S)[i]), Gap(Ascending(S)[i]))]
    BY Zenon DEF Each
  <2>2. \A n \in S : n \in Nat /\ n <= b
                     /\ Datagram("unicast", WdFor(g, FALSE, n), Gap(n)) \in X
    BY SeqNumAssumption
  <2> HIDE DEF S, t
  <2>3. S \in SUBSET Nat /\ \A n \in S : n <= b
    BY <2>2
  <2>4. t = [i \in DOMAIN Ascending(S) |-> t[i]]
    BY <2>1
  <2>5. \A i \in DOMAIN Ascending(S) : Ascending(S)[i] \in S => t[i] \in X
    BY <2>1, <2>2
  <2>6. t \in Seq(X)
    BY <2>3, <2>4, <2>5, EachType
  <2> QED BY <2>6 DEF t
<1> QED BY <1>1, <1>2

\* What a repair of the requests in proxy p sends is in X if every message is.
LEMMA NackSends ==
  ASSUME NEW X, NEW h, NEW r, NEW p, NEW b \in Nat,
         \A n \in RequestedChanges(p) : n <= b,
         \A n \in RequestedChanges(p) :
           /\ p[n].is_relevant /\ Key(n) \in h.changes => Datagram("unicast", {r}, Data(n)) \in X
           /\ p[n].is_relevant /\ Key(n) \notin h.changes =>
                Datagram("unicast", {r}, Heartbeat(n + 1, SeqNumMax(h))) \in X
           /\ ~p[n].is_relevant => Datagram("unicast", {r}, Gap(n)) \in X
  PROVE  NackResponse(h, r, p) \in Seq(X)
<1> DEFINE S == {n \in RequestedChanges(p) : p[n].is_relevant}
           T == {n \in RequestedChanges(p) : ~p[n].is_relevant}
           Answer(n) == IF Key(n) \in h.changes THEN Data(n) ELSE Heartbeat(n + 1, SeqNumMax(h))
           s == [i \in DOMAIN Ascending(S) |-> Datagram("unicast", {r}, Answer(Ascending(S)[i]))]
           t == [i \in DOMAIN Ascending(T) |-> Datagram("unicast", {r}, Gap(Ascending(T)[i]))]
<1>1. NackResponse(h, r, p) = s \o t
  <2>1. {n \in S : {r} # {}} = S /\ {n \in T : {r} # {}} = T
    OBVIOUS
  <2> DEFINE s2 == [i \in DOMAIN Ascending({n \in S : {r} # {}}) |->
                      Datagram("unicast", {r}, Answer(Ascending({n \in S : {r} # {}})[i]))]
             t2 == [i \in DOMAIN Ascending({n \in T : {r} # {}}) |->
                      Datagram("unicast", {r}, Gap(Ascending({n \in T : {r} # {}})[i]))]
  <2>2. NackResponse(h, r, p) = s2 \o t2
    BY Zenon DEF NackResponse, Each
  <2>3. s2 = s
    BY <2>1, Zenon
  <2>4. t2 = t
    BY <2>1, Zenon
  <2> HIDE DEF s, t, s2, t2
  <2> QED BY <2>2, <2>3, <2>4, Zenon
<1>2. RequestedChanges(p) \subseteq Nat
  BY SeqNumAssumption DEF RequestedChanges
<1>3. \A n \in S : Datagram("unicast", {r}, Answer(n)) \in X
  OBVIOUS
<1>4. \A n \in T : Datagram("unicast", {r}, Gap(n)) \in X
  OBVIOUS
<1>5. S \in SUBSET Nat /\ T \in SUBSET Nat /\ (\A n \in S : n <= b) /\ \A n \in T : n <= b
  BY <1>2
<1>6. s = [i \in DOMAIN Ascending(S) |-> s[i]] /\ t = [i \in DOMAIN Ascending(T) |-> t[i]]
  OBVIOUS
<1>7. /\ \A i \in DOMAIN Ascending(S) : Ascending(S)[i] \in S => s[i] \in X
      /\ \A i \in DOMAIN Ascending(T) : Ascending(T)[i] \in T => t[i] \in X
  <2> HIDE DEF S, T, Answer
  <2> QED BY <1>3, <1>4
<1> HIDE DEF S, T, s, t, Answer
<1>8. s \in Seq(X)
  BY <1>5, <1>6, <1>7, EachType
<1>9. t \in Seq(X)
  BY <1>5, <1>6, <1>7, EachType
<1> QED BY <1>1, <1>8, <1>9, ConcatProperties

\* The datagrams about a number that has been processed are deliverable.
LEMMA DatagramOK ==
  ASSUME NEW P, P \subseteq SeqNum, NEW sock \in {"unicast", "multicast"}, NEW S \in SUBSET Readers
  PROVE  /\ \A n \in P : Datagram(sock, S, Data(n)) \in Deliverable(P)
         /\ \A n \in P : Datagram(sock, S, Gap(n)) \in Deliverable(P)
         /\ \A f \in Nat, l \in P \cup {0} : Datagram(sock, S, Heartbeat(f, l)) \in Deliverable(P)
<1>0. P \subseteq Nat
  BY SeqNumAssumption
<1>1. ReaderId(S) \subseteq Readers
  BY DEF ReaderId, Addressed
<1>2. ASSUME NEW n \in P
      PROVE  /\ Data(n) \in [type : {"DATA", "GAP"}, n : SeqNum] /\ NumberOf(Data(n)) = n
             /\ Gap(n) \in [type : {"DATA", "GAP"}, n : SeqNum] /\ NumberOf(Gap(n)) = n
  BY DEF Data, Gap, NumberOf
<1>3. ASSUME NEW f \in Nat, NEW l \in P \cup {0}
      PROVE  /\ Heartbeat(f, l) \in [type : {"HEARTBEAT"}, first : Nat, last : Nat]
             /\ NumberOf(Heartbeat(f, l)) = l
  BY <1>0 DEF Heartbeat, NumberOf
<1>4. ASSUME NEW m, m \in [type : {"DATA", "GAP"}, n : SeqNum]
                          \cup [type : {"HEARTBEAT"}, first : Nat, last : Nat],
             NumberOf(m) \in P \cup {0}
      PROVE  Datagram(sock, S, m) \in Deliverable(P)
  <2>1. Datagram(sock, S, m) \in Message /\ Datagram(sock, S, m).body = m
    BY <1>1, <1>4 DEF Datagram, Message
  <2> QED BY <1>4, <2>1 DEF Deliverable
<1>5. \A n \in P : Datagram(sock, S, Data(n)) \in Deliverable(P)
  BY <1>2, <1>4
<1>6. \A n \in P : Datagram(sock, S, Gap(n)) \in Deliverable(P)
  BY <1>2, <1>4
<1>7. \A f \in Nat, l \in P \cup {0} : Datagram(sock, S, Heartbeat(f, l)) \in Deliverable(P)
  BY <1>3, <1>4
<1> QED BY <1>5, <1>6, <1>7

-----------------------------------------------------------------------------
(* The writer keeps the invariant. *)

\* The range that a HEARTBEAT announces has been processed.
LEMMA AnnouncedOK ==
  ASSUME WriterInv, NEW h, IsCache(h), h.changes \subseteq hc.changes,
         h.unprocessed_seqnum = hc.unprocessed_seqnum
  PROVE  /\ SeqNumMin(h) \in Nat
         /\ SeqNumMax(h) \in Past \cup {0} /\ SeqNumMax(h) \in Nat
         /\ \A n \in Past : Key(n) \in h.changes => SeqNumMin(h) <= n /\ n <= SeqNumMax(h)
         /\ SeqNumMin(h) # 0 => SeqNumMin(h) \in Past
<1> DEFINE A == Announced(h)
<1>1. \A n \in A : n \in Past /\ n \in Nat /\ n <= last
  <2> SUFFICES ASSUME NEW n \in A PROVE n \in Past /\ n \in Nat /\ n <= last
    OBVIOUS
  <2>1. PICK k \in h.changes : k.seq_num = n
    BY DEF Announced
  <2>2. n \in SeqNum /\ n <= last /\ n \notin hc.unprocessed_seqnum
    BY <2>1 DEF Announced, WriterInv, IsCache, HCKey
  <2>3. n \in 1..last /\ n \in Nat
    BY <2>2, SeqNumAssumption DEF WriterInv
  <2> QED BY <2>2, <2>3 DEF Past
<1>2. \A n \in Past : Key(n) \in h.changes => n \in A
  <2> SUFFICES ASSUME NEW n \in Past, Key(n) \in h.changes PROVE n \in A
    OBVIOUS
  <2>1. n \notin hc.unprocessed_seqnum /\ Key(n).seq_num = n
    BY PastIsPast, KeyType DEF Past
  <2> QED BY <2>1 DEF Announced
<1>3. A \in SUBSET Nat /\ last \in Nat /\ \A n \in A : n <= last
  BY <1>1 DEF WriterInv
<1> HIDE DEF A
<1>4. MinOrZero(A) \in A \cup {0} /\ \A n \in A : MinOrZero(A) <= n
  BY <1>3, MinRight
<1>5. MaxOrZero(A) \in A \cup {0} /\ \A n \in A : n <= MaxOrZero(A)
  BY <1>3, MaxRight
<1>6. SeqNumMin(h) = MinOrZero(A) /\ SeqNumMax(h) = MaxOrZero(A)
  BY DEF SeqNumMin, SeqNumMax, A
<1>7. MinOrZero(A) \in Nat /\ MaxOrZero(A) \in Nat
  <2>1. \A x \in A \cup {0} : x \in Nat
    BY <1>3
  <2> QED BY <1>4, <1>5, <2>1
<1>8. MaxOrZero(A) \in Past \cup {0} /\ (MinOrZero(A) # 0 => MinOrZero(A) \in Past)
  BY <1>1, <1>4, <1>5
<1> QED BY <1>2, <1>4, <1>5, <1>6, <1>7, <1>8

\* Dropping acknowledged changes and their states keeps the writer's invariant and
\* what has been processed.
LEMMA DropKeeps ==
  ASSUME WriterInv, NEW S, NEW T, NEW p \in [Readers -> ReaderProxy],
         \A r \in Readers : ProxyOK(p[r], last, Past),
         hc' = RemoveChanges(hc, S, FALSE), rp' = ForgetStates(p, matched, T),
         an_state' \in {"Waiting", "MustRepair"}, UNCHANGED <<last, matched, due>>
  PROVE  WriterInv' /\ Past' = Past
<1>1. /\ Sound(hc') /\ hc'.changes \subseteq hc.changes
      /\ hc'.unprocessed_seqnum = hc.unprocessed_seqnum
  BY RemoveSound, RemoveFields DEF WriterInv, Sound
<1>2. Past' = Past
  BY <1>1 DEF Past
<1>3. rp' \in [Readers -> ReaderProxy]
  BY ForgetEntries
<1>4. \A r \in Readers : ProxyOK(rp'[r], last, Past)
  BY ForgetOK
<1>5. \A k \in hc'.changes : k.guid = WriterGuid /\ k.seq_num <= last
  BY <1>1 DEF WriterInv
<1>6. \A u \in hc'.unprocessed_seqnum : \A n \in u..last : n \in hc'.unprocessed_seqnum
  BY <1>1 DEF WriterInv
<1>7. /\ last \in Nat /\ 1..last \subseteq SeqNum /\ matched \subseteq Readers
      /\ due \in [Readers -> SUBSET SeqNum]
  BY DEF WriterInv
<1> QED BY <1>1, <1>2, <1>3, <1>4, <1>5, <1>6, <1>7 DEF WriterInv

\* Writer::matched_reader_add.
LEMMA BaseMatchReader ==
  ASSUME BaseInv, NEW r \in Readers, NEW d, MatchReader(r, d)
  PROVE  BaseInv' /\ Past' = Past
<1> DEFINE p == ProxyOf(hc, d)
<1>1. /\ p \in ReaderProxy
      /\ \A n \in SeqNum : p[n].status # "None" =>
           p[n].status = "Unsent" /\ \E k \in hc.changes : k.seq_num = n
  BY NewEntries
<1> HIDE DEF p
<1>2. rp' = [rp EXCEPT ![r] = p] /\ rp \in [Readers -> ReaderProxy]
  BY DEF MatchReader, p, BaseInv, WriterInv
<1>3. Past' = Past
  BY DEF MatchReader, Past
<1>4. ProxyOK(p, last, Past)
  BY <1>1 DEF ProxyOK, BaseInv, WriterInv
<1>5. rp' \in [Readers -> ReaderProxy] /\ \A q \in Readers : ProxyOK(rp'[q], last, Past)
  BY <1>1, <1>2, <1>4 DEF BaseInv, WriterInv
<1>6. due' \in [Readers -> SUBSET SeqNum]
  BY DEF MatchReader, BaseInv, WriterInv
<1>7. WriterInv'
  <2>1. UNCHANGED <<hc, last, an_state>> /\ matched' \subseteq Readers
    BY DEF MatchReader, BaseInv, WriterInv
  <2> QED BY <1>3, <1>5, <1>6, <2>1 DEF BaseInv, WriterInv
<1>8. ReadersInv' /\ NetInv' /\ AcksInv'
  <2>1. UNCHANGED <<rd, known, net, losses, acks>>
    BY DEF MatchReader, readerVars, netVars
  <2> QED BY <1>3, <2>1, WriterStepKeeps
<1> QED BY <1>3, <1>7, <1>8 DEF BaseInv

\* What DataWriter::write changes.
LEMMA WriteStep ==
  ASSUME WriterInv, Write
  PROVE  /\ hc'.changes = hc.changes \cup {Key(last + 1)} /\ Sound(hc')
         /\ hc'.unprocessed_seqnum = hc.unprocessed_seqnum \cup {last + 1}
         /\ last' = last + 1 /\ last + 1 \in SeqNum
         /\ Past' = Past
<1>1. last + 1 \in SeqNum /\ last' = last + 1
  BY DEF Write
<1>2. /\ Key(last + 1) \in HCKey /\ Key(last + 1).seq_num = last + 1
      /\ Sound(hc) /\ WriterQos \in Qos /\ WriterQos.hc_type = "Writer" /\ WriterQos.is_reliable
  BY <1>1, KeyType, WriterQosAssumption, ReliableAssumption DEF WriterInv
<1>3. /\ hc'.changes = hc.changes \cup {Key(last + 1)}
      /\ hc'.unprocessed_seqnum = hc.unprocessed_seqnum \cup {last + 1}
  <2>1. hc' = AddChange(hc, Key(last + 1), WriterQos)
        /\ AddChangeResult(hc, Key(last + 1), WriterQos) = "Ok"
    BY DEF Write
  <2> QED BY <1>2, <2>1, AddAccepts
<1>4. Sound(hc')
  <2>1. hc' = AddChange(hc, Key(last + 1), WriterQos)
    BY DEF Write
  <2> QED BY <1>2, <2>1, AddSound
<1>5. Past' = Past
  <2>1. last \in Nat /\ last' = last + 1
    BY <1>1 DEF WriterInv
  <2> QED BY <1>3, <2>1 DEF Past
<1> QED BY <1>1, <1>3, <1>4, <1>5

\* DataWriter::write.
LEMMA BaseWrite ==
  ASSUME BaseInv, Write
  PROVE  BaseInv' /\ Past' = Past
<1>0. WriterInv /\ last \in Nat /\ 1..last \subseteq SeqNum
  BY DEF BaseInv, WriterInv
<1>1. /\ hc'.changes = hc.changes \cup {Key(last + 1)} /\ Sound(hc')
      /\ hc'.unprocessed_seqnum = hc.unprocessed_seqnum \cup {last + 1}
      /\ last' = last + 1 /\ last + 1 \in SeqNum
      /\ Past' = Past
  BY <1>0, WriteStep
<1>2. UNCHANGED <<matched, rp, an_state, due, rd, known, net, acks, losses>>
  BY DEF Write, readerVars, netVars
<1>3. last' \in Nat /\ 1..last' \subseteq SeqNum
  BY <1>0, <1>1
<1>4. \A k \in hc'.changes : k.guid = WriterGuid /\ k.seq_num <= last'
  <2>1. ASSUME NEW k \in hc.changes PROVE k.guid = WriterGuid /\ k.seq_num <= last'
    <3>1. k.seq_num \in Nat /\ k.guid = WriterGuid /\ k.seq_num <= last
      BY SeqNumAssumption DEF BaseInv, WriterInv, Sound, IsCache, HCKey
    <3> QED BY <1>0, <1>1, <3>1
  <2>2. Key(last + 1).guid = WriterGuid /\ Key(last + 1).seq_num <= last'
    BY <1>1, <1>3, KeyType
  <2> QED BY <1>1, <2>1, <2>2
<1>5. \A u \in hc'.unprocessed_seqnum : \A n \in u..last' : n \in hc'.unprocessed_seqnum
  <2> SUFFICES ASSUME NEW u \in hc'.unprocessed_seqnum, NEW n \in u..last'
               PROVE  n \in hc'.unprocessed_seqnum
    OBVIOUS
  <2>1. u \in Nat
    BY <1>1, SeqNumAssumption DEF BaseInv, WriterInv, Sound, IsCache
  <2>2. CASE n = last + 1
    BY <1>1, <2>2
  <2>3. CASE n # last + 1
    <3>1. n \in u..last /\ u \in hc.unprocessed_seqnum
      BY <1>0, <1>1, <2>1, <2>3
    <3> QED BY <1>1, <3>1 DEF BaseInv, WriterInv
  <2> QED BY <2>2, <2>3
<1>6. \A r \in Readers : ProxyOK(rp[r], last', Past')
  <2>1. last \in Int /\ last' \in Int /\ last <= last' /\ Past \subseteq Past'
    BY <1>0, <1>1
  <2>2. \A r \in Readers : ProxyOK(rp[r], last, Past)
    BY DEF BaseInv, WriterInv
  <2> QED BY <2>1, <2>2, Monotonic
<1>7. WriterInv'
  BY <1>1, <1>2, <1>3, <1>4, <1>5, <1>6 DEF BaseInv, WriterInv
<1>8. ReadersInv' /\ NetInv' /\ AcksInv'
  BY <1>1, <1>2, WriterStepKeeps
<1> QED BY <1>1, <1>7, <1>8 DEF BaseInv

\* The cache after handle_write_data_cmd: all of it has been processed.
LEMMA WdCache ==
  ASSUME WriterInv, HandleWriteData
  PROVE  /\ Sound(hc') /\ hc'.changes \subseteq hc.changes /\ hc'.unprocessed_seqnum = {}
         /\ hc.changes \ WdDone \subseteq hc'.changes
         /\ Past' = 1..last /\ Past \subseteq Past'
         /\ last' = last /\ last \in Nat
<1>1. hc' = RemoveChanges(GetUnprocessed(hc), WdDone, FALSE) /\ last' = last
  BY WdStep
<1>2. Sound(hc) /\ Sound(GetUnprocessed(hc)) /\ last \in Nat
  BY GetUnprocessedSound DEF WriterInv
<1>3. GetUnprocessed(hc).changes = hc.changes /\ GetUnprocessed(hc).unprocessed_seqnum = {}
  BY <1>2 DEF Sound, IsCache, GetUnprocessed
<1>4. /\ hc'.changes \subseteq GetUnprocessed(hc).changes
      /\ GetUnprocessed(hc).changes \ WdDone \subseteq hc'.changes
      /\ hc'.unprocessed_seqnum = GetUnprocessed(hc).unprocessed_seqnum
  BY <1>1, <1>2, RemoveFields DEF Sound
<1>5. Sound(hc')
  BY <1>1, <1>2, RemoveSound
<1>6. Past' = 1..last /\ Past \subseteq Past'
  BY <1>1, <1>3, <1>4 DEF Past
<1> QED BY <1>1, <1>2, <1>3, <1>4, <1>5, <1>6

\* The entries of the proxies that it sends from.
LEMMA WdEntries ==
  ASSUME WriterInv
  PROVE  /\ WdNew \in [Readers -> ReaderProxy] /\ WdProxies \in [Readers -> ReaderProxy]
         /\ \A r \in Readers : ProxyOK(WdProxies[r], last, 1..last)
<1>1. /\ rp \in [Readers -> ReaderProxy] /\ last \in Nat
      /\ \A r \in Readers : ProxyOK(rp[r], last, Past)
      /\ hc.unprocessed_seqnum \subseteq SeqNum
      /\ \A n \in hc.unprocessed_seqnum : n <= last
  <2>1. \A n \in hc.unprocessed_seqnum : \E k \in hc.changes : k.seq_num = n
    BY DEF WriterInv, Sound, UnprocessedHeld
  <2> QED BY <2>1, PastIsPast DEF WriterInv
<1>2. /\ WdNew \in [Readers -> ReaderProxy]
      /\ \A r \in Readers, n \in SeqNum :
           r \in matched /\ n \in hc.unprocessed_seqnum => WdNew[r][n].status = "Unsent"
      /\ \A r \in Readers, n \in SeqNum :
           r \in matched /\ n \notin hc.unprocessed_seqnum => WdNew[r][n] = rp[r][n]
      /\ \A r \in Readers : r \notin matched => WdNew[r] = rp[r]
  BY <1>1, RegisterEntries DEF WdNew
<1>3. \A r \in Readers : ProxyOK(WdNew[r], last, 1..last)
  <2> SUFFICES ASSUME NEW r \in Readers PROVE ProxyOK(WdNew[r], last, 1..last)
    OBVIOUS
  <2>1. WdNew[r] \in ReaderProxy
    BY <1>2
  <2>2. ASSUME NEW n \in SeqNum
        PROVE  /\ WdNew[r][n].status # "None" => n <= last
               /\ WdNew[r][n].status = "Requested" => n \in 1..last
    <3>1. CASE r \in matched /\ n \in hc.unprocessed_seqnum
      BY <1>1, <1>2, <3>1
    <3>2. CASE ~(r \in matched /\ n \in hc.unprocessed_seqnum)
      <4>1. WdNew[r][n] = rp[r][n]
        BY <1>2, <3>2
      <4>2. rp[r][n].status # "None" => n <= last
        BY <1>1 DEF ProxyOK
      <4>3. rp[r][n].status = "Requested" => n \in Past
        BY <1>1 DEF ProxyOK
      <4> QED BY <4>1, <4>2, <4>3 DEF Past
    <3> QED BY <3>1, <3>2
  <2> QED BY <2>1, <2>2 DEF ProxyOK
<1>4. WdProxies \in [Readers -> ReaderProxy]
  BY <1>2, ForgetEntries DEF WdProxies
<1>5. \A r \in Readers : ProxyOK(WdProxies[r], last, 1..last)
  BY <1>2, <1>3, ForgetOK DEF WdProxies
<1> QED BY <1>2, <1>4, <1>5

\* The proxies it leaves.
LEMMA WdUnderway ==
  ASSUME WriterInv, HandleWriteData
  PROVE  /\ rp' \in [Readers -> ReaderProxy]
         /\ \A r \in Readers : ProxyOK(rp'[r], last, 1..last)
<1>1. ASSUME NEW r \in Readers PROVE rp'[r] \in ReaderProxy /\ ProxyOK(rp'[r], last, 1..last)
  <2>1. WdProxies[r] \in ReaderProxy /\ ProxyOK(WdProxies[r], last, 1..last)
    BY <1>1, WdEntries
  <2>2. CASE r \in matched
    <3> DEFINE p == WdProxies[r]
               u == WithStatus(p, UnsentChanges(p), "Underway")
    <3>1. rp'[r] = u
      BY <2>2, WdStep
    <3> HIDE DEF p
    <3>2. p \in ReaderProxy /\ ProxyOK(p, last, 1..last)
      BY <2>1 DEF p
    <3>3. "Underway" \in ChangeForReaderStatusKind
      BY DEF ChangeForReaderStatusKind
    <3>4. u \in ReaderProxy
      BY <3>2, <3>3, StatusEntries
    <3>5. ASSUME NEW n \in SeqNum
          PROVE  /\ u[n].status # "None" => n <= last
                 /\ u[n].status = "Requested" => n \in 1..last
      <4>1. CASE n \in UnsentChanges(p)
        <5>1. u[n].status = "Underway"
          BY <3>2, <3>3, <4>1, StatusEntries
        <5>2. p[n].status = "Unsent"
          BY <4>1 DEF UnsentChanges
        <5> QED BY <3>2, <5>1, <5>2 DEF ProxyOK
      <4>2. CASE n \notin UnsentChanges(p)
        <5>1. u[n] = p[n]
          BY <3>2, <3>3, <4>2, StatusEntries
        <5> QED BY <3>2, <5>1 DEF ProxyOK
      <4> QED BY <4>1, <4>2
    <3> HIDE DEF u
    <3> QED BY <3>1, <3>4, <3>5 DEF ProxyOK
  <2>3. CASE r \notin matched
    BY <2>1, <2>3, WdStep
  <2> QED BY <2>2, <2>3
<1>2. \E f : rp' = [r \in Readers |-> f[r]]
  <2>1. rp' = [r \in Readers |-> rp'[r]]
    BY WdStep
  <2> QED BY <2>1
<1> QED BY <1>1, <1>2

\* A number that it sends to somebody has an unsent entry.
LEMMA WdForUnsent ==
  ASSUME WriterInv, NEW g, NEW rel, NEW n \in SeqNum, WdFor(g, rel, n) # {}
  PROVE  n \in 1..last /\ n \in Nat /\ last \in Nat /\ WdFor(g, rel, n) \in SUBSET Readers
<1>1. PICK r \in matched : n \in UnsentChanges(WdProxies[r])
  BY DEF WdFor
<1>2. matched \subseteq Readers /\ last \in Nat
  BY DEF WriterInv
<1>3. n <= last
  BY <1>1, <1>2, WdEntries DEF UnsentChanges, ProxyOK
<1>4. WdFor(g, rel, n) \subseteq Readers
  BY DEF WdFor, Local
<1> QED BY <1>2, <1>3, <1>4, SeqNumAssumption

\* handle_write_data_cmd.
LEMMA BaseHandleWriteData ==
  ASSUME BaseInv, HandleWriteData
  PROVE  BaseInv' /\ Past \subseteq Past'
<1>0. WriterInv
  BY DEF BaseInv
<1>1. /\ Sound(hc') /\ hc'.changes \subseteq hc.changes /\ hc'.unprocessed_seqnum = {}
      /\ Past' = 1..last /\ Past \subseteq Past' /\ last' = last /\ last \in Nat
  BY <1>0, WdCache
<1>2. UNCHANGED <<last, matched, an_state, acks, losses, rd, known>>
  BY WdStep
<1>3. WriterInv'
  <2>1. due' \in [Readers -> SUBSET SeqNum]
    <3>1. hc.unprocessed_seqnum \subseteq SeqNum
      BY <1>0, PastIsPast
    <3> QED BY <1>0, <3>1, WdStep DEF WriterInv
  <2>2. rp' \in [Readers -> ReaderProxy] /\ \A r \in Readers : ProxyOK(rp'[r], last, Past')
    BY <1>0, <1>1, WdUnderway
  <2>3. 1..last \subseteq SeqNum /\ matched \subseteq Readers /\ an_state \in {"Waiting", "MustRepair"}
    BY <1>0 DEF WriterInv
  <2>4. \A k \in hc'.changes : k.guid = WriterGuid /\ k.seq_num <= last
    BY <1>0, <1>1 DEF WriterInv
  <2> QED BY <1>1, <1>2, <2>1, <2>2, <2>3, <2>4 DEF WriterInv
<1>4. ReadersInv'
  BY <1>1, <1>2, ReadersKept DEF BaseInv
<1>5. AcksInv'
  <2>1. \A r \in Readers : rd[r].acked \in Nat /\ rd[r].acked <= rd[r].acked
    BY ReaderParts DEF BaseInv, ReadersInv
  <2>2. \A r \in Readers : acks[r] \in Seq(AckMsgs(rd'[r].acked, Past'))
    BY <1>1, <1>2, <2>1, AcksKept DEF BaseInv
  <2> QED BY <1>2, <2>2 DEF BaseInv, AcksInv
<1>6. NetInv'
  <2> DEFINE X == Deliverable(Past')
             a(g) == Each(SeqNum, Data, LAMBDA n : WdFor(g, TRUE, n))
             b(g) == Each(SeqNum, Gap, LAMBDA n : WdFor(g, FALSE, n))
  <2>1. net' = [g \in Hosts |-> net[g] \o a(g) \o b(g)]
    BY WdStep, Zenon
  <2>2. ASSUME NEW g \in Hosts PROVE a(g) \in Seq(X) /\ b(g) \in Seq(X)
    <3>1. "unicast" \in {"unicast", "multicast"} /\ Past' \subseteq SeqNum
      BY <1>0, <1>1 DEF WriterInv
    <3>2. ASSUME NEW n \in SeqNum, WdFor(g, TRUE, n) # {}
          PROVE  n <= last /\ Datagram("unicast", WdFor(g, TRUE, n), Data(n)) \in X
      <4>1. n \in 1..last /\ n \in Nat /\ WdFor(g, TRUE, n) \in SUBSET Readers
        BY <1>0, <3>2, WdForUnsent
      <4>2. n \in Past' /\ n <= last
        BY <1>1, <4>1
      <4> QED BY <3>1, <4>1, <4>2, DatagramOK
    <3>3. ASSUME NEW n \in SeqNum, WdFor(g, FALSE, n) # {}
          PROVE  n <= last /\ Datagram("unicast", WdFor(g, FALSE, n), Gap(n)) \in X
      <4>1. n \in 1..last /\ n \in Nat /\ WdFor(g, FALSE, n) \in SUBSET Readers
        BY <1>0, <3>3, WdForUnsent
      <4>2. n \in Past' /\ n <= last
        BY <1>1, <4>1
      <4> QED BY <3>1, <4>1, <4>2, DatagramOK
    <3> HIDE DEF X
    <3> QED BY <1>1, <2>2, <3>2, <3>3, WdSends, Zenon
  <2>3. \A g \in Hosts : net[g] \in Seq(X)
    BY <1>1, NetKept DEF BaseInv
  <2> HIDE DEF X, a, b
  <2>4. \A g \in Hosts : net[g] \o a(g) \o b(g) \in Seq(X)
    BY <2>2, <2>3, ConcatProperties
  <2>5. net' \in [Hosts -> Seq(X)]
    BY <2>1, <2>4
  <2> QED BY <1>2, <2>5 DEF X, NetInv, BaseInv
<1> QED BY <1>1, <1>3, <1>4, <1>5, <1>6 DEF BaseInv

\* send_heart_beat.
LEMMA BaseSendHeartBeat ==
  ASSUME BaseInv, NEW liveliness, SendHeartBeat(liveliness)
  PROVE  BaseInv' /\ Past' = Past
<1> DEFINE done == AckedChanges(hc, rp, matched, HeartbeatLast(hc))
           h == RemoveChanges(hc, done, FALSE)
           hb == Heartbeat(HeartbeatFirst(h), HeartbeatLast(h))
           At(g) == IF CanAnnounce(h) /\ Local(g) \cap ReaderId(matched) # {}
                    THEN <<Datagram("multicast", matched, hb)>> ELSE << >>
<1>1. /\ hc' = h /\ rp' = ForgetStates(rp, matched, {k.seq_num : k \in done})
      /\ net' = [g \in Hosts |-> net[g] \o At(g)]
      /\ UNCHANGED <<last, matched, an_state, due, acks, losses, rd, known>>
  BY Zenon DEF SendHeartBeat, readerVars
<1>2. WriterInv' /\ Past' = Past
  <2>1. /\ WriterInv /\ rp \in [Readers -> ReaderProxy] /\ an_state \in {"Waiting", "MustRepair"}
        /\ \A r \in Readers : ProxyOK(rp[r], last, Past)
    BY DEF BaseInv, WriterInv
  <2> HIDE DEF done
  <2> QED BY <1>1, <2>1, DropKeeps
<1>3. hb = Heartbeat(SeqNumMin(h), SeqNumMax(h))
  BY DEF HeartbeatFirst, HeartbeatLast
<1>4. SeqNumMin(h) \in Nat /\ SeqNumMax(h) \in Past \cup {0}
  <2>1. /\ Sound(h) /\ IsCache(h) /\ h.changes \subseteq hc.changes
        /\ h.unprocessed_seqnum = hc.unprocessed_seqnum
    <3> HIDE DEF done
    <3> QED BY RemoveSound, RemoveFields DEF BaseInv, WriterInv, Sound
  <2> HIDE DEF h
  <2> QED BY <2>1, AnnouncedOK DEF BaseInv
<1>5. \A g \in Hosts : At(g) \in Seq(Deliverable(Past))
  <2>1. Datagram("multicast", matched, hb) \in Deliverable(Past)
    <3>1. Past \subseteq SeqNum /\ matched \in SUBSET Readers
      BY PastIsPast DEF BaseInv, WriterInv
    <3> DEFINE f == SeqNumMin(h)
               l == SeqNumMax(h)
    <3>2. f \in Nat /\ l \in Past \cup {0} /\ hb = Heartbeat(f, l)
      BY <1>3, <1>4
    <3> HIDE DEF f, l, hb
    <3> QED BY <3>1, <3>2, DatagramOK
  <2> HIDE DEF h, hb
  <2> QED BY <2>1
<1>6. NetInv'
  <2>1. \A g \in Hosts : net[g] \o At(g) \in Seq(Deliverable(Past))
    <3> HIDE DEF At
    <3> QED BY <1>5, ConcatProperties DEF BaseInv, NetInv
  <2>2. net' \in [Hosts -> Seq(Deliverable(Past))]
    <3> HIDE DEF At
    <3> QED BY <1>1, <2>1
  <2> QED BY <1>1, <1>2, <2>2 DEF NetInv, BaseInv
<1>7. ReadersInv'
  BY <1>1, <1>2, ReadersKept DEF BaseInv
<1>8. AcksInv'
  BY <1>1, <1>2 DEF BaseInv, AcksInv
<1> QED BY <1>2, <1>6, <1>7, <1>8 DEF BaseInv

\* What an ACKNACK under way says, and that the writer reads what was meant.
LEMMA AckContent ==
  ASSUME NEW top \in Nat, NEW P, IsPast(P), NEW m \in AckMsgs(top, P)
  PROVE  /\ m.reader_sn_state.bitmap_base \in 1..(top + 1)
         /\ SetOf(m.reader_sn_state) \subseteq P
         /\ \A n \in SetOf(m.reader_sn_state) : m.reader_sn_state.bitmap_base <= n
         /\ m = AckNack(m.reader_sn_state.bitmap_base, SetOf(m.reader_sn_state))
<1>1. PICK b \in 1..(top + 1), S \in SUBSET SeqNum :
        m = AckNack(b, S) /\ \A n \in S : b <= n /\ n \in P
  BY AckIn
<1>2. b \in Nat /\ S \in SUBSET Nat /\ \A n \in S : n >= b
  BY <1>1, SeqNumAssumption
<1>3. S # {} => Bounded(S)
  <2>1. PICK l \in Nat : \A n \in P : n <= l
    BY DEF IsPast
  <2>2. \A n \in S : n <= l
    BY <1>1, <2>1
  <2> QED BY <1>2, <2>2, GreatestNat DEF Bounded
<1>4. m.reader_sn_state = FromVec(b, S)
  BY <1>1 DEF AckNack
<1>5. m.reader_sn_state.bitmap_base = b
  BY <1>4 DEF FromVec
<1>6. SetOf(m.reader_sn_state) = S
  BY <1>2, <1>3, <1>4, SetRoundTrip
<1> QED BY <1>1, <1>5, <1>6

\* handle_acknack of an ACKNACK with this base and set: the proxy it makes of p.
Answered(p, base, S) == RequestedChangesSet(AckedChangesSet(p, base - 1), S)

\* Its entries.
LEMMA AnsweredEntries ==
  ASSUME NEW p \in ReaderProxy, NEW base \in Nat, NEW S \in SUBSET SeqNum, \A n \in S : base <= n
  PROVE  /\ Answered(p, base, S) \in ReaderProxy
         /\ \A n \in SeqNum : n \in S =>
              /\ Answered(p, base, S)[n].status = "Requested"
              /\ Answered(p, base, S)[n].is_relevant <=> p[n].status = "None" \/ p[n].is_relevant
         /\ \A n \in SeqNum : n < base =>
              /\ Answered(p, base, S)[n].status =
                   IF p[n].status = "None" THEN "None" ELSE "Acknowledged"
              /\ Answered(p, base, S)[n].is_relevant = p[n].is_relevant
         /\ \A n \in SeqNum : n >= base /\ n \notin S => Answered(p, base, S)[n] = p[n]
<1> DEFINE T == {n \in Entries(p) : n <= base - 1}
           a == WithStatus(p, T, "Acknowledged")
           b == RequestedChangesSet(a, S)
<1>0. "Acknowledged" \in ChangeForReaderStatusKind
  BY DEF ChangeForReaderStatusKind
<1>1. Answered(p, base, S) = b
  BY DEF Answered, AckedChangesSet
<1>2. \A n \in SeqNum : n \in T <=> p[n].status # "None" /\ n < base
  BY SeqNumAssumption DEF Entries
<1> HIDE DEF T
<1>3. /\ a \in ReaderProxy
      /\ \A n \in SeqNum : n \in T =>
           a[n].status = "Acknowledged" /\ a[n].is_relevant = p[n].is_relevant
      /\ \A n \in SeqNum : n \notin T => a[n] = p[n]
  BY <1>0, StatusEntries
<1> HIDE DEF a
<1>4. /\ b \in ReaderProxy
      /\ \A n \in SeqNum : n \in S =>
           b[n].status = "Requested" /\ (b[n].is_relevant <=> a[n].status = "None" \/ a[n].is_relevant)
      /\ \A n \in SeqNum : n \notin S => b[n] = a[n]
  BY <1>3, RequestedEntries
<1> HIDE DEF b
<1>5. \A n \in SeqNum : n < base => n \notin S
  BY SeqNumAssumption
<1>6. \A n \in SeqNum : n \in S \/ n >= base => n \notin T
  BY <1>2, SeqNumAssumption
<1>7. ASSUME NEW n \in SeqNum, n \in S
      PROVE  b[n].status = "Requested" /\ (b[n].is_relevant <=> p[n].status = "None" \/ p[n].is_relevant)
  <2>1. a[n] = p[n]
    BY <1>3, <1>6, <1>7
  <2> QED BY <1>4, <1>7, <2>1
<1>8. ASSUME NEW n \in SeqNum, n < base
      PROVE  /\ b[n].status = IF p[n].status = "None" THEN "None" ELSE "Acknowledged"
             /\ b[n].is_relevant = p[n].is_relevant
  <2>1. b[n] = a[n]
    BY <1>4, <1>5, <1>8
  <2>2. CASE n \in T
    BY <1>2, <1>3, <2>1, <2>2
  <2>3. CASE n \notin T
    BY <1>2, <1>3, <1>8, <2>1, <2>3
  <2> QED BY <2>2, <2>3
<1>9. ASSUME NEW n \in SeqNum, n >= base, n \notin S PROVE b[n] = p[n]
  BY <1>3, <1>4, <1>6, <1>9
<1> QED BY <1>1, <1>4, <1>7, <1>8, <1>9

\* It keeps proxies right.
LEMMA AnsweredOK ==
  ASSUME NEW l \in Nat, NEW P, P \subseteq SeqNum, \A n \in P : n <= l,
         NEW p, ProxyOK(p, l, P), NEW base \in Nat, NEW S \in SUBSET P, \A n \in S : base <= n
  PROVE  ProxyOK(Answered(p, base, S), l, P)
<1>1. p \in ReaderProxy /\ S \in SUBSET SeqNum
  BY DEF ProxyOK
<1>2. Answered(p, base, S) \in ReaderProxy
  BY <1>1, AnsweredEntries
<1>3. ASSUME NEW n \in SeqNum
      PROVE  /\ Answered(p, base, S)[n].status # "None" => n <= l
             /\ Answered(p, base, S)[n].status = "Requested" => n \in P
  <2>0. (p[n].status # "None" => n <= l) /\ (p[n].status = "Requested" => n \in P)
    BY DEF ProxyOK
  <2>1. CASE n \in S
    BY <2>1
  <2>2. CASE n < base
    BY <1>1, <2>0, <2>2, AnsweredEntries
  <2>3. CASE n >= base /\ n \notin S
    <3>1. Answered(p, base, S)[n] = p[n]
      BY <1>1, <2>3, AnsweredEntries
    <3> QED BY <2>0, <3>1
  <2> QED BY <2>1, <2>2, <2>3, SeqNumAssumption
<1> QED BY <1>2, <1>3 DEF ProxyOK

\* Sending what is requested keeps a proxy right.
LEMMA RepairedOK ==
  ASSUME NEW l, NEW P, NEW p, ProxyOK(p, l, P)
  PROVE  ProxyOK(WithStatus(p, RequestedChanges(p), "Underway"), l, P)
<1> DEFINE u == WithStatus(p, RequestedChanges(p), "Underway")
<1>0. p \in ReaderProxy /\ "Underway" \in ChangeForReaderStatusKind
  BY DEF ProxyOK, ChangeForReaderStatusKind
<1>1. u \in ReaderProxy
  BY <1>0, StatusEntries
<1>2. ASSUME NEW n \in SeqNum
      PROVE  (u[n].status # "None" => n <= l) /\ (u[n].status = "Requested" => n \in P)
  <2>1. CASE n \in RequestedChanges(p)
    <3>1. u[n].status = "Underway"
      BY <1>0, <2>1, StatusEntries
    <3>2. p[n].status = "Requested"
      BY <2>1 DEF RequestedChanges
    <3> QED BY <3>1, <3>2 DEF ProxyOK
  <2>2. CASE n \notin RequestedChanges(p)
    <3>1. u[n] = p[n]
      BY <1>0, <2>2, StatusEntries
    <3> QED BY <3>1 DEF ProxyOK
  <2> QED BY <2>1, <2>2
<1> HIDE DEF u
<1>3. ProxyOK(u, l, P)
  BY <1>1, <1>2 DEF ProxyOK
<1> QED BY <1>3 DEF u

\* The parts of handle_acknack.
AnBase(r)    == Head(acks[r]).reader_sn_state.bitmap_base
AnSet(r)     == SetOf(Head(acks[r]).reader_sn_state)
AnProxy(r)   == Answered(rp[r], AnBase(r), AnSet(r))
AnNow(r)     == an_state = "Waiting" /\ RequestedChanges(AnProxy(r)) # {} /\ NackResponseDelay = 0
AnSent(r)    == IF AnNow(r) THEN WithStatus(AnProxy(r), RequestedChanges(AnProxy(r)), "Underway")
                ELSE AnProxy(r)
AnProxies(r) == [rp EXCEPT ![r] = AnSent(r)]
AnDone(r)    == AckedChanges(hc, AnProxies(r), matched, AnBase(r) - 1)

\* handle_acknack in these terms.
LEMMA AnStep ==
  ASSUME NEW r \in Readers, HandleAckNack(r)
  PROVE  /\ acks[r] # << >> /\ r \in matched
         /\ acks' = [acks EXCEPT ![r] = Tail(@)]
         /\ an_state' \in {an_state, "MustRepair"}
         /\ net' = [net EXCEPT ![Host[r]] = IF AnNow(r) THEN @ \o NackResponse(hc, r, AnProxy(r)) ELSE @]
         /\ hc' = RemoveChanges(hc, AnDone(r), FALSE)
         /\ rp' = ForgetStates(AnProxies(r), matched, {k.seq_num : k \in AnDone(r)})
         /\ UNCHANGED <<last, matched, due, losses, rd, known>>
<1> DEFINE p == RequestedChangesSet(AckedChangesSet(rp[r], AnBase(r) - 1), AnSet(r))
<1>1. p = AnProxy(r)
  BY DEF AnProxy, Answered
<1>2. /\ acks[r] # << >> /\ r \in matched /\ acks' = [acks EXCEPT ![r] = Tail(@)]
      /\ UNCHANGED <<last, matched, due, losses, rd, known>>
  BY Zenon DEF HandleAckNack, readerVars
<1>3. an_state' \in {an_state, "MustRepair"}
  BY DEF HandleAckNack
<1> DEFINE now == (an_state = "Waiting" /\ RequestedChanges(p) # {}) /\ NackResponseDelay = 0
           sent == IF now THEN WithStatus(p, RequestedChanges(p), "Underway") ELSE p
           q == [rp EXCEPT ![r] = sent]
           done == AckedChanges(hc, q, matched, AnBase(r) - 1)
<1>4. /\ net' = [net EXCEPT ![Host[r]] = IF now THEN @ \o NackResponse(hc, r, p) ELSE @]
      /\ hc' = RemoveChanges(hc, done, FALSE)
      /\ rp' = ForgetStates(q, matched, {k.seq_num : k \in done})
  BY Zenon DEF HandleAckNack, AnBase, AnSet
<1>5. now <=> AnNow(r)
  BY <1>1, Zenon DEF AnNow
<1>6. sent = AnSent(r)
  BY <1>1, <1>5 DEF AnSent
<1>7. q = AnProxies(r)
  BY <1>6 DEF AnProxies
<1>8. done = AnDone(r)
  BY <1>7 DEF AnDone
<1> HIDE DEF p, now, sent, q, done
<1> QED BY <1>1, <1>2, <1>3, <1>4, <1>5, <1>7, <1>8

\* The first ACKNACK of a reader that waits at the writer.
LEMMA AnContent ==
  ASSUME BaseInv, NEW r \in Readers, acks[r] # << >>
  PROVE  /\ AnBase(r) \in 1..(rd[r].acked + 1) /\ AnBase(r) \in Nat /\ rd[r].acked \in Nat
         /\ AnSet(r) \subseteq Past /\ AnSet(r) \subseteq SeqNum /\ \A n \in AnSet(r) : AnBase(r) <= n
         /\ Tail(acks[r]) \in Seq(AckMsgs(rd[r].acked, Past))
<1>1. rd[r].acked \in Nat /\ acks[r] \in Seq(AckMsgs(rd[r].acked, Past)) /\ IsPast(Past)
  BY ReaderParts, PastIsPast DEF BaseInv, ReadersInv, AcksInv
<1>2. /\ Head(acks[r]) \in AckMsgs(rd[r].acked, Past)
      /\ Tail(acks[r]) \in Seq(AckMsgs(rd[r].acked, Past))
  BY <1>1, HeadTailProperties
<1>3. /\ AnBase(r) \in 1..(rd[r].acked + 1)
      /\ AnSet(r) \subseteq Past
      /\ \A n \in AnSet(r) : AnBase(r) <= n
  BY <1>1, <1>2, AckContent DEF AnBase, AnSet
<1>4. AnBase(r) \in Nat
  BY <1>1, <1>3
<1>5. AnSet(r) \subseteq SeqNum
  BY <1>1, <1>3 DEF IsPast
<1> QED BY <1>1, <1>2, <1>3, <1>4, <1>5

\* The proxies in handle_acknack stay right.
LEMMA AnProxiesOK ==
  ASSUME BaseInv, NEW r \in Readers, acks[r] # << >>
  PROVE  /\ ProxyOK(AnProxy(r), last, Past)
         /\ AnProxies(r) \in [Readers -> ReaderProxy]
         /\ \A q \in Readers : ProxyOK(AnProxies(r)[q], last, Past)
<1>0. /\ last \in Nat /\ Past \subseteq SeqNum /\ \A n \in Past : n <= last
      /\ rp \in [Readers -> ReaderProxy] /\ \A q \in Readers : ProxyOK(rp[q], last, Past)
  BY PastIsPast DEF BaseInv, WriterInv
<1>1. ProxyOK(AnProxy(r), last, Past)
  <2>1. AnBase(r) \in Nat /\ AnSet(r) \in SUBSET Past /\ \A n \in AnSet(r) : AnBase(r) <= n
    BY AnContent
  <2> QED BY <1>0, <2>1, AnsweredOK DEF AnProxy
<1>2. ProxyOK(AnSent(r), last, Past)
  BY <1>1, RepairedOK DEF AnSent
<1>3. AnSent(r) \in ReaderProxy
  BY <1>2 DEF ProxyOK
<1> QED BY <1>0, <1>1, <1>2, <1>3 DEF AnProxies

\* handle_acknack.
LEMMA BaseHandleAckNack ==
  ASSUME BaseInv, NEW r \in Readers, HandleAckNack(r)
  PROVE  BaseInv' /\ Past' = Past
<1>1. /\ acks[r] # << >> /\ acks' = [acks EXCEPT ![r] = Tail(@)]
      /\ UNCHANGED <<last, matched, due, losses, rd, known>>
  BY AnStep
<1>2. WriterInv' /\ Past' = Past
  <2>1. /\ WriterInv /\ AnProxies(r) \in [Readers -> ReaderProxy]
        /\ \A q \in Readers : ProxyOK(AnProxies(r)[q], last, Past)
        /\ an_state' \in {"Waiting", "MustRepair"}
        /\ hc' = RemoveChanges(hc, AnDone(r), FALSE)
        /\ rp' = ForgetStates(AnProxies(r), matched, {k.seq_num : k \in AnDone(r)})
    BY <1>1, AnStep, AnProxiesOK DEF BaseInv, WriterInv
  <2> QED BY <1>1, <2>1, DropKeeps
<1>3. ReadersInv'
  BY <1>1, <1>2, ReadersKept DEF BaseInv
<1>4. AcksInv'
  <2>1. Tail(acks[r]) \in Seq(AckMsgs(rd[r].acked, Past))
    BY <1>1, AnContent
  <2> QED BY <1>1, <1>2, <2>1 DEF BaseInv, AcksInv
<1>5. NackResponse(hc, r, AnProxy(r)) \in Seq(Deliverable(Past))
  <2> DEFINE p == AnProxy(r)
             X == Deliverable(Past)
  <2>0. /\ "unicast" \in {"unicast", "multicast"} /\ {r} \in SUBSET Readers
        /\ Past \subseteq SeqNum /\ last \in Nat /\ \A n \in Past : n <= last /\ n \in Nat
    BY PastIsPast DEF BaseInv
  <2>1. \A n \in RequestedChanges(p) : n \in Past /\ n <= last
    BY <1>1, <2>0, AnProxiesOK DEF RequestedChanges, ProxyOK
  <2>2. SeqNumMax(hc) \in Past \cup {0}
    BY AnnouncedOK DEF BaseInv, WriterInv, Sound
  <2>3. ASSUME NEW n \in RequestedChanges(p)
        PROVE  /\ Datagram("unicast", {r}, Data(n)) \in X
               /\ Datagram("unicast", {r}, Gap(n)) \in X
               /\ Datagram("unicast", {r}, Heartbeat(n + 1, SeqNumMax(hc))) \in X
    <3>1. n \in Past /\ n + 1 \in Nat
      BY <2>0, <2>1, <2>3
    <3> HIDE DEF X
    <3>2. Datagram("unicast", {r}, Data(n)) \in X /\ Datagram("unicast", {r}, Gap(n)) \in X
      BY <2>0, <3>1, DatagramOK DEF X
    <3>3. Datagram("unicast", {r}, Heartbeat(n + 1, SeqNumMax(hc))) \in X
      BY <2>0, <2>2, <3>1, DatagramOK DEF X
    <3> QED BY <3>2, <3>3
  <2> HIDE DEF p, X
  <2>4. NackResponse(hc, r, p) \in Seq(X)
    BY <2>0, <2>1, <2>3, NackSends
  <2> QED BY <2>4 DEF p, X
<1>6. NetInv'
  <2>1. net' = [net EXCEPT ![Host[r]] = IF AnNow(r) THEN @ \o NackResponse(hc, r, AnProxy(r)) ELSE @]
    BY AnStep
  <2>2. net \in [Hosts -> Seq(Deliverable(Past))] /\ Host[r] \in Hosts
    BY HostAssumption DEF BaseInv, NetInv
  <2>3. net[Host[r]] \o NackResponse(hc, r, AnProxy(r)) \in Seq(Deliverable(Past))
    BY <1>5, <2>2, ConcatProperties
  <2>4. net' \in [Hosts -> Seq(Deliverable(Past))]
    <3> DEFINE v == IF AnNow(r) THEN net[Host[r]] \o NackResponse(hc, r, AnProxy(r)) ELSE net[Host[r]]
    <3>1. v \in Seq(Deliverable(Past)) /\ net' = [net EXCEPT ![Host[r]] = v]
      BY <2>1, <2>2, <2>3
    <3> HIDE DEF v
    <3> QED BY <2>2, <3>1
  <2> QED BY <1>1, <1>2, <2>4 DEF NetInv, BaseInv
<1> QED BY <1>2, <1>3, <1>4, <1>6 DEF BaseInv

-----------------------------------------------------------------------------
(* What the readers and the network do. *)

\* What a message of the writer is.
LEMMA DeliverableParts ==
  ASSUME NEW P, P \subseteq SeqNum, NEW m \in Deliverable(P)
  PROVE  /\ m.body.type \in {"DATA", "GAP", "HEARTBEAT"}
         /\ m.body.type # "HEARTBEAT" => m.body.n \in P /\ NumberOf(m.body) = m.body.n
         /\ m.body.type = "HEARTBEAT" =>
              /\ m.body.first \in Nat /\ m.body.last \in Nat /\ m.body.last \in P \cup {0}
              /\ NumberOf(m.body) = m.body.last
         /\ m.to \subseteq Readers
<1>1. /\ m.body \in [type : {"DATA", "GAP"}, n : SeqNum]
                    \cup [type : {"HEARTBEAT"}, first : Nat, last : Nat]
      /\ NumberOf(m.body) \in P \cup {0} /\ m.to \subseteq Readers
  BY DEF Deliverable, Message
<1>2. CASE m.body \in [type : {"DATA", "GAP"}, n : SeqNum]
  <2>1. m.body.type \in {"DATA", "GAP"} /\ m.body.n \in SeqNum
    BY <1>2
  <2>2. m.body.n # 0 /\ m.body.type # "HEARTBEAT"
    BY <2>1, SeqNumAssumption
  <2> QED BY <1>1, <2>1, <2>2 DEF NumberOf
<1>3. CASE m.body \in [type : {"HEARTBEAT"}, first : Nat, last : Nat]
  <2>1. m.body.type = "HEARTBEAT" /\ m.body.first \in Nat /\ m.body.last \in Nat
    BY <1>3
  <2> QED BY <1>1, <2>1 DEF NumberOf
<1> QED BY <1>1, <1>2, <1>3

\* What a reader makes of a message.
LEMMA HandleOK ==
  ASSUME NEW d, NEW P, ReaderOK(d, P), IsPast(P), NEW q \in Qos, NEW m \in Deliverable(P)
  PROVE  /\ ReaderOK(Handle(d, q, m.body), P)
         /\ Handle(d, q, m.body).acked >= d.acked
         /\ m.body.type = "HEARTBEAT" /\ HbResponseDelay = 0 =>
              AckNack(AckNackBase(Handle(d, q, m.body).wp), MissingChanges(Handle(d, q, m.body).wp))
                \in AckMsgs(Handle(d, q, m.body).acked, P)
<1> DEFINE b == m.body
<1>0. P \subseteq SeqNum /\ d.acked \in Nat
  BY ReaderParts DEF IsPast
<1>1. /\ b.type \in {"DATA", "GAP", "HEARTBEAT"}
      /\ b.type # "HEARTBEAT" => b.n \in P
      /\ b.type = "HEARTBEAT" => b.first \in Nat /\ b.last \in Nat /\ b.last \in P \cup {0}
  BY <1>0, DeliverableParts
<1> HIDE DEF b
<1>2. CASE b.type = "DATA" /\ q.is_reliable
  <2>1. Handle(d, q, b) = AddReliable(d, q, b.n)
    BY <1>2 DEF Handle
  <2>2. ReaderOK(AddReliable(d, q, b.n), P) /\ AddReliable(d, q, b.n).acked = d.acked
    <3>1. b.n \in P
      BY <1>1, <1>2
    <3> QED BY <1>0, <3>1, AddReliableOK
  <2> QED BY <1>0, <1>2, <2>1, <2>2 DEF b
<1>3. CASE b.type = "DATA" /\ ~q.is_reliable
  <2>1. Handle(d, q, b) = AddBestEffort(d, q, b.n)
    BY <1>3 DEF Handle
  <2>2. ReaderOK(AddBestEffort(d, q, b.n), P) /\ AddBestEffort(d, q, b.n).acked = d.acked
    BY <1>0, <1>1, <1>3, AddBestEffortOK
  <2> QED BY <1>0, <1>3, <2>1, <2>2 DEF b
<1>4. CASE b.type = "GAP"
  <2>1. Handle(d, q, b) = HandleGap(d, b.n)
    BY <1>4 DEF Handle
  <2>2. ReaderOK(HandleGap(d, b.n), P) /\ HandleGap(d, b.n).acked = d.acked
    BY <1>0, <1>1, <1>4, HandleGapOK
  <2> QED BY <1>0, <1>4, <2>1, <2>2 DEF b
<1>5. CASE b.type = "HEARTBEAT"
  <2>1. Handle(d, q, b) = HandleHeartbeat(d, b)
    BY <1>5 DEF Handle
  <2> DEFINE e == HandleHeartbeat(d, b)
  <2>2. /\ ReaderOK(e, P) /\ e.acked >= d.acked
        /\ HbResponseDelay = 0 =>
             AckNack(AckNackBase(e.wp), MissingChanges(e.wp)) \in AckMsgs(e.acked, P)
    BY <1>0, <1>1, <1>5, HandleHeartbeatOK
  <2> HIDE DEF e
  <2> QED BY <2>1, <2>2 DEF b, e
<1> QED BY <1>1, <1>2, <1>3, <1>4, <1>5

\* The message receiver hands over a message.
LEMMA BaseReceive ==
  ASSUME BaseInv, NEW h, NEW m \in Deliverable(Past), Receive(h, m), Past' = Past, known' = known
  PROVE  ReadersInv' /\ AcksInv'
<1> DEFINE for == IF m.body.type = "HEARTBEAT" /\ ~IsValid(m.body) THEN {}
                  ELSE Local(h) \cap m.to \cap known
           New(r) == Handle(rd[r], ReaderQos[r], m.body)
           Ack(r) == AckNack(AckNackBase(rd'[r].wp), MissingChanges(rd'[r].wp))
<1>1. /\ rd' = [r \in Readers |-> IF r \in for THEN New(r) ELSE rd[r]]
      /\ acks' = [r \in Readers |->
                    IF r \in for /\ m.body.type = "HEARTBEAT" /\ HbResponseDelay = 0
                    THEN Append(acks[r], Ack(r)) ELSE acks[r]]
  BY Zenon DEF Receive
<1> HIDE DEF for
<1>2. IsPast(Past) /\ \A r \in Readers : ReaderQos[r] \in Qos /\ ReaderOK(rd[r], Past)
  BY PastIsPast, ReaderQosAssumption DEF BaseInv, ReadersInv
<1>3. ASSUME NEW r \in Readers
      PROVE  /\ ReaderOK(rd'[r], Past) /\ rd'[r].acked \in Nat /\ rd[r].acked \in Nat
             /\ rd[r].acked <= rd'[r].acked
             /\ acks'[r] \in Seq(AckMsgs(rd'[r].acked, Past))
  <2>0. rd[r].acked \in Nat
    BY <1>2, <1>3, ReaderParts
  <2>1. ReaderOK(rd'[r], Past) /\ rd[r].acked <= rd'[r].acked
    <3>1. CASE r \in for
      <4>1. rd'[r] = New(r)
        BY <1>1, <1>3, <3>1
      <4>2. ReaderOK(New(r), Past) /\ New(r).acked >= rd[r].acked
        BY <1>2, <1>3, HandleOK
      <4>3. New(r).acked \in Nat
        <5> HIDE DEF New
        <5> QED BY <4>2, ReaderParts
      <4> HIDE DEF New
      <4> QED BY <2>0, <4>1, <4>2, <4>3
    <3>2. CASE r \notin for
      BY <1>1, <1>2, <1>3, <2>0, <3>2
    <3> QED BY <3>1, <3>2
  <2>2. rd'[r].acked \in Nat
    BY <2>1, ReaderParts
  <2>3. acks[r] \in Seq(AckMsgs(rd'[r].acked, Past))
    <3>1. acks[r] \in Seq(AckMsgs(rd'[r].acked, Past'))
      BY <1>3, <2>1, <2>2, AcksKept DEF BaseInv
    <3> QED BY <3>1
  <2>4. acks'[r] \in Seq(AckMsgs(rd'[r].acked, Past))
    <3>1. CASE r \in for /\ m.body.type = "HEARTBEAT" /\ HbResponseDelay = 0
      <4>1. rd'[r] = New(r)
        BY <1>1, <1>3, <3>1
      <4>2. Ack(r) \in AckMsgs(rd'[r].acked, Past)
        BY <1>2, <1>3, <3>1, <4>1, HandleOK
      <4>3. acks'[r] = Append(acks[r], Ack(r))
        BY <1>1, <1>3, <3>1
      <4> HIDE DEF Ack
      <4> QED BY <2>3, <4>2, <4>3, AppendProperties
    <3>2. CASE ~(r \in for /\ m.body.type = "HEARTBEAT" /\ HbResponseDelay = 0)
      BY <1>1, <1>3, <2>3, <3>2
    <3> QED BY <3>1, <3>2
  <2> QED BY <2>0, <2>1, <2>2, <2>4
<1>4. DOMAIN rd' = Readers /\ DOMAIN acks' = Readers
  BY <1>1
<1>5. ReadersInv'
  BY <1>3, <1>4 DEF ReadersInv, BaseInv
<1> QED BY <1>3, <1>4, <1>5 DEF AcksInv

\* Reading or losing a datagram leaves deliverable ones.
LEMMA RemovedOK ==
  ASSUME NetInv, NEW h \in Hosts, NEW i \in DOMAIN net[h], net' = WithoutDatagram(h, i)
  PROVE  net' \in [Hosts -> Seq(Deliverable(Past))] /\ net[h][i] \in Deliverable(Past)
<1> DEFINE s == net[h]
           t == SubSeq(s, 1, i - 1) \o SubSeq(s, i + 1, Len(s))
<1>1. net \in [Hosts -> Seq(Deliverable(Past))] /\ s \in Seq(Deliverable(Past))
  BY DEF NetInv
<1>2. i \in 1..Len(s)
  BY <1>1
<1>3. net' = [net EXCEPT ![h] = t]
  BY DEF WithoutDatagram
<1> HIDE DEF s
<1>4. t \in Seq(Deliverable(Past))
  BY <1>1, <1>2, RemoveAtType
<1>5. s[i] \in Deliverable(Past)
  BY <1>1, <1>2
<1> HIDE DEF t
<1> QED BY <1>1, <1>3, <1>4, <1>5 DEF s

\* A host reads a datagram.
LEMMA BaseReceivePacket ==
  ASSUME BaseInv, NEW h \in Hosts, ReceivePacket(h)
  PROVE  BaseInv' /\ Past' = Past
<1>1. PICK i \in DOMAIN net[h] :
        Receive(h, net[h][i]) /\ net' = WithoutDatagram(h, i) /\ UNCHANGED <<losses, known>>
        /\ UNCHANGED writerVars
  BY DEF ReceivePacket
<1>2. Past' = Past /\ WriterInv'
  BY <1>1 DEF writerVars, Past, WriterInv, BaseInv
<1>3. net' \in [Hosts -> Seq(Deliverable(Past))] /\ net[h][i] \in Deliverable(Past)
  BY <1>1, RemovedOK DEF BaseInv
<1>4. ReadersInv' /\ AcksInv'
  BY <1>1, <1>2, <1>3, BaseReceive
<1>5. NetInv'
  BY <1>1, <1>2, <1>3 DEF NetInv, BaseInv
<1> QED BY <1>2, <1>4, <1>5 DEF BaseInv

\* The message receiver of the writer's participant refuses an ACKNACK.
LEMMA BaseRefuseAckNack ==
  ASSUME BaseInv, NEW r \in Readers, RefuseAckNack(r)
  PROVE  BaseInv' /\ Past' = Past
<1>1. /\ acks[r] # << >> /\ acks' = [acks EXCEPT ![r] = Tail(@)]
      /\ UNCHANGED <<net, losses>> /\ UNCHANGED writerVars /\ UNCHANGED readerVars
  BY DEF RefuseAckNack
<1>2. Past' = Past /\ WriterInv' /\ ReadersInv' /\ NetInv'
  BY <1>1 DEF writerVars, readerVars, Past, WriterInv, ReadersInv, NetInv, BaseInv
<1>3. Tail(acks[r]) \in Seq(AckMsgs(rd[r].acked, Past))
  BY <1>1, AnContent
<1>4. AcksInv'
  BY <1>1, <1>2, <1>3 DEF AcksInv, BaseInv, readerVars
<1> QED BY <1>2, <1>4 DEF BaseInv

\* The network loses a datagram.
LEMMA BaseLose ==
  ASSUME BaseInv, Lose
  PROVE  BaseInv' /\ Past' = Past
<1>1. losses' \in 0..MaxLosses
  BY BoundAssumption DEF Lose, BaseInv, NetInv
<1>2. UNCHANGED writerVars /\ UNCHANGED readerVars
  BY DEF Lose
<1>3. Past' = Past /\ WriterInv' /\ ReadersInv'
  BY <1>2 DEF writerVars, readerVars, Past, WriterInv, ReadersInv, BaseInv
<1>4. CASE /\ \E h \in Hosts : \E i \in DOMAIN net[h] : IsNext(h, i) /\ net' = WithoutDatagram(h, i)
           /\ UNCHANGED acks
  <2>1. net' \in [Hosts -> Seq(Deliverable(Past))]
    BY <1>4, RemovedOK DEF BaseInv
  <2>2. NetInv' /\ AcksInv'
    BY <1>1, <1>2, <1>3, <1>4, <2>1 DEF NetInv, AcksInv, BaseInv, readerVars
  <2> QED BY <1>3, <2>2 DEF BaseInv
<1>5. CASE /\ \E r \in Readers : acks[r] # << >> /\ acks' = [acks EXCEPT ![r] = Tail(@)]
           /\ UNCHANGED net
  <2>1. PICK r \in Readers : acks[r] # << >> /\ acks' = [acks EXCEPT ![r] = Tail(@)]
    BY <1>5
  <2>2. Tail(acks[r]) \in Seq(AckMsgs(rd[r].acked, Past))
    BY <2>1, AnContent
  <2>3. AcksInv'
    BY <1>2, <1>3, <2>1, <2>2 DEF AcksInv, BaseInv, readerVars
  <2>4. NetInv'
    BY <1>1, <1>3, <1>5 DEF NetInv, BaseInv
  <2> QED BY <1>3, <2>3, <2>4 DEF BaseInv
<1> QED BY <1>4, <1>5 DEF Lose

\* A reader whose application has taken samples.
LEMMA ReaderExceptTaken ==
  ASSUME NEW d, NEW P, ReaderOK(d, P), NEW c, NEW t, NEW e, e = [d EXCEPT !.cache = c, !.taken = t]
  PROVE  e = [cache |-> c, wp |-> d.wp, state |-> d.state, got |-> d.got,
              acked |-> d.acked, taken |-> t]
  BY ReaderParts DEF ReaderOK, IsReader

\* A reader with another WriterProxy and state.
LEMMA ReaderExceptProxy ==
  ASSUME NEW d, NEW P, ReaderOK(d, P), NEW w, NEW s, NEW e, e = [d EXCEPT !.wp = w, !.state = s]
  PROVE  e = [cache |-> d.cache, wp |-> w, state |-> s, got |-> d.got,
              acked |-> d.acked, taken |-> d.taken]
  BY ReaderParts DEF ReaderOK, IsReader

\* DataReader::take.
LEMMA TakeOK ==
  ASSUME NEW d, NEW P, ReaderOK(d, P)
  PROVE  ReaderOK([d EXCEPT !.cache = TakeReady(@),
                            !.taken = @ \cup {k.seq_num : k \in ReadyKeys(d.cache)}], P)
<1> DEFINE c == TakeReady(d.cache)
           t == d.taken \cup {k.seq_num : k \in ReadyKeys(d.cache)}
<1>1. Sound(c)
  BY ReaderParts, RemoveSound DEF TakeReady
<1>2. t \in SUBSET SeqNum
  BY ReaderParts DEF ReadyKeys, IsCache, HCKey
<1> HIDE DEF c, t
<1>3. [d EXCEPT !.cache = c, !.taken = t] =
        [cache |-> c, wp |-> d.wp, state |-> d.state, got |-> d.got, acked |-> d.acked, taken |-> t]
  BY ReaderExceptTaken
<1>4. \A n \in SeqNum : d.wp[n] # "None" => n \in P
  BY DEF ReaderOK
<1>5. ReaderOK([d EXCEPT !.cache = c, !.taken = t], P)
  BY <1>1, <1>2, <1>3, <1>4, ReaderParts, ReaderMade
<1> QED BY <1>5 DEF c, t

\* A reader's step that keeps it right and what it has acknowledged.
LEMMA ReaderStep ==
  ASSUME BaseInv, NEW r \in Readers, NEW e, ReaderOK(e, Past), e.acked = rd[r].acked,
         rd' = [rd EXCEPT ![r] = e], known' \subseteq Readers,
         UNCHANGED writerVars, UNCHANGED netVars
  PROVE  BaseInv' /\ Past' = Past
<1>1. Past' = Past /\ WriterInv' /\ NetInv'
  BY DEF writerVars, netVars, Past, WriterInv, NetInv, BaseInv
<1>2. ReadersInv'
  BY <1>1 DEF ReadersInv, BaseInv
<1>3. \A q \in Readers : rd'[q].acked = rd[q].acked
  BY DEF BaseInv, ReadersInv
<1>4. AcksInv'
  BY <1>1, <1>3 DEF AcksInv, BaseInv, netVars
<1> QED BY <1>1, <1>2, <1>4 DEF BaseInv

\* DataReader::take.
LEMMA BaseTake ==
  ASSUME BaseInv, NEW r \in Readers, Take(r)
  PROVE  BaseInv' /\ Past' = Past
<1> DEFINE d == rd[r]
           e == [d EXCEPT !.cache = TakeReady(@),
                          !.taken = @ \cup {k.seq_num : k \in ReadyKeys(d.cache)}]
<1>1. ReaderOK(d, Past) /\ known \subseteq Readers
  BY DEF BaseInv, ReadersInv
<1>2. ReaderOK(e, Past)
  BY <1>1, TakeOK
<1>3. e.acked = d.acked
  BY <1>1, ReaderParts DEF ReaderOK, IsReader
<1>4. rd' = [rd EXCEPT ![r] = e] /\ UNCHANGED writerVars /\ UNCHANGED netVars /\ known' = known
  BY DEF Take, BaseInv, ReadersInv
<1> HIDE DEF e
<1> QED BY <1>1, <1>2, <1>3, <1>4, ReaderStep

\* Reader::matched_writer_add.
LEMMA BaseMatchWriter ==
  ASSUME BaseInv, NEW r \in Readers, MatchWriter(r)
  PROVE  BaseInv' /\ Past' = Past
<1> DEFINE d == rd[r]
           e == [d EXCEPT !.wp = EmptyWriterProxy, !.state = Initial]
<1>1. ReaderOK(d, Past) /\ known \subseteq Readers
  BY DEF BaseInv, ReadersInv
<1>2. /\ EmptyWriterProxy \in WriterProxy /\ \A n \in SeqNum : EmptyWriterProxy[n] = "None"
      /\ Initial \in [kind : {"Initial", "Waiting", "Expect"}, wait : SUBSET SeqNum, next : Nat]
  BY DEF EmptyWriterProxy, WriterProxy, Initial
<1>3. e = [cache |-> d.cache, wp |-> EmptyWriterProxy, state |-> Initial, got |-> d.got,
           acked |-> d.acked, taken |-> d.taken]
  <2> DEFINE w == EmptyWriterProxy
             s == Initial
  <2> HIDE DEF d, w, s
  <2> QED BY <1>1, ReaderExceptProxy DEF w, s
<1> HIDE DEF d, e
<1>4. ReaderOK(e, Past)
  <2>1. \A n \in SeqNum : EmptyWriterProxy[n] # "None" => n \in Past
    BY <1>2
  <2> QED BY <2>1, <1>1, <1>2, <1>3, ReaderParts, ReaderMade
<1>5. e.acked = rd[r].acked
  BY <1>3 DEF d
<1>6. rd' = [rd EXCEPT ![r] = e] /\ UNCHANGED writerVars /\ UNCHANGED netVars
      /\ known' = known \cup {r}
  BY DEF MatchWriter, BaseInv, ReadersInv, d, e
<1> QED BY <1>1, <1>4, <1>5, <1>6, ReaderStep

\* The initial state.
LEMMA BaseInit ==
  ASSUME Init PROVE BaseInv
<1>1. Sound(EmptyCache) /\ EmptyCache.unprocessed_seqnum = {} /\ EmptyCache.changes = {}
  BY EmptySound DEF EmptyCache
<1>2. /\ EmptyReaderProxy \in ReaderProxy
      /\ \A n \in SeqNum : EmptyReaderProxy[n].status = "None"
  BY EmptyProxyType DEF EmptyReaderProxy, NoChangeForReader
<1>3. \A r \in Readers : ProxyOK(rp[r], last, Past)
  BY <1>2 DEF Init, ProxyOK
<1>4. WriterInv
  <2>1. rp \in [Readers -> ReaderProxy] /\ due \in [Readers -> SUBSET SeqNum]
    BY <1>2 DEF Init
  <2>2. hc = EmptyCache /\ last = 0 /\ matched = {} /\ an_state = "Waiting"
    BY DEF Init
  <2> QED BY <1>1, <1>3, <2>1, <2>2 DEF WriterInv
<1>5. ReaderOK(NewReader, Past)
  <2>1. /\ EmptyWriterProxy \in WriterProxy /\ \A n \in SeqNum : EmptyWriterProxy[n] # "None" => n \in Past
        /\ Initial \in [kind : {"Initial", "Waiting", "Expect"}, wait : SUBSET SeqNum, next : Nat]
    BY DEF EmptyWriterProxy, WriterProxy, Initial
  <2>2. {} \in SUBSET SeqNum /\ 0 \in Nat /\ 0 \in Past \cup {0}
    OBVIOUS
  <2> QED BY <1>1, <2>1, <2>2, ReaderMade DEF NewReader
<1>6. ReadersInv
  BY <1>5 DEF Init, ReadersInv
<1>7. NetInv
  BY BoundAssumption DEF Init, NetInv
<1>8. AcksInv
  BY DEF Init, AcksInv
<1> QED BY <1>4, <1>6, <1>7, <1>8 DEF BaseInv

\* Every step.
LEMMA BaseNext ==
  ASSUME BaseInv, [Next]_vars
  PROVE  BaseInv' /\ Past \subseteq Past'
<1>1. CASE \E r \in Readers, d \in {"Volatile", "TransientLocal"} : MatchReader(r, d)
  BY <1>1, BaseMatchReader
<1>2. CASE \E r \in Readers : MatchWriter(r)
  BY <1>2, BaseMatchWriter
<1>3. CASE Write
  BY <1>3, BaseWrite
<1>4. CASE HandleWriteData
  BY <1>4, BaseHandleWriteData
<1>5. CASE \E liveliness \in BOOLEAN : SendHeartBeat(liveliness)
  BY <1>5, BaseSendHeartBeat
<1>6. CASE \E r \in Readers : HandleAckNack(r) \/ RefuseAckNack(r)
  BY <1>6, BaseHandleAckNack, BaseRefuseAckNack
<1>7. CASE \E h \in Hosts : ReceivePacket(h)
  BY <1>7, BaseReceivePacket
<1>8. CASE \E r \in Readers : Take(r)
  BY <1>8, BaseTake
<1>9. CASE Lose
  BY <1>9, BaseLose
<1>10. CASE UNCHANGED vars
  BY <1>10 DEF vars, BaseInv, WriterInv, ReadersInv, NetInv, AcksInv, Past
<1> QED BY <1>1, <1>2, <1>3, <1>4, <1>5, <1>6, <1>7, <1>8, <1>9, <1>10 DEF Next

\* The invariant says that the variables have their types.
LEMMA BaseTypes == ASSUME BaseInv PROVE TypeOK
<1>1. IsCache(hc) /\ last \in SeqNum \cup {0}
  <2>1. last # 0 => last \in 1..last
    BY DEF BaseInv, WriterInv
  <2> QED BY <2>1 DEF BaseInv, WriterInv, Sound
<1>2. /\ matched \subseteq Readers /\ rp \in [Readers -> ReaderProxy]
      /\ an_state \in {"Waiting", "MustRepair"} /\ due \in [Readers -> SUBSET SeqNum]
  BY DEF BaseInv, WriterInv
<1>3. DOMAIN rd = Readers /\ (\A r \in Readers : IsReader(rd[r])) /\ known \subseteq Readers
  BY DEF BaseInv, ReadersInv, ReaderOK
<1>4. net \in [Hosts -> Seq(Message)] /\ losses \in 0..MaxLosses
  <2>1. Deliverable(Past) \subseteq Message
    BY DEF Deliverable
  <2>2. \A h \in Hosts : net[h] \in Seq(Message)
    BY <2>1, SeqMono DEF BaseInv, NetInv
  <2> QED BY <2>2 DEF BaseInv, NetInv
<1>5. ASSUME NEW r \in Readers, NEW i \in DOMAIN acks[r] PROVE IsAckNack(acks[r][i])
  <2> DEFINE m == acks[r][i]
  <2>1. /\ acks[r] \in Seq(AckMsgs(rd[r].acked, Past)) /\ rd[r].acked \in Nat
        /\ IsPast(Past) /\ Past \subseteq SeqNum
    BY PastIsPast, ReaderParts DEF BaseInv, AcksInv, ReadersInv
  <2>2. m \in AckMsgs(rd[r].acked, Past)
    BY <2>1
  <2> HIDE DEF m
  <2>3. /\ m.reader_sn_state.bitmap_base \in 1..(rd[r].acked + 1)
        /\ SetOf(m.reader_sn_state) \subseteq Past
        /\ m = AckNack(m.reader_sn_state.bitmap_base, SetOf(m.reader_sn_state))
    BY <2>1, <2>2, AckContent
  <2>4. m.reader_sn_state.bitmap_base \in Nat \ {0}
    BY <2>1, <2>3
  <2>5. IsAckNack(m)
    BY <2>1, <2>3, <2>4 DEF IsAckNack
  <2> QED BY <2>5 DEF m
<1>6. DOMAIN acks = Readers
  BY DEF BaseInv, AcksInv
<1> QED BY <1>1, <1>2, <1>3, <1>4, <1>5, <1>6 DEF TypeOK

\* The variables have their types in every reachable state.
THEOREM TypeCorrect == Spec => []TypeOK
<1>1. Init => BaseInv
  BY BaseInit
<1>2. BaseInv /\ [Next]_vars => BaseInv'
  BY BaseNext
<1>3. BaseInv => TypeOK
  BY BaseTypes
<1> QED BY <1>1, <1>2, <1>3, PTL DEF Spec

-----------------------------------------------------------------------------
(* Best-effort readers. *)

\* Pairs of keys with ascending numbers.
Ascends == {p \in HCKey \X HCKey : p[1].seq_num < p[2].seq_num}

\* A best-effort reader holds samples of the writer in ascending order; each is
\* Received and not among the taken ones, whose numbers it will forget.
Fresh(d) ==
  /\ Indexed(d.cache, Ascends)
  /\ \A k \in d.cache.changes : d.wp[k.seq_num] = "Received" /\ k \notin d.cache.taken_key
  /\ \A k \in d.cache.changes \cup d.cache.taken_key : k.guid = WriterGuid

\* Every best-effort reader is fresh, and empty before it has matched the writer.
NewestInv == \A r \in Readers \ Reliable : /\ Fresh(rd[r])
                                           /\ r \notin known => rd[r].cache = EmptyCache

\* add_change leaves the list of taken keys alone.
LEMMA AddTaken ==
  ASSUME NEW h, IsCache(h), NEW k, NEW q
  PROVE  AddChange(h, k, q).taken_key = h.taken_key
<1>1. ASSUME NEW c, IsCache(c), NEW S
      PROVE  /\ RemoveChanges(c, S, FALSE).taken_key = c.taken_key
             /\ IsCache(RemoveChanges(c, S, FALSE))
  <2>1. RemoveChanges(c, S, FALSE).taken_key = c.taken_key
    BY <1>1 DEF RemoveChanges, IsCache
  <2> QED BY <1>1, <2>1, RemoveType
<1>2. ASSUME NEW c, IsCache(c) PROVE Insert(c, k, q).taken_key = c.taken_key
  BY <1>2 DEF Insert, RemoveChanges, IsCache
<1>3. Refresh(h, k, q).taken_key = h.taken_key
  BY DEF Refresh, IsCache
<1>4. Insert(RemoveChange(h, Head(h.ts2key), FALSE), k, q).taken_key = h.taken_key
  BY <1>1, <1>2 DEF RemoveChange
<1> QED BY <1>2, <1>3, <1>4 DEF AddChange

\* A key of the writer is the key of its number.
LEMMA KeyOfNumber ==
  ASSUME NEW k \in HCKey, k.guid = WriterGuid
  PROVE  k = Key(k.seq_num) /\ k.seq_num \in SeqNum
  BY DEF HCKey, Key

\* add_change of a best-effort reader keeps it fresh.
LEMMA FreshAdd ==
  ASSUME NEW d, NEW P, ReaderOK(d, P), IsPast(P), Fresh(d), NEW q \in Qos, NEW n \in P
  PROVE  Fresh(AddBestEffort(d, q, n))
<1> DEFINE T == {k.seq_num : k \in d.cache.taken_key}
           w == RemoveWriterCacheState(d.wp, T)
           h == GetTaken(d.cache)
           v == ReceivedChangeSet(w, n)
           x == IF n > AvailableChangesMax(w) + 1 THEN LostChangesUpdate(v, n) ELSE v
           a == AddChange(h, Key(n), q)
           e == AddBestEffort(d, q, n)
<1>0. /\ n \in SeqNum /\ n \in Nat /\ Key(n) \in HCKey /\ Key(n).seq_num = n /\ Key(n).guid = WriterGuid
      /\ Sound(d.cache) /\ IsCache(d.cache) /\ d.wp \in WriterProxy
  BY KeyType, ReaderParts, SeqNumAssumption DEF IsPast
<1>1. /\ w \in WriterProxy
      /\ \A m \in SeqNum : w[m] = IF m \in T THEN "None" ELSE d.wp[m]
  BY <1>0, ForgottenType
<1>2. /\ Sound(h) /\ IsCache(h) /\ h.changes = d.cache.changes /\ h.taken_key = {}
      /\ h.ts2key = d.cache.ts2key
  BY <1>0, GetTakenSound DEF GetTaken, IsCache, Sound
<1>3. ASSUME NEW k \in d.cache.changes
      PROVE  /\ k \in HCKey /\ k.seq_num \in SeqNum /\ k.seq_num \notin T /\ w[k.seq_num] = "Received"
  <2>1. k \in HCKey /\ k.guid = WriterGuid /\ d.cache.taken_key \subseteq HCKey
    BY <1>0, <1>3 DEF Fresh, IsCache
  <2>2. k = Key(k.seq_num) /\ k.seq_num \in SeqNum
    BY <2>1, KeyOfNumber
  <2>3. \A j \in d.cache.taken_key : j = Key(j.seq_num)
    BY <2>1, KeyOfNumber DEF Fresh
  <2>4. k.seq_num \notin T
    BY <1>3, <2>2, <2>3 DEF Fresh
  <2> QED BY <1>1, <1>3, <2>1, <2>2, <2>4 DEF Fresh
<1> HIDE DEF T, w, h
<1>4. /\ AvailableChangesMax(w) \in Nat
      /\ \A m \in SeqNum : w[m] = "Received" => m <= AvailableChangesMax(w)
  <2> DEFINE A == AvailableChanges(w)
  <2>1. A \in SUBSET Nat /\ \A m \in A : m \in P
    <3>1. \A m \in SeqNum : d.wp[m] # "None" => m \in P
      BY DEF ReaderOK
    <3> QED BY <1>1, <3>1, SeqNumAssumption DEF AvailableChanges
  <2>2. PICK b \in Nat : \A m \in A : m <= b
    BY <2>1 DEF IsPast
  <2>3. \A m \in SeqNum : w[m] = "Received" => m \in A
    BY DEF AvailableChanges
  <2> HIDE DEF A
  <2>4. MaxOrZero(A) \in A \cup {0} /\ \A m \in A : m <= MaxOrZero(A)
    BY <2>1, <2>2, MaxRight
  <2>5. \A y \in A \cup {0} : y \in Nat
    BY <2>1
  <2> QED BY <2>3, <2>4, <2>5 DEF AvailableChangesMax, A
<1>5. CASE IsExpected(w, n)
  <2>1. e = [d EXCEPT !.cache = Flush(a), !.wp = x, !.got = @ \cup {n}]
    BY <1>5, Zenon DEF AddBestEffort, w, h, T
  <2>2. e.cache = Flush(a) /\ e.wp = x
    BY <2>1 DEF ReaderOK, IsReader
  <2>3. \A j \in h.changes : <<j, Key(n)>> \in Ascends
    <3> SUFFICES ASSUME NEW j \in h.changes PROVE <<j, Key(n)>> \in Ascends
      OBVIOUS
    <3>1. j \in HCKey /\ j.seq_num \in SeqNum /\ w[j.seq_num] = "Received"
      BY <1>2, <1>3
    <3>2. j.seq_num <= AvailableChangesMax(w) /\ j.seq_num \in Nat
      BY <1>4, <3>1, SeqNumAssumption
    <3>3. j.seq_num < n
      BY <1>0, <1>4, <1>5, <3>2 DEF IsExpected
    <3> QED BY <1>0, <3>1, <3>3 DEF Ascends
  <2>4. Indexed(h, Ascends)
    BY <1>2 DEF Fresh, Indexed
  <2>5. Indexed(a, Ascends) /\ Sound(a) /\ a.changes \subseteq h.changes \cup {Key(n)}
        /\ a.taken_key = {}
    BY <1>0, <1>2, <2>3, <2>4, AddIndexed, AddSound, AddFields, AddTaken
  <2> HIDE DEF a
  <2>6. /\ Flush(a).ts2key = a.ts2key /\ Flush(a).changes = a.changes
        /\ Flush(a).taken_key = {}
    BY <2>5 DEF Flush, Sound, IsCache
  <2>7. x \in WriterProxy /\ \A m \in SeqNum : w[m] = "Received" \/ m = n => x[m] = "Received"
    <3>1. v \in WriterProxy /\ \A m \in SeqNum : v[m] = IF m = n THEN "Received" ELSE w[m]
      BY <1>1, ReceivedType
    <3> HIDE DEF v
    <3>2. /\ LostChangesUpdate(v, n) \in WriterProxy
          /\ \A m \in SeqNum : LostChangesUpdate(v, n)[m] =
               IF v[m] = "Missing" /\ m < n THEN "Lost" ELSE v[m]
      BY <3>1, LostType
    <3>3. x \in {v, LostChangesUpdate(v, n)}
      OBVIOUS
    <3> HIDE DEF x
    <3> QED BY <3>1, <3>2, <3>3
  <2> HIDE DEF x
  <2>8. ASSUME NEW k \in a.changes
        PROVE  x[k.seq_num] = "Received" /\ k.guid = WriterGuid
    <3>1. CASE k = Key(n)
      BY <1>0, <2>7, <3>1
    <3>2. CASE k # Key(n)
      <4>1. k \in d.cache.changes
        BY <1>2, <2>5, <2>8, <3>2
      <4> QED BY <1>3, <2>7, <4>1 DEF Fresh
    <3> QED BY <3>1, <3>2
  <2>9. Indexed(Flush(a), Ascends)
    BY <2>5, <2>6 DEF Indexed
  <2> HIDE DEF e
  <2>10. Fresh(e)
    BY <2>2, <2>6, <2>8, <2>9 DEF Fresh
  <2> QED BY <2>10 DEF e
<1>6. CASE ~IsExpected(w, n)
  <2>1. e = [d EXCEPT !.cache = h, !.wp = w]
    BY <1>6, Zenon DEF AddBestEffort, w, h, T
  <2>2. e.cache = h /\ e.wp = w
    BY <2>1 DEF ReaderOK, IsReader
  <2>3. Indexed(h, Ascends)
    BY <1>2 DEF Fresh, Indexed
  <2>4. \A k \in h.changes : w[k.seq_num] = "Received" /\ k.guid = WriterGuid
    BY <1>2, <1>3 DEF Fresh
  <2> HIDE DEF e
  <2>5. Fresh(e)
    BY <1>2, <2>2, <2>3, <2>4 DEF Fresh
  <2> QED BY <2>5 DEF e
<1> QED BY <1>5, <1>6

\* handle_gap keeps it fresh.
LEMMA FreshGap ==
  ASSUME NEW d, NEW P, ReaderOK(d, P), Fresh(d), NEW n \in P
  PROVE  Fresh(HandleGap(d, n))
<1> DEFINE e == HandleGap(d, n)
<1>1. e.cache = d.cache /\ e.wp = IrrelevantChangeSet(d.wp, {n})
  BY HandleGapOK
<1>2. \A m \in SeqNum : e.wp[m] = IF m \in {n} THEN "Received" ELSE d.wp[m]
  BY <1>1, ReaderParts, IrrelevantType
<1>3. \A k \in d.cache.changes : k.seq_num \in SeqNum
  BY ReaderParts DEF IsCache, HCKey
<1> HIDE DEF e
<1>4. Fresh(e)
  BY <1>1, <1>2, <1>3 DEF Fresh
<1> QED BY <1>4 DEF e

\* handle_heartbeat keeps it fresh.
LEMMA FreshHeartbeat ==
  ASSUME NEW d, NEW P, ReaderOK(d, P), IsPast(P), Fresh(d),
         NEW hb, hb.first \in Nat, hb.last \in Nat, hb.last \in P \cup {0}
  PROVE  Fresh(HandleHeartbeat(d, hb))
<1> DEFINE e == HandleHeartbeat(d, hb)
           h == GetTakenLessThan(d.cache, WriterGuid, hb.first)
<1>0. IsCache(d.cache) /\ d.wp \in WriterProxy
  BY ReaderParts
<1>1. e.wp = Announce(d, hb) /\ e.cache \in {h, Flush(h)}
  BY HandleHeartbeatOK
<1>2. /\ h.changes = d.cache.changes /\ h.ts2key = d.cache.ts2key
      /\ h.taken_key \subseteq d.cache.taken_key
      /\ Flush(h).changes = d.cache.changes /\ Flush(h).ts2key = d.cache.ts2key
      /\ Flush(h).taken_key = h.taken_key
  BY <1>0 DEF GetTakenLessThan, Flush, IsCache
<1>3. /\ e.cache.changes = d.cache.changes /\ e.cache.ts2key = d.cache.ts2key
      /\ e.cache.taken_key \subseteq d.cache.taken_key
  <2> HIDE DEF h, e
  <2> QED BY <1>1, <1>2
<1>4. ASSUME NEW k \in d.cache.changes PROVE e.wp[k.seq_num] = "Received"
  <2>1. k \in HCKey /\ k.guid = WriterGuid /\ d.cache.taken_key \subseteq HCKey
    BY <1>0, <1>4 DEF Fresh, IsCache
  <2>2. k = Key(k.seq_num) /\ k.seq_num \in SeqNum
    BY <2>1, KeyOfNumber
  <2>3. \A j \in d.cache.taken_key : j = Key(j.seq_num)
    BY <2>1, KeyOfNumber DEF Fresh
  <2>4. k.seq_num \notin Old(d, hb.first)
    BY <1>4, <2>2, <2>3 DEF Fresh, Old, TakenLessThan
  <2>5. d.wp[k.seq_num] = "Received"
    BY <1>4 DEF Fresh
  <2>6. Announce(d, hb)[k.seq_num] = "Received"
    BY <1>0, <2>2, <2>4, <2>5, AnnounceType
  <2> QED BY <1>1, <2>6
<1> HIDE DEF e, h
<1>5. Fresh(e)
  BY <1>3, <1>4 DEF Fresh, Indexed
<1> QED BY <1>5 DEF e

\* take keeps it fresh.
LEMMA FreshTake ==
  ASSUME NEW d, NEW e, NEW P, ReaderOK(d, P), Fresh(d), e.cache = TakeReady(d.cache), e.wp = d.wp
  PROVE  Fresh(e)
<1> DEFINE S == ReadyKeys(d.cache)
<1>0. IsCache(d.cache) /\ S \subseteq d.cache.kind2key /\ d.cache.kind2key = d.cache.changes
  BY ReaderParts DEF ReadyKeys, Sound, LookupIndexed
<1>1. Indexed(e.cache, Ascends)
  BY <1>0, RemoveIndexed DEF Fresh, TakeReady
<1> HIDE DEF S
<1>2. /\ e.cache.changes \subseteq d.cache.changes
      /\ e.cache.taken_key \subseteq d.cache.taken_key \cup d.cache.changes
      /\ \A k \in e.cache.changes : k \in e.cache.taken_key => k \in d.cache.taken_key
  <2> DEFINE g == {k \in S : k.seq_num \notin d.cache.unprocessed_seqnum}
  <2>1. /\ e.cache.changes = d.cache.changes \ g
        /\ e.cache.taken_key = d.cache.taken_key \cup (g \cap d.cache.changes)
    BY <1>0 DEF TakeReady, S, RemoveChanges, IsCache
  <2> HIDE DEF g
  <2> QED BY <2>1
<1> QED BY <1>1, <1>2 DEF Fresh

\* What a best-effort reader makes of a message.
LEMMA FreshHandle ==
  ASSUME NEW d, NEW P, ReaderOK(d, P), IsPast(P), Fresh(d),
         NEW q \in Qos, ~q.is_reliable, NEW m \in Deliverable(P)
  PROVE  Fresh(Handle(d, q, m.body))
<1> DEFINE b == m.body
<1>1. /\ b.type \in {"DATA", "GAP", "HEARTBEAT"}
      /\ b.type # "HEARTBEAT" => b.n \in P
      /\ b.type = "HEARTBEAT" => b.first \in Nat /\ b.last \in Nat /\ b.last \in P \cup {0}
  BY DeliverableParts DEF IsPast
<1> HIDE DEF b
<1>2. CASE b.type = "DATA"
  <2>1. Handle(d, q, b) = AddBestEffort(d, q, b.n) /\ b.n \in P
    BY <1>1, <1>2 DEF Handle
  <2> QED BY <2>1, FreshAdd DEF b
<1>3. CASE b.type = "GAP"
  <2>1. Handle(d, q, b) = HandleGap(d, b.n) /\ b.n \in P
    BY <1>1, <1>3 DEF Handle
  <2> QED BY <2>1, FreshGap DEF b
<1>4. CASE b.type = "HEARTBEAT"
  <2>1. Handle(d, q, b) = HandleHeartbeat(d, b)
    BY <1>4 DEF Handle
  <2> QED BY <1>1, <1>4, <2>1, FreshHeartbeat DEF b
<1> QED BY <1>1, <1>2, <1>3, <1>4

\* Every step keeps the best-effort readers fresh.
LEMMA NewestNext ==
  ASSUME BaseInv, NewestInv, [Next]_vars
  PROVE  NewestInv'
<1>0. \A r \in Readers : ReaderOK(rd[r], Past) /\ IsPast(Past) /\ ReaderQos[r] \in Qos
  BY PastIsPast, ReaderQosAssumption DEF BaseInv, ReadersInv
<1>1. CASE UNCHANGED <<rd, known>>
  BY <1>1 DEF NewestInv, Reliable
<1>2. CASE \E r \in Readers : MatchWriter(r)
  <2>1. PICK r \in Readers : MatchWriter(r)
    BY <1>2
  <2>2. rd' = [rd EXCEPT ![r] = [@ EXCEPT !.wp = EmptyWriterProxy, !.state = Initial]]
        /\ known' = known \cup {r} /\ r \notin known /\ DOMAIN rd = Readers
    BY <2>1 DEF MatchWriter, BaseInv, ReadersInv
  <2>3. ASSUME NEW q \in Readers \ Reliable
        PROVE  Fresh(rd'[q]) /\ (q \notin known' => rd'[q].cache = EmptyCache)
    <3>1. CASE q # r
      BY <2>2, <2>3, <3>1 DEF NewestInv
    <3>2. CASE q = r
      <4>1. rd'[q].cache = rd[q].cache
        BY <1>0, <2>2, <2>3, <3>2 DEF ReaderOK, IsReader
      <4>2. rd'[q].cache = EmptyCache
        BY <2>2, <2>3, <3>2, <4>1 DEF NewestInv
      <4>3. Fresh(rd[q]) /\ rd[q].cache = EmptyCache
        BY <2>2, <2>3, <3>2 DEF NewestInv
      <4>4. EmptyCache.changes = {}
        BY DEF EmptyCache
      <4> QED BY <2>2, <3>2, <4>1, <4>2, <4>3, <4>4 DEF Fresh
    <3> QED BY <3>1, <3>2
  <2> QED BY <2>3 DEF NewestInv, Reliable
<1>3. CASE \E h \in Hosts : ReceivePacket(h)
  <2>1. PICK h \in Hosts : ReceivePacket(h)
    BY <1>3
  <2>2. PICK i \in DOMAIN net[h] :
          Receive(h, net[h][i]) /\ net' = WithoutDatagram(h, i) /\ known' = known
    BY <2>1 DEF ReceivePacket
  <2> DEFINE m == net[h][i]
             for == IF m.body.type = "HEARTBEAT" /\ ~IsValid(m.body) THEN {}
                    ELSE Local(h) \cap m.to \cap known
  <2>3. rd' = [r \in Readers |-> IF r \in for THEN Handle(rd[r], ReaderQos[r], m.body) ELSE rd[r]]
    BY <2>2, Zenon DEF Receive
  <2>4. m \in Deliverable(Past)
    BY <2>2, RemovedOK DEF BaseInv
  <2>5. \A r \in for : r \in known
    OBVIOUS
  <2> HIDE DEF m, for
  <2>6. ASSUME NEW q \in Readers \ Reliable
        PROVE  Fresh(rd'[q]) /\ (q \notin known' => rd'[q].cache = EmptyCache)
    <3>0. Fresh(rd[q]) /\ (q \notin known => rd[q].cache = EmptyCache)
      BY <2>6 DEF NewestInv
    <3>1. CASE q \in for
      <4>1. Fresh(Handle(rd[q], ReaderQos[q], m.body))
        <5>1. ~ReaderQos[q].is_reliable
          BY <2>6 DEF Reliable
        <5> QED BY <1>0, <2>4, <2>6, <3>0, <5>1, FreshHandle
      <4> QED BY <2>2, <2>3, <2>5, <2>6, <3>1, <4>1
    <3>2. CASE q \notin for
      BY <2>2, <2>3, <2>6, <3>0, <3>2
    <3> QED BY <3>1, <3>2
  <2> QED BY <2>6 DEF NewestInv, Reliable
<1>4. CASE \E r \in Readers : Take(r)
  <2>1. PICK r \in Readers : Take(r)
    BY <1>4
  <2> DEFINE c == TakeReady(rd[r].cache)
             t == rd[r].taken \cup {k.seq_num : k \in ReadyKeys(rd[r].cache)}
             e == [rd[r] EXCEPT !.cache = c, !.taken = t]
  <2>2. /\ rd' = [rd EXCEPT ![r] = e]
        /\ known' = known /\ ReadyKeys(rd[r].cache) # {} /\ DOMAIN rd = Readers
    BY <2>1 DEF Take, BaseInv, ReadersInv
  <2>3. ASSUME NEW q \in Readers \ Reliable
        PROVE  Fresh(rd'[q]) /\ (q \notin known' => rd'[q].cache = EmptyCache)
    <3>1. CASE q # r
      <4> HIDE DEF e
      <4> QED BY <2>2, <2>3, <3>1 DEF NewestInv
    <3>2. CASE q = r
      <4>1. rd'[q].cache = TakeReady(rd[q].cache) /\ rd'[q].wp = rd[q].wp
        <5>1. e.cache = c /\ e.wp = rd[r].wp
          BY <1>0 DEF ReaderOK, IsReader
        <5> HIDE DEF e
        <5> QED BY <2>2, <3>2, <5>1
      <4>2. Fresh(rd[q]) /\ (q \notin known => rd[q].cache = EmptyCache)
        BY <2>3 DEF NewestInv
      <4>3. Fresh(rd'[q])
        BY <1>0, <2>3, <4>1, <4>2, FreshTake
      <4>4. ReadyKeys(EmptyCache) = {}
        BY DEF ReadyKeys, EmptyCache
      <4> QED BY <2>2, <3>2, <4>2, <4>3, <4>4
    <3> QED BY <3>1, <3>2
  <2> QED BY <2>3 DEF NewestInv, Reliable
<1> QED BY <1>1, <1>2, <1>3, <1>4
     DEF Next, vars, MatchReader, Write, HandleWriteData, SendHeartBeat, HandleAckNack,
         RefuseAckNack, Lose, readerVars

\* What a best-effort reader holds for its application came in ascending order,
\* whatever is repaired, announced, lost or delayed.
THEOREM NewestKept == Spec => []NewestLast
<1>1. Init => BaseInv /\ NewestInv
  <2> SUFFICES ASSUME Init PROVE NewestInv
    BY BaseInit
  <2>1. \A r \in Readers : rd[r].cache = EmptyCache
    BY DEF Init, NewReader
  <2>2. /\ EmptyCache.ts2key = << >> /\ EmptyCache.changes = {} /\ EmptyCache.taken_key = {}
        /\ << >> \in Seq(HCKey) /\ Len(<< >>) = 0
    BY DEF EmptyCache
  <2>3. Indexed(EmptyCache, Ascends)
    BY <2>2 DEF Indexed, PairsIn, Range
  <2> QED BY <2>1, <2>2, <2>3 DEF NewestInv, Fresh
<1>2. BaseInv /\ NewestInv /\ [Next]_vars => BaseInv' /\ NewestInv'
  BY BaseNext, NewestNext
<1>3. NewestInv => NewestLast
  <2> SUFFICES ASSUME NewestInv, NEW r \in Readers \ Reliable,
                      NEW i \in DOMAIN rd[r].cache.ts2key, NEW j \in DOMAIN rd[r].cache.ts2key, i < j
               PROVE  rd[r].cache.ts2key[i].seq_num < rd[r].cache.ts2key[j].seq_num
    BY DEF NewestLast
  <2> DEFINE s == rd[r].cache.ts2key
  <2>1. s \in Seq(HCKey) /\ PairsIn(s, Ascends)
    BY DEF NewestInv, Fresh, Indexed
  <2>2. i \in 1..Len(s) /\ j \in 1..Len(s)
    BY <2>1
  <2>3. <<s[i], s[j]>> \in Ascends
    <3> HIDE DEF s
    <3> QED BY <2>1, <2>2 DEF PairsIn
  <2> QED BY <2>3 DEF Ascends
<1> QED BY <1>1, <1>2, <1>3, PTL DEF Spec

-----------------------------------------------------------------------------
(* Reliable readers. *)

\* The numbers that reader r may do without: it has had the sample, the writer holds
\* it no more, or the writer decided that r is not to get it.
Settled(r) == {n \in Past : \/ n \in rd[r].got
                            \/ Key(n) \notin hc.changes
                            \/ r \in matched /\ n \notin due[r]}

\* The numbers that a reader d has an entry for, and those of the messages of s before
\* the i-th one.
Seen(d)       == {n \in SeqNum : d.wp[n] # "None"}
Earlier(s, i) == {NumberOf(s[j].body) : j \in 1..(i - 1)}

\* What a reader d takes for received, lost or acknowledged is in T.
AcksOnly(d, T) == /\ \A n \in SeqNum : n <= d.acked => n \in T
                  /\ \A n \in SeqNum : d.wp[n] \in {"Received", "Lost"} => n \in T

\* Message m makes r take nothing for received or lost that is not in T: not the
\* number of a GAP, and not what a HEARTBEAT leaves out, below its first number or
\* between its last and a number of A.
Harmless(r, T, m, A) ==
  r \in m.to =>
    /\ m.body.type = "GAP" => m.body.n \in T
    /\ m.body.type = "HEARTBEAT" =>
         /\ \A n \in SeqNum : n < m.body.first => n \in T
         /\ \A a \in A : \A n \in SeqNum : m.body.last < n /\ n <= a => n \in T

\* The messages s that wait for r, which is in state d, are harmless.
HarmlessAll(r, T, s, d) ==
  \A i \in 1..Len(s) : Harmless(r, T, s[i], Seen(d) \cup Earlier(s, i))

\* Messages that are harmless whatever r knows of P.
Sure(r, T, P) == {m \in Deliverable(P) : Harmless(r, T, m, P)}

\* For smaller A and larger T, a message stays harmless.
LEMMA HarmlessMono ==
  ASSUME NEW r, NEW T, NEW U, T \subseteq U, NEW m, NEW A, NEW B, B \subseteq A, Harmless(r, T, m, A)
  PROVE  Harmless(r, U, m, B)
  BY DEF Harmless

\* So do all that wait, for a reader that knows no more.
LEMMA HarmlessAllMono ==
  ASSUME NEW r, NEW T, NEW U, T \subseteq U, NEW s, NEW d, NEW e, Seen(e) \subseteq Seen(d),
         HarmlessAll(r, T, s, d)
  PROVE  HarmlessAll(r, U, s, e)
<1>1. ASSUME NEW i \in 1..Len(s) PROVE Harmless(r, U, s[i], Seen(e) \cup Earlier(s, i))
  <2>1. Harmless(r, T, s[i], Seen(d) \cup Earlier(s, i))
    BY <1>1 DEF HarmlessAll
  <2>2. Seen(e) \cup Earlier(s, i) \subseteq Seen(d) \cup Earlier(s, i)
    OBVIOUS
  <2> QED BY <2>1, <2>2, HarmlessMono
<1> QED BY <1>1 DEF HarmlessAll

\* A sure message is harmless.
LEMMA SureHarmless ==
  ASSUME NEW r, NEW P, NEW T, NEW m \in Sure(r, T, P), NEW A, A \subseteq P \cup {0}
  PROVE  Harmless(r, T, m, A)
<1>1. Harmless(r, T, m, P)
  BY DEF Sure
<1>2. ASSUME r \in m.to, m.body.type = "HEARTBEAT", NEW a \in A, NEW n \in SeqNum,
             m.body.last < n, n <= a
      PROVE  n \in T
  <2>1. a \in P
    BY <1>2, SeqNumAssumption
  <2> QED BY <1>1, <1>2, <2>1 DEF Harmless
<1> QED BY <1>1, <1>2 DEF Harmless

\* The numbers of the messages to come are in P.
LEMMA EarlierIn ==
  ASSUME NEW P, NEW s \in Seq(Deliverable(P)), NEW i \in 1..Len(s)
  PROVE  Earlier(s, i) \subseteq P \cup {0}
<1>1. ASSUME NEW j \in 1..(i - 1) PROVE NumberOf(s[j].body) \in P \cup {0}
  <2>1. j \in 1..Len(s)
    OBVIOUS
  <2>2. s[j] \in Deliverable(P)
    BY <2>1
  <2> QED BY <2>2 DEF Deliverable
<1> QED BY <1>1 DEF Earlier

\* The writer sends sure messages t after s.
LEMMA HarmlessExtended ==
  ASSUME NEW P, NEW Q, P \subseteq Q, NEW r, NEW T, NEW U, T \subseteq U, NEW d, Seen(d) \subseteq Q,
         NEW s \in Seq(Deliverable(P)), HarmlessAll(r, T, s, d), NEW t \in Seq(Sure(r, U, Q))
  PROVE  HarmlessAll(r, U, s \o t, d)
<1> DEFINE u == s \o t
<1>0. s \in Seq(Deliverable(Q)) /\ t \in Seq(Deliverable(Q))
  <2>1. Deliverable(P) \subseteq Deliverable(Q) /\ Sure(r, U, Q) \subseteq Deliverable(Q)
    BY Monotonic DEF Sure
  <2> QED BY <2>1, SeqMono
<1>1. u \in Seq(Deliverable(Q))
  BY <1>0, ConcatProperties
<1>2. /\ Len(u) = Len(s) + Len(t) /\ Len(s) \in Nat /\ Len(t) \in Nat
      /\ \A i \in 1..Len(s) : u[i] = s[i]
      /\ \A i \in (Len(s) + 1)..Len(u) : u[i] = t[i - Len(s)] /\ i - Len(s) \in 1..Len(t)
  BY <1>0
<1> HIDE DEF u
<1>3. ASSUME NEW i \in 1..Len(u) PROVE Harmless(r, U, u[i], Seen(d) \cup Earlier(u, i))
  <2>1. CASE i \in 1..Len(s)
    <3>1. Earlier(u, i) = Earlier(s, i)
      <4>1. \A j \in 1..(i - 1) : u[j] = s[j]
        BY <1>2, <2>1
      <4> QED BY <4>1 DEF Earlier
    <3>2. Harmless(r, T, s[i], Seen(d) \cup Earlier(s, i))
      BY <2>1 DEF HarmlessAll
    <3>3. u[i] = s[i]
      BY <1>2, <2>1
    <3> QED BY <3>1, <3>2, <3>3, HarmlessMono
  <2>2. CASE i \notin 1..Len(s)
    <3>1. i \in (Len(s) + 1)..Len(u)
      BY <1>2, <1>3, <2>2
    <3>2. u[i] \in Sure(r, U, Q)
      <4>1. u[i] = t[i - Len(s)] /\ i - Len(s) \in 1..Len(t)
        BY <1>2, <3>1
      <4> QED BY <4>1, ElementOfSeq
    <3>3. Seen(d) \cup Earlier(u, i) \subseteq Q \cup {0}
      BY <1>1, <1>3, EarlierIn
    <3> QED BY <3>2, <3>3, SureHarmless
  <2> QED BY <2>1, <2>2
<1> QED BY <1>3 DEF u, HarmlessAll

\* The first message is gone, and a reader that is now in state e has entries only for
\* numbers that it knew before or that are not above that of the message.
LEMMA HarmlessTail ==
  ASSUME NEW P, NEW r, NEW T, NEW U, T \subseteq U, NEW d, NEW e,
         NEW s \in Seq(Deliverable(P)), P \subseteq SeqNum, s # << >>, HarmlessAll(r, T, s, d),
         \A n \in Seen(e) : n \in Seen(d) \/ n <= NumberOf(Head(s).body)
  PROVE  HarmlessAll(r, U, Tail(s), e)
<1> DEFINE u == Tail(s)
<1>0. u \in Seq(Deliverable(P)) /\ Len(u) = Len(s) - 1 /\ Len(s) \in Nat /\ Head(s) = s[1]
      /\ \A i \in 1..Len(u) : u[i] = s[i + 1]
  BY HeadTailProperties
<1> HIDE DEF u
<1>1. ASSUME NEW i \in 1..Len(u) PROVE Harmless(r, U, u[i], Seen(e) \cup Earlier(u, i))
  <2> DEFINE m == u[i]
             A == Seen(d) \cup Earlier(s, i + 1)
  <2>1. m = s[i + 1] /\ i + 1 \in 1..Len(s)
    BY <1>0, <1>1
  <2>2. Harmless(r, T, m, A)
    BY <2>1 DEF HarmlessAll
  <2>3. Earlier(u, i) \subseteq A
    <3>1. ASSUME NEW j \in 1..(i - 1) PROVE NumberOf(u[j].body) \in Earlier(s, i + 1)
      <4>1. j + 1 \in 1..((i + 1) - 1) /\ u[j] = s[j + 1]
        BY <1>0, <1>1, <3>1
      <4> QED BY <4>1 DEF Earlier
    <3> QED BY <3>1 DEF Earlier
  <2>4. NumberOf(Head(s).body) \in A
    <3>1. 1 \in 1..((i + 1) - 1)
      BY <1>0, <1>1
    <3> QED BY <1>0, <3>1 DEF Earlier
  <2>5. NumberOf(Head(s).body) \in Nat
    <3>1. Head(s) \in Deliverable(P)
      BY HeadTailProperties
    <3>2. NumberOf(Head(s).body) \in P \cup {0}
      BY <3>1 DEF Deliverable
    <3>3. \A x \in P \cup {0} : x \in Nat
      BY SeqNumAssumption
    <3> QED BY <3>2, <3>3
  <2> HIDE DEF m, A
  <2>6. ASSUME r \in m.to, m.body.type = "HEARTBEAT", NEW a \in Seen(e) \cup Earlier(u, i),
               NEW n \in SeqNum, m.body.last < n, n <= a
        PROVE  n \in U
    <3>1. CASE a \in Earlier(u, i)
      BY <2>2, <2>3, <2>6, <3>1 DEF Harmless
    <3>2. CASE a \in Seen(d)
      BY <2>2, <2>6, <3>2 DEF Harmless, A
    <3>3. CASE a \in Seen(e) /\ a \notin Seen(d)
      <4>1. a <= NumberOf(Head(s).body) /\ a \in Nat /\ n \in Nat
        BY <3>3, SeqNumAssumption DEF Seen
      <4>2. n <= NumberOf(Head(s).body)
        BY <2>5, <2>6, <4>1
      <4> QED BY <2>2, <2>4, <2>6, <4>2 DEF Harmless
    <3> QED BY <2>6, <3>1, <3>2, <3>3
  <2>7. Harmless(r, U, m, Seen(e) \cup Earlier(u, i))
    BY <2>2, <2>6 DEF Harmless
  <2> QED BY <2>7 DEF m
<1> QED BY <1>1 DEF u, HarmlessAll

\* An unlimited KeepAll reader keeps what it is given.
LEMMA AddKeeps ==
  ASSUME NEW h, IsCache(h), NEW k, NEW q, q.history = "KeepAll",
         q.max_samples = LENGTH_UNLIMITED, q.hc_type = "Reader"
  PROVE  k \in AddChange(h, k, q).changes
<1>1. CASE k \in h.changes
  <2>1. AddChange(h, k, q) = Refresh(h, k, q)
    BY <1>1 DEF AddChange
  <2> QED BY <1>1, <2>1 DEF Refresh, IsCache
<1>2. CASE k \notin h.changes
  <2>1. ~AtLimit(h, q)
    BY DEF AtLimit
  <2>2. AddChange(h, k, q) = Insert(h, k, q)
    BY <1>2, <2>1 DEF AddChange
  <2> QED BY <2>2 DEF Insert, IsCache
<1> QED BY <1>1, <1>2

\* A DATA at such a reader.
LEMMA DataTaken ==
  ASSUME NEW d, NEW P, ReaderOK(d, P), P \subseteq SeqNum, NEW q \in Qos, q.history = "KeepAll",
         q.max_samples = LENGTH_UNLIMITED, q.hc_type = "Reader", NEW n \in P, NEW T, AcksOnly(d, T)
  PROVE  LET e == AddReliable(d, q, n)
         IN  /\ e.got = d.got \cup {n}
             /\ AcksOnly(e, T \cup {n})
             /\ \A a \in Seen(e) : a \in Seen(d) \/ a <= n
<1> DEFINE e == AddReliable(d, q, n)
<1>1. /\ e.wp = ReceivedChangeSet(d.wp, n) /\ e.acked = d.acked
      /\ e.got = IF Key(n) \in AddChange(d.cache, Key(n), q).changes THEN d.got \cup {n} ELSE d.got
  BY AddReliableOK
<1>2. Key(n) \in AddChange(d.cache, Key(n), q).changes
  BY ReaderParts, AddKeeps
<1>3. \A a \in SeqNum : e.wp[a] = IF a = n THEN "Received" ELSE d.wp[a]
  BY <1>1, ReaderParts, ReceivedType
<1>4. n \in Nat /\ n <= n
  BY SeqNumAssumption
<1> HIDE DEF e
<1>5. AcksOnly(e, T \cup {n})
  BY <1>1, <1>3 DEF AcksOnly
<1>6. \A a \in Seen(e) : a \in Seen(d) \/ a <= n
  BY <1>3, <1>4 DEF Seen
<1> QED BY <1>1, <1>2, <1>5, <1>6 DEF e

\* A GAP at a reader.
LEMMA GapTaken ==
  ASSUME NEW d, NEW P, ReaderOK(d, P), P \subseteq SeqNum, NEW n \in P, NEW T, n \in T, AcksOnly(d, T)
  PROVE  LET e == HandleGap(d, n)
         IN  /\ e.got = d.got
             /\ AcksOnly(e, T)
             /\ \A a \in Seen(e) : a \in Seen(d) \/ a <= n
<1> DEFINE e == HandleGap(d, n)
<1>1. /\ e.wp = IrrelevantChangeSet(d.wp, {n}) /\ e.acked = d.acked /\ e.got = d.got
  BY HandleGapOK
<1>2. \A a \in SeqNum : e.wp[a] = IF a \in {n} THEN "Received" ELSE d.wp[a]
  BY <1>1, ReaderParts, IrrelevantType
<1>3. n \in Nat /\ n <= n
  BY SeqNumAssumption
<1> HIDE DEF e
<1>4. AcksOnly(e, T)
  BY <1>1, <1>2 DEF AcksOnly
<1>5. \A a \in Seen(e) : a \in Seen(d) \/ a <= n
  BY <1>2, <1>3 DEF Seen
<1> QED BY <1>1, <1>4, <1>5 DEF e

\* What the entries of a WriterProxy are after a HEARTBEAT that is harmless.
LEMMA HeartbeatEntries ==
  ASSUME NEW d, NEW P, ReaderOK(d, P), NEW hb, hb.first \in Nat, hb.last \in Nat,
         NEW T, AcksOnly(d, T), \A n \in SeqNum : n < hb.first => n \in T,
         NEW n \in SeqNum
  PROVE  /\ Announce(d, hb)[n] \in {"Received", "Lost"} => n \in T
         /\ Announce(d, hb)[n] # "None" => n \in Seen(d) \/ n <= hb.last
         /\ Announce(d, hb)[n] = "None" => n \in T \/ n > hb.last
<1> DEFINE w == Announce(d, hb)
<1>0. d.wp \in WriterProxy /\ n \in Nat
  BY ReaderParts, SeqNumAssumption
<1>1. CASE n \in Old(d, hb.first)
  <2>1. n < hb.first /\ w[n] = "None"
    BY <1>0, <1>1, AnnounceType
  <2> QED BY <2>1
<1>2. CASE n \notin Old(d, hb.first)
  <2>1. w[n] = IF d.wp[n] = "None" /\ hb.first <= n /\ n <= hb.last THEN "Missing"
               ELSE IF d.wp[n] = "Missing" /\ n < hb.first THEN "Lost" ELSE d.wp[n]
    BY <1>0, <1>2, AnnounceType
  <2> HIDE DEF w
  <2>2. w[n] \in {"Received", "Lost"} => n \in T
    BY <2>1 DEF AcksOnly
  <2>3. w[n] # "None" => n \in Seen(d) \/ n <= hb.last
    BY <2>1 DEF Seen
  <2>4. w[n] = "None" => n \in T \/ n > hb.last
    BY <1>0, <2>1
  <2> QED BY <2>2, <2>3, <2>4 DEF w
<1> QED BY <1>1, <1>2

\* A HEARTBEAT at a reader.
LEMMA HeartbeatTaken ==
  ASSUME NEW d, NEW P, ReaderOK(d, P), IsPast(P),
         NEW hb, hb.first \in Nat, hb.last \in Nat, hb.last \in P \cup {0},
         NEW T, AcksOnly(d, T), \A n \in SeqNum : n < hb.first => n \in T,
         \A a \in Seen(d) : \A n \in SeqNum : hb.last < n /\ n <= a => n \in T
  PROVE  LET e == HandleHeartbeat(d, hb)
         IN  /\ e.got = d.got
             /\ AcksOnly(e, T)
             /\ \A a \in Seen(e) : a \in Seen(d) \/ a <= hb.last
<1> DEFINE e == HandleHeartbeat(d, hb)
<1>1. /\ ReaderOK(e, P) /\ e.wp = Announce(d, hb) /\ e.got = d.got
      /\ e.acked \in {d.acked, AckNackBase(e.wp) - 1}
  BY HandleHeartbeatOK
<1> HIDE DEF e
<1>2. ASSUME NEW n \in SeqNum
      PROVE  /\ e.wp[n] \in {"Received", "Lost"} => n \in T
             /\ e.wp[n] # "None" => n \in Seen(d) \/ n <= hb.last
             /\ e.wp[n] = "None" => n \in T \/ n > hb.last
  BY <1>1, HeartbeatEntries
<1>3. ASSUME NEW n \in SeqNum, n < AckNackBase(e.wp) PROVE n \in T
  <2>1. e.wp \in WriterProxy /\ \A x \in SeqNum : e.wp[x] # "None" => x \in P
    BY <1>1, ReaderParts DEF ReaderOK
  <2>2. e.wp[n] # "Missing" /\ \E a \in SeqNum : e.wp[a] # "None" /\ n <= a
    BY <1>3, <2>1, BaseRight
  <2>3. PICK a \in SeqNum : e.wp[a] # "None" /\ n <= a
    BY <2>2
  <2>4. n \in Nat /\ a \in Nat
    BY SeqNumAssumption
  <2>5. CASE e.wp[n] = "None" /\ n \notin T
    <3>1. n > hb.last
      BY <1>2, <2>5
    <3>2. a \in Seen(d)
      BY <1>2, <2>3, <2>4, <3>1
    <3> QED BY <2>3, <3>1, <3>2
  <2>6. CASE e.wp[n] # "None"
    <3>1. e.wp[n] \in {"Received", "Lost"}
      BY <2>1, <2>2, <2>6 DEF WriterProxy, ChangeFromWriterStatusKind
    <3> QED BY <1>2, <3>1
  <2> QED BY <2>5, <2>6
<1>4. ASSUME NEW n \in SeqNum, n <= e.acked PROVE n \in T
  <2>1. CASE e.acked = d.acked
    BY <1>4, <2>1 DEF AcksOnly
  <2>2. CASE e.acked = AckNackBase(e.wp) - 1
    <3>1. AckNackBase(e.wp) \in Nat /\ n \in Nat
      <4>1. e.wp \in WriterProxy /\ \A x \in SeqNum : e.wp[x] # "None" => x \in P
        BY <1>1, ReaderParts DEF ReaderOK
      <4> QED BY <4>1, BaseRight, SeqNumAssumption
    <3>2. n < AckNackBase(e.wp)
      BY <1>4, <2>2, <3>1
    <3> QED BY <1>3, <3>2
  <2> QED BY <1>1, <2>1, <2>2
<1>5. AcksOnly(e, T)
  BY <1>2, <1>4 DEF AcksOnly
<1>6. \A a \in Seen(e) : a \in Seen(d) \/ a <= hb.last
  BY <1>2 DEF Seen
<1> QED BY <1>1, <1>5, <1>6 DEF e

\* A harmless message at an unlimited reliable KeepAll reader.
LEMMA MessageTaken ==
  ASSUME NEW d, NEW P, ReaderOK(d, P), IsPast(P), NEW q \in Qos, q.is_reliable,
         q.history = "KeepAll", q.max_samples = LENGTH_UNLIMITED, q.hc_type = "Reader",
         NEW m \in Deliverable(P), NEW r, r \in m.to, NEW T, AcksOnly(d, T),
         Harmless(r, T, m, Seen(d))
  PROVE  /\ d.got \subseteq Handle(d, q, m.body).got
         /\ AcksOnly(Handle(d, q, m.body), T \cup (Handle(d, q, m.body).got \cap P))
         /\ \A a \in Seen(Handle(d, q, m.body)) : a \in Seen(d) \/ a <= NumberOf(m.body)
<1> DEFINE b == m.body
           e == Handle(d, q, b)
<1>0. P \subseteq SeqNum /\ d.got \subseteq SeqNum
  BY ReaderParts DEF IsPast
<1>1. /\ b.type \in {"DATA", "GAP", "HEARTBEAT"}
      /\ b.type # "HEARTBEAT" => b.n \in P /\ NumberOf(b) = b.n
      /\ b.type = "HEARTBEAT" =>
           /\ b.first \in Nat /\ b.last \in Nat /\ b.last \in P \cup {0} /\ NumberOf(b) = b.last
      /\ b.type = "GAP" => b.n \in T
      /\ b.type = "HEARTBEAT" =>
           /\ \A n \in SeqNum : n < b.first => n \in T
           /\ \A a \in Seen(d) : \A n \in SeqNum : b.last < n /\ n <= a => n \in T
  BY <1>0, DeliverableParts DEF Harmless
<1> HIDE DEF b
<1>2. CASE b.type = "DATA"
  <2>1. e = AddReliable(d, q, b.n) /\ b.n \in P /\ NumberOf(b) = b.n
    BY <1>1, <1>2 DEF Handle
  <2> HIDE DEF e
  <2>2. /\ e.got = d.got \cup {b.n} /\ AcksOnly(e, T \cup {b.n})
        /\ \A a \in Seen(e) : a \in Seen(d) \/ a <= b.n
    <3> DEFINE n == b.n
    <3>1. n \in P /\ e = AddReliable(d, q, n)
      BY <2>1
    <3> HIDE DEF n
    <3>2. LET x == AddReliable(d, q, n)
          IN  /\ x.got = d.got \cup {n}
              /\ AcksOnly(x, T \cup {n})
              /\ \A a \in Seen(x) : a \in Seen(d) \/ a <= n
      BY <1>0, <3>1, DataTaken, Zenon
    <3> QED BY <3>1, <3>2 DEF n
  <2>3. T \cup {b.n} \subseteq T \cup (e.got \cap P)
    BY <2>1, <2>2
  <2>4. AcksOnly(e, T \cup (e.got \cap P))
    BY <2>2, <2>3 DEF AcksOnly
  <2> QED BY <2>1, <2>2, <2>4 DEF b, e
<1>3. CASE b.type = "GAP"
  <2>1. e = HandleGap(d, b.n) /\ b.n \in P /\ NumberOf(b) = b.n /\ b.n \in T
    BY <1>1, <1>3 DEF Handle
  <2> HIDE DEF e
  <2>2. /\ e.got = d.got /\ AcksOnly(e, T)
        /\ \A a \in Seen(e) : a \in Seen(d) \/ a <= b.n
    BY <1>0, <2>1, GapTaken
  <2>4. AcksOnly(e, T \cup (e.got \cap P))
    BY <2>2 DEF AcksOnly
  <2> QED BY <2>1, <2>2, <2>4 DEF b, e
<1>4. CASE b.type = "HEARTBEAT"
  <2>1. e = HandleHeartbeat(d, b) /\ NumberOf(b) = b.last
    BY <1>1, <1>4 DEF Handle
  <2> HIDE DEF e
  <2>2. /\ e.got = d.got /\ AcksOnly(e, T)
        /\ \A a \in Seen(e) : a \in Seen(d) \/ a <= b.last
    BY <1>1, <1>4, <2>1, HeartbeatTaken
  <2>4. AcksOnly(e, T \cup (e.got \cap P))
    BY <2>2 DEF AcksOnly
  <2> QED BY <2>1, <2>2, <2>4 DEF b, e
<1> QED BY <1>1, <1>2, <1>3, <1>4

-----------------------------------------------------------------------------
(* What the writer owes a reader. *)

\* What the writer, with cache h and l the last number written, owes a reader whose
\* proxy is p, that was to get the numbers D and got those of G.  Every number it was to
\* get is relevant while it has an entry.  A number that it did not get is not
\* acknowledged; the writer holds it and all that came after it, of which what has been
\* processed is not acknowledged either.
Owes(h, p, l, D, G) ==
  /\ \A n \in D : p[n].status # "None" => p[n].is_relevant
  /\ \A m \in D \ G :
       /\ ~IsAcked(p, m)
       /\ \A n \in SeqNum : m <= n /\ n <= l =>
            /\ Key(n) \in h.changes
            /\ n # m /\ n \notin h.unprocessed_seqnum => ~IsAcked(p, n)

\* remove_change keeps what it is not asked to remove, and what is not processed.
LEMMA RemoveKeeps ==
  ASSUME NEW h, IsCache(h), NEW S, NEW k \in h.changes,
         k \notin S \/ k.seq_num \in h.unprocessed_seqnum
  PROVE  k \in RemoveChanges(h, S, FALSE).changes
  BY DEF RemoveChanges, IsCache

\* Removing changes that all have acknowledged, and their states.
LEMMA OwesDrop ==
  ASSUME NEW h, IsCache(h), NEW p \in [Readers -> ReaderProxy], NEW M, NEW r \in Readers, r \in M,
         NEW l, NEW D \in SUBSET SeqNum, NEW G, Owes(h, p[r], l, D, G),
         NEW S, \A k \in S : IsAckedByAll(p, M, k.seq_num)
  PROVE  Owes(RemoveChanges(h, S, FALSE), ForgetStates(p, M, {k.seq_num : k \in S})[r], l, D, G)
<1> DEFINE g == RemoveChanges(h, S, FALSE)
           N == {k.seq_num : k \in S}
           q == ForgetStates(p, M, N)[r]
<1>1. \A n \in N : IsAcked(p[r], n)
  BY DEF IsAckedByAll
<1>2. \A n \in SeqNum : Key(n) \in S => n \in N
  BY KeyType
<1>3. /\ \A n \in SeqNum : n \in N => q[n].status = "None"
      /\ \A n \in SeqNum : n \notin N => q[n] = p[r][n]
  BY ForgetEntries
<1>4. g.unprocessed_seqnum = h.unprocessed_seqnum
  BY RemoveFields
<1>5. ASSUME NEW n \in SeqNum, Key(n) \in h.changes, n \notin N \/ n \in h.unprocessed_seqnum
      PROVE  Key(n) \in g.changes
  BY <1>2, <1>5, KeyType, RemoveKeeps
<1> HIDE DEF g, q, N
<1>6. \A n \in D : q[n].status # "None" => q[n].is_relevant
  BY <1>3 DEF Owes
<1>7. ASSUME NEW n \in SeqNum, ~IsAcked(p[r], n) PROVE ~IsAcked(q, n) /\ n \notin N
  <2>1. n \notin N
    BY <1>1, <1>7
  <2>2. q[n] = p[r][n]
    BY <1>3, <2>1
  <2> QED BY <1>7, <2>1, <2>2 DEF IsAcked
<1>8. ASSUME NEW m \in D \ G
      PROVE  /\ ~IsAcked(q, m)
             /\ \A n \in SeqNum : m <= n /\ n <= l =>
                  /\ Key(n) \in g.changes
                  /\ n # m /\ n \notin g.unprocessed_seqnum => ~IsAcked(q, n)
  <2>1. ~IsAcked(q, m) /\ m \notin N
    BY <1>7, <1>8 DEF Owes
  <2>2. ASSUME NEW n \in SeqNum, m <= n, n <= l
        PROVE  /\ Key(n) \in g.changes
               /\ n # m /\ n \notin g.unprocessed_seqnum => ~IsAcked(q, n)
    <3>1. Key(n) \in h.changes /\ (n # m /\ n \notin h.unprocessed_seqnum => ~IsAcked(p[r], n))
      BY <1>8, <2>2 DEF Owes
    <3>2. n \notin N \/ n \in h.unprocessed_seqnum
      BY <1>7, <2>1, <3>1
    <3> QED BY <1>4, <1>5, <1>7, <3>1, <3>2
  <2> QED BY <2>1, <2>2
<1>9. Owes(g, q, l, D, G)
  BY <1>6, <1>8 DEF Owes
<1> QED BY <1>9 DEF g, q, N

\* Sending what has an entry.
LEMMA OwesUnderway ==
  ASSUME NEW h, NEW p \in ReaderProxy, NEW l, NEW D \in SUBSET SeqNum, NEW G, Owes(h, p, l, D, G),
         NEW S, S \subseteq Entries(p)
  PROVE  Owes(h, WithStatus(p, S, "Underway"), l, D, G)
<1> DEFINE q == WithStatus(p, S, "Underway")
<1>0. "Underway" \in ChangeForReaderStatusKind
  BY DEF ChangeForReaderStatusKind
<1>1. /\ \A n \in SeqNum : n \in S => q[n].status = "Underway" /\ q[n].is_relevant = p[n].is_relevant
      /\ \A n \in SeqNum : n \notin S => q[n] = p[n]
  BY <1>0, StatusEntries
<1> HIDE DEF q
<1>2. ASSUME NEW n \in SeqNum, ~IsAcked(p, n) PROVE ~IsAcked(q, n)
  BY <1>1, <1>2 DEF IsAcked
<1>3. \A n \in D : q[n].status # "None" => q[n].is_relevant
  BY <1>1 DEF Owes, Entries
<1>4. Owes(h, q, l, D, G)
  BY <1>2, <1>3 DEF Owes
<1> QED BY <1>4 DEF q

\* An ACKNACK that acknowledges nothing that is owed.
LEMMA OwesAnswered ==
  ASSUME NEW h, NEW p \in ReaderProxy, NEW l, NEW D \in SUBSET SeqNum, NEW G, Owes(h, p, l, D, G),
         NEW base \in Nat, NEW S \in SUBSET SeqNum, \A n \in S : base <= n, \A m \in D \ G : base <= m
  PROVE  Owes(h, Answered(p, base, S), l, D, G)
<1> DEFINE q == Answered(p, base, S)
<1>1. /\ \A n \in SeqNum : n \in S =>
           q[n].status = "Requested" /\ (q[n].is_relevant <=> p[n].status = "None" \/ p[n].is_relevant)
      /\ \A n \in SeqNum : n < base =>
           /\ q[n].status = IF p[n].status = "None" THEN "None" ELSE "Acknowledged"
           /\ q[n].is_relevant = p[n].is_relevant
      /\ \A n \in SeqNum : n >= base /\ n \notin S => q[n] = p[n]
  BY AnsweredEntries
<1> HIDE DEF q
<1>2. ASSUME NEW n \in SeqNum, base <= n, ~IsAcked(p, n) PROVE ~IsAcked(q, n)
  <2>1. p[n].status # "None" /\ p[n].is_relevant
    BY <1>2 DEF IsAcked
  <2>2. CASE n \in S
    <3>1. q[n].status = "Requested" /\ q[n].is_relevant
      BY <1>1, <2>1, <2>2
    <3> QED BY <3>1 DEF IsAcked
  <2>3. CASE n \notin S
    <3>1. q[n] = p[n]
      BY <1>1, <1>2, <2>3
    <3> QED BY <1>2, <3>1 DEF IsAcked
  <2> QED BY <2>2, <2>3
<1>3. ASSUME NEW n \in D, q[n].status # "None" PROVE q[n].is_relevant
  <2>0. p[n].status # "None" => p[n].is_relevant
    BY <1>3 DEF Owes
  <2>1. CASE n \in S
    BY <1>1, <2>0, <2>1
  <2>2. CASE n < base
    BY <1>1, <1>3, <2>0, <2>2
  <2>3. CASE n >= base /\ n \notin S
    <3>1. q[n] = p[n]
      BY <1>1, <2>3
    <3> QED BY <1>3, <2>0, <3>1
  <2> QED BY <2>1, <2>2, <2>3, SeqNumAssumption
<1>4. ASSUME NEW m \in D \ G
      PROVE  /\ ~IsAcked(q, m)
             /\ \A n \in SeqNum : m <= n /\ n <= l =>
                  /\ Key(n) \in h.changes
                  /\ n # m /\ n \notin h.unprocessed_seqnum => ~IsAcked(q, n)
  <2>1. m \in Nat /\ base <= m /\ ~IsAcked(p, m)
    BY <1>4, SeqNumAssumption DEF Owes
  <2>2. ASSUME NEW n \in SeqNum, m <= n, n <= l
        PROVE  /\ Key(n) \in h.changes
               /\ n # m /\ n \notin h.unprocessed_seqnum => ~IsAcked(q, n)
    <3>1. base <= n
      BY <2>1, <2>2, SeqNumAssumption
    <3>2. Key(n) \in h.changes /\ (n # m /\ n \notin h.unprocessed_seqnum => ~IsAcked(p, n))
      BY <1>4, <2>2 DEF Owes
    <3> QED BY <1>2, <3>1, <3>2
  <2> QED BY <1>2, <2>1, <2>2
<1>5. Owes(h, q, l, D, G)
  BY <1>3, <1>4 DEF Owes
<1> QED BY <1>5 DEF q

\* Registering the new changes with a KeepAll writer.
LEMMA OwesRegistered ==
  ASSUME WriterInv, WriterQos.history = "KeepAll", NEW r \in Readers, r \in matched, NEW G,
         Owes(hc, rp[r], last, due[r], G)
  PROVE  Owes(GetUnprocessed(hc), WdNew[r], last, due[r] \cup hc.unprocessed_seqnum, G)
<1> DEFINE S == hc.unprocessed_seqnum
           p == WdNew[r]
           h == GetUnprocessed(hc)
<1>0. /\ S \subseteq SeqNum /\ due[r] \subseteq SeqNum /\ rp \in [Readers -> ReaderProxy]
      /\ Sound(hc) /\ IsCache(hc)
  BY PastIsPast DEF WriterInv, Sound
<1>1. h.changes = hc.changes /\ h.unprocessed_seqnum = {}
  BY <1>0 DEF GetUnprocessed, IsCache
<1>2. /\ \A n \in SeqNum : n \in S => p[n].status = "Unsent" /\ (p[n].is_relevant <=> IsRelevant(n, S))
      /\ \A n \in SeqNum : n \notin S => p[n] = rp[r][n]
  BY <1>0, RegisterEntries DEF WdNew
<1>3. \A n \in S : IsRelevant(n, S)
  BY DEF IsRelevant
<1>4. ASSUME NEW n \in S PROVE Key(n) \in hc.changes
  <2>1. PICK k \in hc.changes : k.seq_num = n
    BY <1>0, <1>4 DEF Sound, UnprocessedHeld
  <2>2. k \in HCKey /\ k.guid = WriterGuid
    BY <1>0 DEF WriterInv, IsCache
  <2> QED BY <2>1, <2>2, KeyOfNumber
<1>5. ASSUME NEW n \in S PROVE ~IsAcked(p, n)
  BY <1>0, <1>2, <1>3, <1>5 DEF IsAcked
<1>6. ASSUME NEW n \in SeqNum, n \notin S, ~IsAcked(rp[r], n) PROVE ~IsAcked(p, n)
  BY <1>2, <1>6 DEF IsAcked
<1>7. \A m \in S : \A n \in SeqNum : m <= n /\ n <= last => n \in S
  <2>1. \A m \in S : \A n \in m..last : n \in S
    BY DEF WriterInv
  <2>2. last \in Nat /\ SeqNum \subseteq Nat
    BY SeqNumAssumption DEF WriterInv
  <2> QED BY <1>0, <2>1, <2>2
<1>8. \A n \in due[r] \cup S : p[n].status # "None" => p[n].is_relevant
  <2>1. \A n \in S : p[n].is_relevant
    BY <1>0, <1>2, <1>3
  <2>2. \A n \in due[r] \ S : p[n] = rp[r][n]
    BY <1>0, <1>2
  <2> QED BY <2>1, <2>2 DEF Owes
<1> HIDE DEF S, p, h
<1>9. ASSUME NEW m \in (due[r] \cup S) \ G
      PROVE  /\ ~IsAcked(p, m)
             /\ \A n \in SeqNum : m <= n /\ n <= last => Key(n) \in h.changes /\ ~IsAcked(p, n)
  <2>1. CASE m \in S
    BY <1>1, <1>4, <1>5, <1>7, <2>1
  <2>2. CASE m \notin S
    <3>0. m \in due[r] \ G /\ m \in SeqNum
      BY <1>0, <1>9, <2>2
    <3>1. ~IsAcked(rp[r], m)
      BY <3>0 DEF Owes
    <3>2. ~IsAcked(p, m)
      BY <1>6, <2>2, <3>0, <3>1
    <3>3. ASSUME NEW n \in SeqNum, m <= n, n <= last
          PROVE  Key(n) \in h.changes /\ ~IsAcked(p, n)
      <4>1. Key(n) \in hc.changes /\ (n # m /\ n \notin S => ~IsAcked(rp[r], n))
        BY <3>0, <3>3 DEF Owes, S
      <4> QED BY <1>1, <1>5, <1>6, <3>2, <4>1
    <3> QED BY <3>2, <3>3
  <2> QED BY <2>1, <2>2
<1>10. Owes(h, p, last, due[r] \cup S, G)
  BY <1>8, <1>9 DEF Owes
<1> QED BY <1>10 DEF S, p, h

-----------------------------------------------------------------------------
(* The invariant for reliable readers. *)

\* The writer and the reliable readers keep all that they are given.
KeepsAll == /\ WriterQos.history = "KeepAll"
            /\ \A r \in Ordered : /\ ReaderQos[r].history = "KeepAll"
                                  /\ ReaderQos[r].max_samples = LENGTH_UNLIMITED

\* A message for some readers of a host is for no other reader there.
ExactlyAddressed == \A h \in Hosts : \A S \in SUBSET Local(h) : ReaderId(S) \cap Local(h) = S

\* The writer's cache is in order, a TransientLocal one holds the last number, and
\* nothing is due that has not been written.
StoreInv == /\ Indexed(hc, Ascends)
            /\ Durability = "TransientLocal" /\ last > 0 => Key(last) \in hc.changes
            /\ \A r \in Readers : \A n \in due[r] : n <= last

\* The writer owes every ordered reader what it was to get and has not got.
OweInv == \A r \in matched \cap Ordered : Owes(hc, rp[r], last, due[r], rd[r].got)

\* What such a reader takes for received, and what waits for it tells it so, is settled.
TrustInv == \A r \in Ordered : /\ AcksOnly(rd[r], Settled(r))
                               /\ HarmlessAll(r, Settled(r), net[Host[r]], rd[r])

-----------------------------------------------------------------------------
(* The steps of the writer. *)

\* A message reaches only those it is for when no host has more than two readers: the id of one
\* is its own, and the id UNKNOW of two is for all there are.
LEMMA TwoPerHost ==
  ASSUME \A h \in Hosts : \E a, b : Local(h) \subseteq {a, b}
  PROVE  ExactlyAddressed
<1> SUFFICES ASSUME NEW h \in Hosts, NEW S \in SUBSET Local(h) PROVE ReaderId(S) \cap Local(h) = S
  BY DEF ExactlyAddressed
<1>1. PICK a, b : Local(h) \subseteq {a, b}
  OBVIOUS
<1>2. CASE S = {}
  <2>1. Cardinality(S) = 0
    BY <1>2, FS_EmptySet
  <2> QED BY <1>2, <2>1 DEF ReaderId
<1>3. CASE \E x : S = {x}
  <2>1. PICK x : S = {x}
    BY <1>3
  <2>2. Cardinality(S) = 1
    BY <2>1, FS_Singleton
  <2>3. ReaderId(S) = Addressed(x)
    BY <2>1, <2>2 DEF ReaderId
  <2>4. x \in Readers /\ Host[x] = h
    BY <2>1 DEF Local
  <2>5. ASSUME NEW q \in Readers PROVE q \in Addressed(x) /\ q \in Local(h) <=> q = x
    BY <2>4, HostAssumption DEF Addressed, Local
  <2> QED BY <2>1, <2>3, <2>4, <2>5 DEF Local
<1>4. CASE S = {a, b} /\ a # b
  <2>1. IsFiniteSet({a}) /\ Cardinality({a}) = 1
    BY FS_Singleton
  <2>2. Cardinality({a} \cup {b}) = 2
    BY <1>4, <2>1, FS_AddElement
  <2>3. S = {a} \cup {b}
    BY <1>4
  <2>4. ReaderId(S) = Readers
    BY <2>2, <2>3 DEF ReaderId
  <2> QED BY <1>1, <1>4, <2>4 DEF Local
<1>5. S = {} \/ (\E x : S = {x}) \/ (S = {a, b} /\ a # b)
  BY <1>1
<1> QED BY <1>2, <1>3, <1>4, <1>5

\* What is settled stays settled.
LEMMA SettledGrows ==
  ASSUME NEW r, Past \subseteq Past', rd[r].got \subseteq rd'[r].got,
         \A n \in Past : Key(n) \in hc'.changes => Key(n) \in hc.changes,
         matched \subseteq matched',
         r \in matched => \A n \in Past : n \in due'[r] => n \in due[r]
  PROVE  Settled(r) \subseteq Settled(r)'
  BY DEF Settled

\* What is owed is not settled, and what is not acknowledged is held.
LEMMA OwedUnsettled ==
  ASSUME WriterInv, StoreInv, OweInv, NEW r \in matched \cap Ordered, NEW m \in due[r] \ rd[r].got
  PROVE  /\ Key(m) \in hc.changes /\ m \notin Settled(r) /\ m \in SeqNum
         /\ ~IsAcked(rp[r], m)
         /\ \A n \in SeqNum : m <= n /\ n <= last => Key(n) \in hc.changes
<1>1. r \in Readers /\ m \in SeqNum /\ m \in Nat /\ m <= last
  BY SeqNumAssumption DEF WriterInv, StoreInv, Ordered, Reliable
<1>2. Owes(hc, rp[r], last, due[r], rd[r].got)
  BY DEF OweInv
<1>3. ~IsAcked(rp[r], m) /\ \A n \in SeqNum : m <= n /\ n <= last => Key(n) \in hc.changes
  BY <1>2 DEF Owes
<1>4. Key(m) \in hc.changes
  BY <1>1, <1>3
<1>5. m \notin Settled(r)
  BY <1>4 DEF Settled
<1> QED BY <1>1, <1>3, <1>4, <1>5

\* The writer has sent sure messages, the readers stood still.
LEMMA TrustSent ==
  ASSUME BaseInv, BaseInv', TrustInv, Past \subseteq Past', UNCHANGED rd,
         \A r \in Ordered : Settled(r) \subseteq Settled(r)',
         \A r \in Ordered : \E t \in Seq(Sure(r, Settled(r)', Past')) :
           net'[Host[r]] = net[Host[r]] \o t
  PROVE  TrustInv'
<1> SUFFICES ASSUME NEW r \in Ordered
             PROVE  /\ AcksOnly(rd[r], Settled(r)')
                    /\ HarmlessAll(r, Settled(r)', net'[Host[r]], rd[r])
  BY DEF TrustInv, Ordered, Reliable
<1>0. r \in Readers /\ Host[r] \in Hosts
  BY HostAssumption DEF Ordered, Reliable
<1> DEFINE T == Settled(r)
           U == Settled(r)'
           d == rd[r]
           s == net[Host[r]]
           Q == Past'
<1>1. T \subseteq U /\ AcksOnly(d, T) /\ HarmlessAll(r, T, s, d)
  BY DEF TrustInv
<1>2. s \in Seq(Deliverable(Past)) /\ Past \subseteq Q /\ Seen(d) \subseteq Q
  BY <1>0 DEF BaseInv, NetInv, ReadersInv, ReaderOK, Seen
<1>3. PICK t \in Seq(Sure(r, U, Q)) : net'[Host[r]] = s \o t
  OBVIOUS
<1> HIDE DEF T, U, d, s, Q
<1>4. AcksOnly(d, U)
  BY <1>1 DEF AcksOnly
<1>5. HarmlessAll(r, U, s \o t, d)
  BY <1>1, <1>2, HarmlessExtended
<1>6. AcksOnly(d, U) /\ HarmlessAll(r, U, net'[Host[r]], d)
  BY <1>3, <1>4, <1>5
<1> QED BY <1>6 DEF U, d

\* Nothing is sent.
LEMMA TrustStill ==
  ASSUME BaseInv, TrustInv, UNCHANGED <<rd, net>>,
         \A r \in Ordered : Settled(r) \subseteq Settled(r)'
  PROVE  TrustInv'
<1> SUFFICES ASSUME NEW r \in Ordered
             PROVE  /\ AcksOnly(rd[r], Settled(r)')
                    /\ HarmlessAll(r, Settled(r)', net[Host[r]], rd[r])
  BY DEF TrustInv, Ordered, Reliable
<1> DEFINE T == Settled(r)
           U == Settled(r)'
<1>1. T \subseteq U /\ AcksOnly(rd[r], T) /\ HarmlessAll(r, T, net[Host[r]], rd[r])
  BY DEF TrustInv
<1> HIDE DEF T, U
<1>2. AcksOnly(rd[r], U)
  BY <1>1 DEF AcksOnly
<1>3. HarmlessAll(r, U, net[Host[r]], rd[r])
  BY <1>1, HarmlessAllMono
<1> QED BY <1>2, <1>3 DEF U

\* The last sample in the cache of a TransientLocal writer is the last one written.
LEMMA LatestIsLast ==
  ASSUME WriterInv, StoreInv, Durability = "TransientLocal", hc.ts2key # << >>
  PROVE  hc.ts2key[Len(hc.ts2key)].seq_num = last /\ Key(last) \in hc.changes /\ last \in SeqNum
<1> DEFINE s == hc.ts2key
           k == s[Len(s)]
<1>1. s \in Seq(HCKey) /\ Range(s) = hc.changes /\ PairsIn(s, Ascends)
  BY DEF StoreInv, Indexed
<1>2. Len(s) \in 1..Len(s) /\ DOMAIN s = 1..Len(s) /\ Len(s) \in Nat
  BY <1>1
<1>3. k \in hc.changes /\ k \in HCKey
  BY <1>1, <1>2 DEF Range
<1>4. k.seq_num \in Nat \ {0} /\ k.seq_num <= last /\ last \in Nat
  BY <1>3, SeqNumAssumption DEF WriterInv, HCKey
<1>5. last > 0 /\ last \in SeqNum
  <2>1. last > 0
    BY <1>4
  <2>2. last \in 1..last
    BY <1>4, <2>1
  <2> QED BY <2>1, <2>2 DEF WriterInv
<1>6. Key(last) \in hc.changes /\ Key(last).seq_num = last
  BY <1>5, KeyType DEF StoreInv
<1>7. PICK i \in 1..Len(s) : s[i] = Key(last)
  BY <1>1, <1>2, <1>6 DEF Range
<1>8. i < Len(s) => last < k.seq_num
  <2>1. i < Len(s) => <<s[i], s[Len(s)]>> \in Ascends
    <3> HIDE DEF s
    <3> QED BY <1>1, <1>2 DEF PairsIn
  <2> QED BY <1>6, <1>7, <2>1 DEF Ascends
<1>9. i = Len(s)
  <2> DEFINE x == k.seq_num
  <2>1. x \in Nat /\ x <= last /\ last \in Nat /\ (i < Len(s) => last < x)
    BY <1>4, <1>8
  <2> HIDE DEF x
  <2>2. ~(i < Len(s))
    BY <2>1
  <2> QED BY <1>2, <1>7, <2>2
<1> QED BY <1>5, <1>6, <1>7, <1>9

\* Writer::matched_reader_add.
LEMMA GoodMatchReader ==
  ASSUME BaseInv, StoreInv, OweInv, TrustInv, NEW q \in Readers, NEW d, MatchReader(q, d)
  PROVE  StoreInv' /\ OweInv' /\ TrustInv'
<1> DEFINE p == ProxyOf(hc, d)
<1>0. BaseInv' /\ Past' = Past /\ WriterInv
  BY BaseMatchReader DEF BaseInv
<1>1. /\ p \in ReaderProxy
      /\ \A n \in SeqNum : p[n].is_relevant =>
           p[n].status = "Unsent" /\ d = "TransientLocal"
           /\ hc.ts2key # << >> /\ n = hc.ts2key[Len(hc.ts2key)].seq_num
  BY NewEntries
<1> HIDE DEF p
<1>2. /\ q \notin matched /\ (d = "TransientLocal" => Durability = "TransientLocal")
      /\ matched' = matched \cup {q} /\ rp' = [rp EXCEPT ![q] = p]
      /\ due' = [due EXCEPT ![q] = {n \in SeqNum : rp'[q][n].is_relevant}]
      /\ UNCHANGED <<hc, last, an_state, rd, known, net, acks, losses>>
      /\ rp \in [Readers -> ReaderProxy] /\ due \in [Readers -> SUBSET SeqNum]
  BY DEF MatchReader, p, readerVars, netVars, BaseInv, WriterInv
<1>3. due'[q] = {n \in SeqNum : p[n].is_relevant} /\ rp'[q] = p
      /\ \A r \in Readers : r # q => due'[r] = due[r] /\ rp'[r] = rp[r]
  BY <1>2
<1>4. \A n \in due'[q] : n = last /\ Key(last) \in hc.changes /\ last \in SeqNum /\ ~IsAcked(p, last)
  <2> SUFFICES ASSUME NEW n \in due'[q]
               PROVE  n = last /\ Key(last) \in hc.changes /\ last \in SeqNum /\ ~IsAcked(p, last)
    OBVIOUS
  <2>1. /\ n \in SeqNum /\ p[n].is_relevant /\ p[n].status = "Unsent" /\ d = "TransientLocal"
        /\ hc.ts2key # << >> /\ n = hc.ts2key[Len(hc.ts2key)].seq_num
    BY <1>1, <1>3
  <2>2. n = last /\ Key(last) \in hc.changes /\ last \in SeqNum
    BY <1>0, <1>2, <2>1, LatestIsLast
  <2> QED BY <2>1, <2>2 DEF IsAcked
<1>5. StoreInv'
  <2>1. last \in Nat
    BY <1>0 DEF WriterInv
  <2>2. \A r \in Readers : \A n \in due'[r] : n <= last
    BY <1>3, <1>4, <2>1 DEF StoreInv
  <2> QED BY <1>2, <2>2 DEF StoreInv
<1>6. OweInv'
  <2> SUFFICES ASSUME NEW r \in matched' \cap Ordered
               PROVE  Owes(hc, rp'[r], last, due'[r], rd[r].got)
    BY <1>2 DEF OweInv, Ordered, Reliable
  <2>1. CASE r = q
    <3>1. \A n \in due'[q] : p[n].status # "None" => p[n].is_relevant
      BY <1>3
    <3>2. last \in Nat /\ \A n \in SeqNum : n \in Nat
      BY <1>0, SeqNumAssumption DEF WriterInv
    <3>3. \A m \in due'[q] : /\ ~IsAcked(p, m)
                             /\ \A n \in SeqNum : m <= n /\ n <= last => n = m /\ Key(n) \in hc.changes
      BY <1>4, <3>2
    <3>4. Owes(hc, p, last, due'[q], rd[q].got)
      BY <3>1, <3>3 DEF Owes
    <3> QED BY <1>3, <2>1, <3>4
  <2>2. CASE r # q
    <3>1. r \in Readers /\ r \in matched \cap Ordered
      BY <1>2, <2>2 DEF Ordered, Reliable
    <3> QED BY <1>3, <2>2, <3>1 DEF OweInv
  <2> QED BY <2>1, <2>2
<1>7. TrustInv'
  <2>1. \A r \in Ordered : Settled(r) \subseteq Settled(r)'
    <3> SUFFICES ASSUME NEW r \in Ordered PROVE Settled(r) \subseteq Settled(r)'
      OBVIOUS
    <3>1. r \in Readers
      BY DEF Ordered, Reliable
    <3>2. r \in matched => due'[r] = due[r]
      BY <1>2, <1>3, <3>1
    <3> QED BY <1>0, <1>2, <3>2, SettledGrows
  <2> QED BY <1>2, <2>1, TrustStill
<1> QED BY <1>5, <1>6, <1>7

\* DataWriter::write.
LEMMA GoodWrite ==
  ASSUME BaseInv, StoreInv, OweInv, TrustInv, Write
  PROVE  StoreInv' /\ OweInv' /\ TrustInv'
<1>0. BaseInv' /\ Past' = Past /\ WriterInv /\ last \in Nat /\ Sound(hc) /\ IsCache(hc)
  BY BaseWrite DEF BaseInv, WriterInv, Sound
<1>1. /\ hc'.changes = hc.changes \cup {Key(last + 1)} /\ Sound(hc')
      /\ hc'.unprocessed_seqnum = hc.unprocessed_seqnum \cup {last + 1}
      /\ last' = last + 1 /\ last + 1 \in SeqNum
  BY <1>0, WriteStep
<1>2. UNCHANGED <<matched, rp, an_state, due, rd, known, net, acks, losses>>
  BY DEF Write, readerVars, netVars
<1>3. Key(last + 1) \in HCKey /\ Key(last + 1).seq_num = last + 1
  BY <1>1, KeyType
<1>4. \A r \in Readers : \A n \in due[r] : n \in SeqNum /\ n \in Nat /\ n <= last
  BY <1>0, SeqNumAssumption DEF StoreInv, WriterInv
<1>5. StoreInv'
  <2>1. Indexed(hc', Ascends)
    <3>1. hc' = AddChange(hc, Key(last + 1), WriterQos) /\ WriterQos \in Qos
      BY WriterQosAssumption DEF Write
    <3>2. \A j \in hc.changes : <<j, Key(last + 1)>> \in Ascends
      <4> SUFFICES ASSUME NEW j \in hc.changes PROVE <<j, Key(last + 1)>> \in Ascends
        OBVIOUS
      <4>1. j \in HCKey /\ j.seq_num \in Nat /\ j.seq_num <= last
        BY <1>0, SeqNumAssumption DEF WriterInv, IsCache, HCKey
      <4>2. j.seq_num < last + 1
        BY <1>0, <4>1
      <4> QED BY <1>3, <4>1, <4>2 DEF Ascends
    <3> QED BY <1>0, <1>3, <3>1, <3>2, AddIndexed DEF StoreInv
  <2>2. \A r \in Readers : \A n \in due[r] : n <= last + 1
    BY <1>0, <1>4
  <2> QED BY <1>1, <1>2, <2>1, <2>2 DEF StoreInv, Key
<1>6. OweInv'
  <2> SUFFICES ASSUME NEW r \in matched \cap Ordered
               PROVE  Owes(hc', rp[r], last + 1, due[r], rd[r].got)
    BY <1>1, <1>2 DEF OweInv, Ordered, Reliable
  <2>0. r \in Readers
    BY DEF Ordered, Reliable
  <2>1. Owes(hc, rp[r], last, due[r], rd[r].got)
    BY DEF OweInv
  <2>2. ASSUME NEW m \in due[r] \ rd[r].got, NEW n \in SeqNum, m <= n, n <= last + 1
        PROVE  /\ Key(n) \in hc'.changes
               /\ n # m /\ n \notin hc'.unprocessed_seqnum => ~IsAcked(rp[r], n)
    <3>1. CASE n = last + 1
      BY <1>1, <3>1
    <3>2. CASE n # last + 1
      <4>1. n <= last
        BY <1>0, <2>2, <3>2, SeqNumAssumption
      <4> QED BY <1>1, <2>1, <2>2, <4>1 DEF Owes
    <3> QED BY <3>1, <3>2
  <2>3. \A m \in due[r] \ rd[r].got : ~IsAcked(rp[r], m)
    BY <2>1 DEF Owes
  <2>4. \A n \in due[r] : rp[r][n].status # "None" => rp[r][n].is_relevant
    BY <2>1 DEF Owes
  <2> QED BY <2>2, <2>3, <2>4 DEF Owes
<1>7. TrustInv'
  <2>1. \A n \in Past : Key(n) \in hc'.changes => Key(n) \in hc.changes
    <3> SUFFICES ASSUME NEW n \in Past, Key(n) = Key(last + 1) PROVE FALSE
      BY <1>1
    <3>1. n \in SeqNum /\ n \in Nat /\ n <= last
      BY <1>0, PastIsPast
    <3>2. Key(n).seq_num = n
      BY <3>1, KeyType
    <3> QED BY <1>0, <1>3, <3>1, <3>2
  <2>2. \A r \in Ordered : Settled(r) \subseteq Settled(r)'
    BY <1>0, <1>2, <2>1, SettledGrows
  <2> QED BY <1>2, <2>2, TrustStill
<1> QED BY <1>5, <1>6, <1>7

\* The numbers before one that has been processed have been processed.
LEMMA PastBelow ==
  ASSUME WriterInv, NEW n \in Past, NEW x \in SeqNum, x <= n
  PROVE  x \in Past
<1>1. n \in Nat /\ n <= last /\ last \in Nat /\ n \notin hc.unprocessed_seqnum
  BY PastIsPast DEF Past
<1>2. x \in 1..last /\ x \in Nat
  BY <1>1, SeqNumAssumption
<1>3. x \notin hc.unprocessed_seqnum
  <2> SUFFICES ASSUME x \in hc.unprocessed_seqnum PROVE FALSE
    OBVIOUS
  <2>1. n \in x..last
    BY <1>1, <1>2
  <2> QED BY <1>1, <2>1 DEF WriterInv
<1> QED BY <1>2, <1>3 DEF Past

\* What a new batch makes due at a KeepAll writer.
LEMMA WdDue ==
  ASSUME KeepsAll, WriterInv, HandleWriteData
  PROVE  /\ hc.unprocessed_seqnum # {}
         /\ \A r \in Readers : due'[r] = IF r \in matched THEN due[r] \cup hc.unprocessed_seqnum ELSE due[r]
         /\ \A n \in hc.unprocessed_seqnum : n \in SeqNum /\ n \in Nat /\ n <= last /\ n \notin Past
<1> DEFINE S == hc.unprocessed_seqnum
<1>1. S # {}
  BY Zenon DEF HandleWriteData
<1>2. {n \in S : IsRelevant(n, S)} = S
  BY DEF IsRelevant, KeepsAll
<1>3. due' = [r \in Readers |-> IF r \in matched THEN (due[r] \ S) \cup {n \in S : IsRelevant(n, S)} ELSE due[r]]
  BY WdStep
<1>4. \A r \in Readers : due'[r] = IF r \in matched THEN due[r] \cup S ELSE due[r]
  BY <1>2, <1>3
<1>5. ASSUME NEW n \in S PROVE n \in SeqNum /\ n \in Nat /\ n <= last /\ n \notin Past
  <2>1. \E k \in hc.changes : k.seq_num = n
    BY DEF WriterInv, Sound, UnprocessedHeld
  <2> QED BY <2>1, PastIsPast, SeqNumAssumption DEF WriterInv, Past
<1> QED BY <1>1, <1>4, <1>5

\* The writer still owes what it owed before, and the new batch.
LEMMA WdOwes ==
  ASSUME KeepsAll, WriterInv, OweInv, HandleWriteData, NEW r \in matched \cap Ordered
  PROVE  Owes(hc', WdProxies[r], last, due'[r], rd[r].got)
<1> DEFINE D == due[r] \cup hc.unprocessed_seqnum
           h == GetUnprocessed(hc)
           N == {k.seq_num : k \in WdDone}
<1>0. /\ r \in Readers /\ r \in matched /\ WdNew \in [Readers -> ReaderProxy] /\ IsCache(h)
      /\ D \in SUBSET SeqNum /\ due'[r] = D /\ hc' = RemoveChanges(h, WdDone, FALSE)
      /\ WdProxies = ForgetStates(WdNew, matched, N)
  <2>1. r \in Readers /\ r \in matched
    BY DEF Ordered, Reliable
  <2>2. D \in SUBSET SeqNum
    BY <2>1, PastIsPast DEF WriterInv
  <2>3. IsCache(h)
    BY GetUnprocessedSound DEF WriterInv, Sound
  <2> QED BY <2>1, <2>2, <2>3, WdDue, WdEntries, WdStep DEF WdProxies
<1>1. Owes(h, WdNew[r], last, D, rd[r].got)
  BY <1>0, OwesRegistered DEF OweInv, KeepsAll
<1>2. \A k \in WdDone : IsAckedByAll(WdNew, matched, k.seq_num)
  BY DEF WdDone, AckedChanges
<1> DEFINE p == WdNew
           S == WdDone
           M == matched
           l == last
           G == rd[r].got
<1>3. p \in [Readers -> ReaderProxy] /\ r \in M /\ Owes(h, p[r], l, D, G)
      /\ \A k \in S : IsAckedByAll(p, M, k.seq_num)
  BY <1>0, <1>1, <1>2
<1> HIDE DEF p, S, M, l, G, h, D
<1>4. Owes(RemoveChanges(h, S, FALSE), ForgetStates(p, M, {k.seq_num : k \in S})[r], l, D, G)
  BY <1>0, <1>3, OwesDrop
<1> QED BY <1>0, <1>4 DEF p, S, M, l, G

\* What handle_write_data_cmd drops is not the last sample.
LEMMA WdStore ==
  ASSUME KeepsAll, BaseInv, StoreInv, HandleWriteData
  PROVE  StoreInv'
<1> DEFINE S == hc.unprocessed_seqnum
           h == GetUnprocessed(hc)
<1>0. WriterInv /\ last \in Nat /\ Sound(hc) /\ IsCache(hc) /\ S \subseteq Nat
  BY PastIsPast, SeqNumAssumption DEF BaseInv, WriterInv, Sound
<1>1. Indexed(hc', Ascends)
  <2>1. h.ts2key = hc.ts2key /\ h.changes = hc.changes /\ IsCache(h)
    BY <1>0, GetUnprocessedSound DEF GetUnprocessed, Sound, IsCache
  <2>2. Indexed(h, Ascends)
    BY <2>1 DEF StoreInv, Indexed
  <2>3. hc' = RemoveChanges(h, WdDone, FALSE)
    BY WdStep
  <2> HIDE DEF h
  <2> QED BY <2>1, <2>2, <2>3, RemoveIndexed
<1>2. ASSUME Durability = "TransientLocal", last > 0 PROVE Key(last) \in hc'.changes
  <2>1. Key(last) \in hc.changes /\ last \in SeqNum
    <3>1. last \in 1..last
      BY <1>0, <1>2
    <3> QED BY <1>0, <1>2, <3>1 DEF StoreInv, WriterInv
  <2>2. MinOrZero(S) \in Nat /\ MinOrZero(S) <= last
    <3> DEFINE m == MinOrZero(S)
    <3>1. m \in S \cup {0}
      BY <1>0, MinRight
    <3>2. \A x \in S \cup {0} : x \in Nat /\ x <= last
      BY <1>0, WdDue
    <3> HIDE DEF m
    <3>3. m \in Nat /\ m <= last
      BY <3>1, <3>2
    <3> QED BY <3>3 DEF m
  <2>3. Key(last) \notin WdDone
    <3> SUFFICES ASSUME Key(last) \in WdDone PROVE FALSE
      OBVIOUS
    <3>1. Key(last).seq_num <= MinOrZero(S) - 1
      BY <1>2 DEF WdDone, AckedChanges
    <3>2. Key(last).seq_num = last
      BY <2>1, KeyType
    <3> QED BY <1>0, <2>2, <3>1, <3>2
  <2> QED BY <1>0, <2>1, <2>3, WdCache
<1>3. \A r \in Readers : \A n \in due'[r] : n <= last
  BY <1>0, WdDue DEF StoreInv
<1>4. last' = last
  BY WdStep
<1> QED BY <1>1, <1>2, <1>3, <1>4 DEF StoreInv, Key

\* A GAP that it sends to a reader is for a number that the reader is not to get.
LEMMA WdGap ==
  ASSUME KeepsAll, ExactlyAddressed, BaseInv, OweInv, HandleWriteData, NEW r \in Ordered,
         NEW n \in SeqNum, WdFor(Host[r], FALSE, n) # {},
         r \in ReaderId(WdFor(Host[r], FALSE, n))
  PROVE  n \in Settled(r)'
<1> DEFINE g == Host[r]
           F == WdFor(g, FALSE, n)
<1>0. r \in Readers /\ g \in Hosts /\ r \in Local(g) /\ WriterInv
  BY HostAssumption DEF Ordered, Reliable, Local, BaseInv
<1>1. F \in SUBSET Local(g)
  BY DEF WdFor
<1>2. r \in F
  <2> HIDE DEF F, g
  <2>1. r \in ReaderId(F)
    BY DEF F, g
  <2> QED BY <1>0, <1>1, <2>1 DEF ExactlyAddressed
<1>3. r \in matched /\ n \in UnsentChanges(WdProxies[r]) /\ WdProxies[r][n].is_relevant = FALSE
  BY <1>2, Zenon DEF WdFor
<1>4. WdProxies[r][n].status # "None" /\ ~WdProxies[r][n].is_relevant
  BY <1>3 DEF UnsentChanges
<1>5. n \notin due'[r]
  <2>1. Owes(hc', WdProxies[r], last, due'[r], rd[r].got)
    BY <1>0, <1>3, WdOwes
  <2> QED BY <1>4, <2>1 DEF Owes
<1>6. n \in Past' /\ r \in matched'
  BY <1>0, <1>3, WdForUnsent, WdCache, WdStep
<1> QED BY <1>5, <1>6 DEF Settled

\* handle_write_data_cmd.
LEMMA GoodHandleWriteData ==
  ASSUME KeepsAll, ExactlyAddressed, BaseInv, StoreInv, OweInv, TrustInv, HandleWriteData
  PROVE  StoreInv' /\ OweInv' /\ TrustInv'
<1>0. /\ BaseInv' /\ WriterInv /\ Past \subseteq Past' /\ Past' = 1..last /\ last \in Nat
      /\ hc'.changes \subseteq hc.changes
      /\ UNCHANGED <<last, matched, rd>>
  BY BaseHandleWriteData, WdCache, WdStep DEF BaseInv
<1>1. StoreInv'
  BY WdStore
<1>2. OweInv'
  <2> SUFFICES ASSUME NEW r \in matched \cap Ordered
               PROVE  Owes(hc', rp'[r], last, due'[r], rd[r].got)
    BY <1>0 DEF OweInv, Ordered, Reliable
  <2> DEFINE p == WdProxies[r]
             D == due'[r]
             G == rd[r].got
             h == hc'
  <2>1. r \in Readers /\ r \in matched
    BY DEF Ordered, Reliable
  <2>2. p \in ReaderProxy /\ Owes(h, p, last, D, G) /\ D \in SUBSET SeqNum
    BY <1>0, <2>1, WdEntries, WdOwes DEF BaseInv, WriterInv
  <2>3. rp'[r] = WithStatus(p, UnsentChanges(p), "Underway")
    BY <2>1, WdStep
  <2> HIDE DEF p, D, G, h
  <2>4. UnsentChanges(p) \subseteq Entries(p)
    BY DEF UnsentChanges, Entries
  <2>5. Owes(h, WithStatus(p, UnsentChanges(p), "Underway"), last, D, G)
    BY <2>2, <2>4, OwesUnderway
  <2> QED BY <2>3, <2>5 DEF D, G, h
<1>3. ASSUME NEW r \in Ordered PROVE Settled(r) \subseteq Settled(r)'
  <2>1. r \in Readers
    BY DEF Ordered, Reliable
  <2>2. r \in matched => \A n \in Past : n \in due'[r] => n \in due[r]
    BY <1>0, <2>1, WdDue
  <2> QED BY <1>0, <2>2, SettledGrows
<1>4. ASSUME NEW r \in Ordered
      PROVE  \E t \in Seq(Sure(r, Settled(r)', Past')) : net'[Host[r]] = net[Host[r]] \o t
  <2> DEFINE g == Host[r]
             T == Settled(r)'
             Q == Past'
             X == Sure(r, T, Q)
             a == Each(SeqNum, Data, LAMBDA n : WdFor(g, TRUE, n))
             b == Each(SeqNum, Gap, LAMBDA n : WdFor(g, FALSE, n))
             s == net[g]
  <2>1. g \in Hosts /\ Q \subseteq SeqNum /\ s \in Seq(Deliverable(Past))
    BY <1>0, HostAssumption DEF Ordered, Reliable, WriterInv, BaseInv, NetInv
  <2>2. net'[g] = (s \o a) \o b
    <3>1. net' = [x \in Hosts |-> net[x] \o Each(SeqNum, Data, LAMBDA n : WdFor(x, TRUE, n))
                                         \o Each(SeqNum, Gap, LAMBDA n : WdFor(x, FALSE, n))]
      BY WdStep, Zenon
    <3> QED BY <2>1, <3>1, Zenon
  <2>3. ASSUME NEW n \in SeqNum, NEW rel, WdFor(g, rel, n) # {}
        PROVE  /\ n <= last
               /\ Datagram("unicast", WdFor(g, rel, n), Data(n)) \in Deliverable(Q)
               /\ Datagram("unicast", WdFor(g, rel, n), Gap(n)) \in Deliverable(Q)
    <3>1. n \in 1..last /\ n <= last /\ n \in Q /\ WdFor(g, rel, n) \in SUBSET Readers
      BY <1>0, <2>3, WdForUnsent
    <3> HIDE DEF Q
    <3> QED BY <2>1, <3>1, DatagramOK
  <2>4. ASSUME NEW n \in SeqNum, WdFor(g, TRUE, n) # {}
        PROVE  n <= last /\ Datagram("unicast", WdFor(g, TRUE, n), Data(n)) \in X
    <3> DEFINE m == Datagram("unicast", WdFor(g, TRUE, n), Data(n))
    <3>1. m.body.type = "DATA"
      BY DEF Datagram, Data
    <3>2. m \in Deliverable(Q) /\ n <= last
      BY <2>3, <2>4
    <3> HIDE DEF m, Q, T
    <3>3. m \in X
      BY <3>1, <3>2 DEF Sure, Harmless
    <3> QED BY <3>2, <3>3 DEF m
  <2>5. ASSUME NEW n \in SeqNum, WdFor(g, FALSE, n) # {}
        PROVE  n <= last /\ Datagram("unicast", WdFor(g, FALSE, n), Gap(n)) \in X
    <3> DEFINE m == Datagram("unicast", WdFor(g, FALSE, n), Gap(n))
    <3>1. m.body.type = "GAP" /\ m.body.n = n /\ m.to = ReaderId(WdFor(g, FALSE, n))
      BY DEF Datagram, Gap
    <3>2. m \in Deliverable(Q) /\ n <= last
      BY <2>3, <2>5
    <3>3. r \in m.to => n \in T
      BY <2>5, <3>1, WdGap
    <3> HIDE DEF m, Q, T
    <3>4. m \in X
      BY <3>1, <3>2, <3>3 DEF Sure, Harmless
    <3> QED BY <3>2, <3>4 DEF m
  <2>6. a \in Seq(X) /\ b \in Seq(X)
    <3> HIDE DEF X
    <3> QED BY <1>0, <2>1, <2>4, <2>5, WdSends, Zenon
  <2> HIDE DEF a, b, s, g
  <2>7. X \subseteq Deliverable(Q) /\ Deliverable(Past) \subseteq Deliverable(Q)
    BY <1>0, Monotonic DEF Sure
  <2>8. a \o b \in Seq(X)
    BY <2>6, ConcatProperties
  <2>9. (s \o a) \o b = s \o (a \o b)
    <3> HIDE DEF X, Q
    <3>1. s \in Seq(Deliverable(Q)) /\ a \in Seq(Deliverable(Q)) /\ b \in Seq(Deliverable(Q))
      BY <2>1, <2>6, <2>7, SeqMono
    <3> QED BY <3>1, ConcatAssociative
  <2>10. net'[g] = s \o (a \o b)
    BY <2>2, <2>9
  <2> QED BY <2>8, <2>10 DEF g, s
<1>5. TrustInv'
  BY <1>0, <1>3, <1>4, TrustSent
<1> QED BY <1>1, <1>2, <1>5

\* The writer's cache after changes up to a number below the last one were dropped.
LEMMA StoreDropped ==
  ASSUME WriterInv, StoreInv, NEW S,
         Durability = "TransientLocal" /\ last > 0 => Key(last) \notin S,
         hc' = RemoveChanges(hc, S, FALSE), UNCHANGED <<last, due>>
  PROVE  StoreInv'
<1>1. IsCache(hc)
  BY DEF WriterInv, Sound
<1>2. Indexed(hc', Ascends)
  BY <1>1, RemoveIndexed DEF StoreInv
<1>3. hc.changes \ S \subseteq hc'.changes
  BY <1>1, RemoveFields
<1> QED BY <1>2, <1>3 DEF StoreInv, Key

\* remove_acked_changes of a TransientLocal writer spares the last sample.
LEMMA LastSpared ==
  ASSUME WriterInv, NEW p, NEW M, NEW base \in Int, base - 1 < last, Durability = "TransientLocal"
  PROVE  Key(last) \notin AckedChanges(hc, p, M, base)
<1> SUFFICES ASSUME Key(last) \in AckedChanges(hc, p, M, base) PROVE FALSE
  OBVIOUS
<1>1. Key(last).seq_num <= base - 1
  BY DEF AckedChanges
<1>2. Key(last).seq_num = last /\ last \in Nat
  BY DEF Key, WriterInv
<1> QED BY <1>1, <1>2

\* remove_acked_changes keeps what is owed.
LEMMA OwesAcked ==
  ASSUME WriterInv, NEW p \in [Readers -> ReaderProxy], NEW base, NEW r \in matched \cap Ordered,
         Owes(hc, p[r], last, due[r], rd[r].got)
  PROVE  Owes(RemoveChanges(hc, AckedChanges(hc, p, matched, base), FALSE),
              ForgetStates(p, matched, {k.seq_num : k \in AckedChanges(hc, p, matched, base)})[r],
              last, due[r], rd[r].got)
<1> DEFINE S == AckedChanges(hc, p, matched, base)
           D == due[r]
           G == rd[r].got
<1>1. IsCache(hc) /\ r \in Readers /\ r \in matched /\ D \in SUBSET SeqNum
  BY DEF WriterInv, Sound, Ordered, Reliable
<1>2. \A k \in S : IsAckedByAll(p, matched, k.seq_num)
  BY DEF AckedChanges
<1>3. Owes(hc, p[r], last, D, G)
  OBVIOUS
<1> HIDE DEF S, D, G
<1>4. Owes(RemoveChanges(hc, S, FALSE), ForgetStates(p, matched, {k.seq_num : k \in S})[r], last, D, G)
  BY <1>1, <1>2, <1>3, OwesDrop
<1> QED BY <1>4 DEF S, D, G

\* What is settled after changes were dropped.
LEMMA SettledDropped ==
  ASSUME WriterInv, Past' = Past, NEW S, hc' = RemoveChanges(hc, S, FALSE),
         UNCHANGED <<matched, due, rd>>, NEW r
  PROVE  Settled(r) \subseteq Settled(r)'
<1>1. hc'.changes \subseteq hc.changes
  BY RemoveFields DEF WriterInv, Sound
<1> QED BY <1>1, SettledGrows

\* The range of a HEARTBEAT: the writer holds nothing outside of it.
LEMMA RangeSure ==
  ASSUME WriterInv, NEW h, IsCache(h), h.changes \subseteq hc.changes,
         h.unprocessed_seqnum = hc.unprocessed_seqnum, SeqNumMin(h) > 0,
         NEW r, NEW T, \A n \in Past : Key(n) \notin h.changes => n \in T,
         NEW S \in SUBSET Readers
  PROVE  Datagram("multicast", S, Heartbeat(SeqNumMin(h), SeqNumMax(h))) \in Sure(r, T, Past)
<1> DEFINE f == SeqNumMin(h)
           l == SeqNumMax(h)
           m == Datagram("multicast", S, Heartbeat(f, l))
<1>1. /\ f \in Nat /\ f \in Past /\ l \in Past \cup {0} /\ l \in Nat
      /\ \A n \in Past : Key(n) \in h.changes => f <= n /\ n <= l
  BY AnnouncedOK
<1> HIDE DEF f, l
<1>2. m \in Deliverable(Past)
  BY <1>1, PastIsPast, DatagramOK
<1>3. m.body.type = "HEARTBEAT" /\ m.body.first = f /\ m.body.last = l
  BY DEF Datagram, Heartbeat
<1> HIDE DEF m
<1>4. ASSUME NEW n \in SeqNum, n < f PROVE n \in T
  <2>1. n \in Nat /\ n <= f
    BY <1>1, <1>4, SeqNumAssumption
  <2>2. n \in Past
    BY <1>1, <2>1, PastBelow
  <2> QED BY <1>1, <1>4, <2>1, <2>2
<1>5. ASSUME NEW a \in Past, NEW n \in SeqNum, l < n, n <= a PROVE n \in T
  <2>1. n \in Past /\ n \in Nat
    BY <1>5, PastBelow, SeqNumAssumption
  <2> QED BY <1>1, <1>5, <2>1
<1>6. m \in Sure(r, T, Past)
  BY <1>2, <1>3, <1>4, <1>5 DEF Sure, Harmless
<1> QED BY <1>6 DEF f, l, m

\* send_heart_beat.
LEMMA GoodSendHeartBeat ==
  ASSUME BaseInv, StoreInv, OweInv, TrustInv, NEW liveliness, SendHeartBeat(liveliness)
  PROVE  StoreInv' /\ OweInv' /\ TrustInv'
<1> DEFINE base == HeartbeatLast(hc)
           done == AckedChanges(hc, rp, matched, base)
           h == RemoveChanges(hc, done, FALSE)
           hb == Heartbeat(HeartbeatFirst(h), HeartbeatLast(h))
           At(g) == IF CanAnnounce(h) /\ Local(g) \cap ReaderId(matched) # {}
                    THEN <<Datagram("multicast", matched, hb)>> ELSE << >>
<1>1. /\ hc' = h /\ rp' = ForgetStates(rp, matched, {k.seq_num : k \in done})
      /\ net' = [g \in Hosts |-> net[g] \o At(g)]
      /\ UNCHANGED <<last, matched, due, rd>>
  BY Zenon DEF SendHeartBeat, readerVars
<1>2. BaseInv' /\ Past' = Past /\ WriterInv /\ WriterInv' /\ rp \in [Readers -> ReaderProxy]
      /\ last \in Nat /\ matched \in SUBSET Readers
  BY BaseSendHeartBeat DEF BaseInv, WriterInv
<1>3. base \in Nat /\ base <= last
  <2> DEFINE x == base
  <2>1. x \in Past \cup {0} /\ x \in Nat
    BY <1>2, AnnouncedOK DEF WriterInv, Sound, HeartbeatLast
  <2>2. \A y \in Past \cup {0} : y <= last
    BY <1>2, PastIsPast
  <2> HIDE DEF x
  <2>3. x \in Nat /\ x <= last
    BY <2>1, <2>2
  <2> QED BY <2>3 DEF x
<1>4. StoreInv'
  <2>1. base \in Int /\ base - 1 < last
    BY <1>2, <1>3
  <2> HIDE DEF base
  <2>2. Durability = "TransientLocal" => Key(last) \notin done
    BY <1>2, <2>1, LastSpared
  <2> HIDE DEF done
  <2> QED BY <1>1, <1>2, <2>2, StoreDropped
<1>5. OweInv'
  <2> SUFFICES ASSUME NEW r \in matched \cap Ordered
               PROVE  Owes(hc', rp'[r], last, due[r], rd[r].got)
    BY <1>1 DEF OweInv, Ordered, Reliable
  <2>1. Owes(hc, rp[r], last, due[r], rd[r].got)
    BY DEF OweInv
  <2> HIDE DEF base
  <2> QED BY <1>1, <1>2, <2>1, OwesAcked
<1>6. \A r \in Ordered : Settled(r) \subseteq Settled(r)'
  <2> HIDE DEF done
  <2> QED BY <1>1, <1>2, SettledDropped
<1>7. ASSUME NEW r \in Ordered
      PROVE  \E t \in Seq(Sure(r, Settled(r)', Past')) : net'[Host[r]] = net[Host[r]] \o t
  <2> DEFINE g == Host[r]
             T == Settled(r)'
             X == Sure(r, T, Past)
  <2>1. g \in Hosts
    BY HostAssumption DEF Ordered, Reliable
  <2>2. /\ IsCache(h) /\ h.changes \subseteq hc.changes
        /\ h.unprocessed_seqnum = hc.unprocessed_seqnum
    <3> HIDE DEF done
    <3> QED BY <1>2, RemoveSound, RemoveFields DEF WriterInv, Sound
  <2>3. \A n \in Past : Key(n) \notin h.changes => n \in T
    <3>1. \A n \in Past' : Key(n) \notin hc'.changes => n \in T
      BY DEF Settled, Key
    <3> QED BY <1>1, <1>2, <3>1
  <2>4. At(g) \in Seq(X)
    <3>1. CASE CanAnnounce(h)
      <4>1. SeqNumMin(h) > 0 /\ hb = Heartbeat(SeqNumMin(h), SeqNumMax(h))
        BY <3>1 DEF CanAnnounce, HeartbeatFirst, HeartbeatLast
      <4> HIDE DEF h, T, hb
      <4>2. Datagram("multicast", matched, hb) \in X
        BY <1>2, <2>2, <2>3, <4>1, RangeSure
      <4> HIDE DEF X
      <4> QED BY <4>2
    <3>2. CASE ~CanAnnounce(h)
      <4> HIDE DEF h, X
      <4> QED BY <3>2
    <3> QED BY <3>1, <3>2
  <2>5. net'[g] = net[g] \o At(g)
    BY <1>1, <2>1
  <2> HIDE DEF At, g
  <2> QED BY <1>2, <2>4, <2>5 DEF g
<1>8. TrustInv'
  BY <1>1, <1>2, <1>6, <1>7, TrustSent
<1> QED BY <1>4, <1>5, <1>8

\* Messages are as sure when more is settled.
LEMMA SureMono ==
  ASSUME NEW r, NEW P, NEW T, NEW U, T \subseteq U, NEW s \in Seq(Sure(r, T, P))
  PROVE  s \in Seq(Sure(r, U, P))
<1>1. Sure(r, T, P) \subseteq Sure(r, U, P)
  BY HarmlessMono DEF Sure
<1> QED BY <1>1, SeqMono

\* The first ACKNACK of a reader acknowledges nothing that it is owed.
LEMMA AnOwes ==
  ASSUME BaseInv, StoreInv, OweInv, TrustInv, NEW q \in matched \cap Ordered, acks[q] # << >>
  PROVE  Owes(hc, AnProxy(q), last, due[q], rd[q].got)
<1> DEFINE base == AnBase(q)
           S == AnSet(q)
           D == due[q]
           G == rd[q].got
           p == rp[q]
           a == rd[q].acked
<1>0. q \in Readers /\ WriterInv
  BY DEF Ordered, Reliable, BaseInv
<1>1. /\ base \in Nat /\ base <= a + 1 /\ a \in Nat
      /\ S \in SUBSET SeqNum /\ \A n \in S : base <= n
  BY <1>0, AnContent
<1>2. D \in SUBSET SeqNum /\ p \in ReaderProxy /\ Owes(hc, p, last, D, G)
  BY <1>0 DEF WriterInv, OweInv
<1>3. \A m \in D \ G : base <= m
  <2> SUFFICES ASSUME NEW m \in D \ G PROVE base <= m
    OBVIOUS
  <2>1. m \in SeqNum /\ m \in Nat /\ m \notin Settled(q)
    BY <1>0, OwedUnsettled, SeqNumAssumption
  <2>2. ~(m <= a)
    BY <2>1 DEF TrustInv, AcksOnly
  <2> QED BY <1>1, <2>1, <2>2
<1>4. AnProxy(q) = Answered(p, base, S)
  BY DEF AnProxy
<1> HIDE DEF base, S, D, G, p
<1>5. Owes(hc, Answered(p, base, S), last, D, G)
  BY <1>1, <1>2, <1>3, OwesAnswered
<1> QED BY <1>4, <1>5 DEF D, G

\* A HEARTBEAT that says that number n is gone is true of all the numbers below.
LEMMA GoneSure ==
  ASSUME BaseInv, StoreInv, OweInv, NEW q \in matched \cap Ordered, NEW n \in Past,
         Key(n) \notin hc.changes
  PROVE  Datagram("unicast", {q}, Heartbeat(n + 1, SeqNumMax(hc))) \in Sure(q, Settled(q), Past)
<1> DEFINE f == n + 1
           l == SeqNumMax(hc)
           m == Datagram("unicast", {q}, Heartbeat(f, l))
           T == Settled(q)
<1>0. q \in Readers /\ WriterInv /\ n \in Nat /\ n <= last
  BY PastIsPast DEF Ordered, Reliable, BaseInv
<1>1. /\ l \in Past \cup {0} /\ l \in Nat
      /\ \A x \in Past : Key(x) \in hc.changes => x <= l
  BY <1>0, AnnouncedOK DEF WriterInv, Sound
<1>2. f \in Nat
  BY <1>0
<1>3. ASSUME NEW x \in SeqNum, x < f PROVE x \in T
  <2>1. x \in Nat /\ x <= n
    BY <1>0, <1>3, SeqNumAssumption
  <2>2. x \in Past
    BY <1>0, <2>1, PastBelow
  <2> SUFFICES ASSUME x \notin T PROVE FALSE
    OBVIOUS
  <2>3. x \in due[q] \ rd[q].got
    BY <2>2 DEF Settled
  <2>4. n \in SeqNum
    BY <1>0, PastIsPast
  <2> QED BY <1>0, <2>1, <2>3, <2>4, OwedUnsettled
<1>4. ASSUME NEW a \in Past, NEW x \in SeqNum, l < x, x <= a PROVE x \in T
  <2>1. x \in Past /\ x \in Nat
    BY <1>0, <1>4, PastBelow, SeqNumAssumption
  <2>2. Key(x) \notin hc.changes
    BY <1>1, <1>4, <2>1
  <2> QED BY <2>1, <2>2 DEF Settled
<1> HIDE DEF f, l, T
<1>5. m \in Deliverable(Past)
  <2>1. "unicast" \in {"unicast", "multicast"} /\ {q} \in SUBSET Readers /\ Past \subseteq SeqNum
    BY <1>0, PastIsPast
  <2> QED BY <1>1, <1>2, <2>1, DatagramOK
<1>6. m.body.type = "HEARTBEAT" /\ m.body.first = f /\ m.body.last = l
  BY DEF Datagram, Heartbeat
<1> HIDE DEF m
<1>7. m \in Sure(q, T, Past)
  BY <1>3, <1>4, <1>5, <1>6 DEF Sure, Harmless
<1> QED BY <1>7 DEF f, l, m, T

\* What answers the requests of q is harmless to every reader of its host.
LEMMA NackSure ==
  ASSUME ExactlyAddressed, BaseInv, StoreInv, OweInv, TrustInv, NEW q \in Readers, q \in matched,
         acks[q] # << >>, NEW r \in Ordered, Host[r] = Host[q]
  PROVE  NackResponse(hc, q, AnProxy(q)) \in Seq(Sure(r, Settled(r), Past))
<1> DEFINE p == AnProxy(q)
           T == Settled(r)
           X == Sure(r, T, Past)
<1>0. /\ WriterInv /\ "unicast" \in {"unicast", "multicast"} /\ {q} \in SUBSET Readers
      /\ Past \subseteq SeqNum /\ last \in Nat /\ \A n \in Past : n <= last /\ n \in Nat
  BY PastIsPast DEF BaseInv
<1>1. \A n \in RequestedChanges(p) : n \in Past /\ n <= last
  BY <1>0, AnProxiesOK DEF RequestedChanges, ProxyOK
<1>2. SeqNumMax(hc) \in Past \cup {0}
  BY <1>0, AnnouncedOK DEF WriterInv, Sound
<1>3. r \in ReaderId({q}) => r = q
  <2>1. {q} \in SUBSET Local(Host[q]) /\ Host[q] \in Hosts /\ r \in Local(Host[q])
    BY HostAssumption DEF Local, Ordered, Reliable
  <2>2. ReaderId({q}) \cap Local(Host[q]) = {q}
    BY <2>1 DEF ExactlyAddressed
  <2> QED BY <2>1, <2>2
<1>4. ASSUME NEW n \in RequestedChanges(p)
      PROVE  /\ p[n].is_relevant /\ Key(n) \in hc.changes => Datagram("unicast", {q}, Data(n)) \in X
             /\ p[n].is_relevant /\ Key(n) \notin hc.changes =>
                  Datagram("unicast", {q}, Heartbeat(n + 1, SeqNumMax(hc))) \in X
             /\ ~p[n].is_relevant => Datagram("unicast", {q}, Gap(n)) \in X
  <2> DEFINE d == Datagram("unicast", {q}, Data(n))
             g == Datagram("unicast", {q}, Gap(n))
             hb == Datagram("unicast", {q}, Heartbeat(n + 1, SeqNumMax(hc)))
  <2>1. n \in Past /\ n + 1 \in Nat /\ n \in SeqNum /\ p[n].status = "Requested"
    BY <1>0, <1>1, <1>4 DEF RequestedChanges
  <2>2. /\ d.body.type = "DATA" /\ g.body.type = "GAP" /\ g.body.n = n
        /\ d.to = ReaderId({q}) /\ g.to = ReaderId({q}) /\ hb.to = ReaderId({q})
    BY DEF Datagram, Data, Gap
  <2>3. d \in Deliverable(Past) /\ g \in Deliverable(Past) /\ hb \in Deliverable(Past)
    BY <1>0, <1>2, <2>1, DatagramOK
  <2>4. d \in X
    <3> HIDE DEF d, T
    <3> QED BY <2>2, <2>3 DEF Sure, Harmless
  <2>5. ASSUME ~p[n].is_relevant PROVE g \in X
    <3>1. r \in g.to => n \in T
      <4> SUFFICES ASSUME r = q PROVE n \in T
        BY <1>3, <2>2
      <4>1. Owes(hc, p, last, due[q], rd[q].got)
        BY AnOwes
      <4>2. n \notin due[q]
        BY <2>1, <2>5, <4>1 DEF Owes
      <4> QED BY <2>1, <4>2 DEF Settled
    <3> HIDE DEF g, T
    <3> QED BY <2>2, <2>3, <3>1 DEF Sure, Harmless
  <2>6. ASSUME Key(n) \notin hc.changes PROVE hb \in X
    <3>1. CASE r = q
      BY <2>1, <2>6, <3>1, GoneSure
    <3>2. CASE r # q
      <4>1. r \notin hb.to
        BY <1>3, <2>2, <3>2
      <4> HIDE DEF hb, T
      <4> QED BY <2>3, <4>1 DEF Sure, Harmless
    <3> QED BY <3>1, <3>2
  <2> QED BY <2>4, <2>5, <2>6
<1>5. \A n \in RequestedChanges(p) : n <= last
  BY <1>1
<1> HIDE DEF p, X
<1>6. NackResponse(hc, q, p) \in Seq(X)
  BY <1>0, <1>4, <1>5, NackSends
<1> QED BY <1>6 DEF p, X

\* handle_acknack.
LEMMA GoodHandleAckNack ==
  ASSUME ExactlyAddressed, BaseInv, StoreInv, OweInv, TrustInv, NEW q \in Readers, HandleAckNack(q)
  PROVE  StoreInv' /\ OweInv' /\ TrustInv'
<1>1. /\ acks[q] # << >> /\ q \in matched
      /\ hc' = RemoveChanges(hc, AnDone(q), FALSE)
      /\ rp' = ForgetStates(AnProxies(q), matched, {k.seq_num : k \in AnDone(q)})
      /\ net' = [net EXCEPT ![Host[q]] = IF AnNow(q) THEN @ \o NackResponse(hc, q, AnProxy(q)) ELSE @]
      /\ UNCHANGED <<last, matched, due, rd>>
  BY AnStep
<1>2. BaseInv' /\ Past' = Past /\ WriterInv /\ last \in Nat /\ rp \in [Readers -> ReaderProxy]
      /\ AnProxies(q) \in [Readers -> ReaderProxy]
  BY <1>1, BaseHandleAckNack, AnProxiesOK DEF BaseInv, WriterInv
<1>3. StoreInv'
  <2> DEFINE base == AnBase(q) - 1
             a == rd[q].acked
  <2>1. a \in Past \cup {0} /\ a \in Nat /\ base \in Int /\ base <= a
    <3>1. ReaderOK(rd[q], Past)
      BY DEF BaseInv, ReadersInv
    <3> QED BY <1>1, <3>1, ReaderParts, AnContent
  <2>2. \A y \in Past \cup {0} : y <= last
    BY <1>2, PastIsPast
  <2>3. AnDone(q) = AckedChanges(hc, AnProxies(q), matched, base)
    BY DEF AnDone
  <2> HIDE DEF base, a
  <2>4. base \in Int /\ base - 1 < last
    BY <1>2, <2>1, <2>2
  <2>5. Durability = "TransientLocal" => Key(last) \notin AnDone(q)
    BY <1>2, <2>3, <2>4, LastSpared
  <2> QED BY <1>1, <1>2, <2>5, StoreDropped
<1>4. OweInv'
  <2> SUFFICES ASSUME NEW r \in matched \cap Ordered
               PROVE  Owes(hc', rp'[r], last, due[r], rd[r].got)
    BY <1>1 DEF OweInv, Ordered, Reliable
  <2> DEFINE P == AnProxies(q)
  <2>0. r \in Readers
    BY DEF Ordered, Reliable
  <2>1. Owes(hc, P[r], last, due[r], rd[r].got)
    <3>1. CASE r = q
      <4> DEFINE p == AnProxy(q)
                 D == due[q]
                 G == rd[q].got
      <4>1. p \in ReaderProxy /\ D \in SUBSET SeqNum /\ Owes(hc, p, last, D, G)
        BY <1>1, <1>2, <3>1, AnProxiesOK, AnOwes DEF ProxyOK, WriterInv
      <4>2. P[q] = IF AnNow(q) THEN WithStatus(p, RequestedChanges(p), "Underway") ELSE p
        BY <1>2 DEF AnProxies, AnSent
      <4> HIDE DEF p, D, G, P
      <4>3. RequestedChanges(p) \subseteq Entries(p)
        BY DEF RequestedChanges, Entries
      <4>4. Owes(hc, WithStatus(p, RequestedChanges(p), "Underway"), last, D, G)
        BY <4>1, <4>3, OwesUnderway
      <4>5. Owes(hc, P[q], last, D, G)
        BY <4>1, <4>2, <4>4
      <4> QED BY <3>1, <4>5 DEF D, G
    <3>2. CASE r # q
      <4>1. P[r] = rp[r]
        BY <1>2, <2>0, <3>2 DEF AnProxies
      <4> QED BY <4>1 DEF OweInv
    <3> QED BY <3>1, <3>2
  <2> HIDE DEF P
  <2>2. P \in [Readers -> ReaderProxy] /\ AnDone(q) = AckedChanges(hc, P, matched, AnBase(q) - 1)
        /\ rp' = ForgetStates(P, matched, {k.seq_num : k \in AnDone(q)})
    BY <1>1, <1>2 DEF P, AnDone
  <2> QED BY <1>1, <1>2, <2>1, <2>2, OwesAcked
<1>5. \A r \in Ordered : Settled(r) \subseteq Settled(r)'
  BY <1>1, <1>2, SettledDropped
<1>6. ASSUME NEW r \in Ordered
      PROVE  \E t \in Seq(Sure(r, Settled(r)', Past')) : net'[Host[r]] = net[Host[r]] \o t
  <2> DEFINE U == Settled(r)'
             X == Sure(r, U, Past)
             s == net[Host[r]]
  <2>1. /\ net \in [Hosts -> Seq(Deliverable(Past))]
        /\ Host[r] \in Hosts /\ Host[q] \in Hosts /\ s \in Seq(Deliverable(Past))
    BY HostAssumption DEF Ordered, Reliable, BaseInv, NetInv
  <2>2. CASE Host[r] = Host[q] /\ AnNow(q)
    <3> DEFINE t == NackResponse(hc, q, AnProxy(q))
    <3>1. t \in Seq(Sure(r, Settled(r), Past))
      BY <1>1, <2>2, NackSure
    <3>2. net'[Host[r]] = s \o t
      BY <1>1, <2>1, <2>2
    <3> HIDE DEF t
    <3>3. t \in Seq(X)
      BY <1>5, <3>1, SureMono
    <3> QED BY <1>2, <3>2, <3>3
  <2>3. CASE ~(Host[r] = Host[q] /\ AnNow(q))
    <3>1. net'[Host[r]] = s
      BY <1>1, <2>1, <2>3
    <3>2. s \o << >> = s
      BY <2>1, ConcatEmptySeq
    <3>3. << >> \in Seq(X)
      OBVIOUS
    <3> QED BY <1>2, <3>1, <3>2, <3>3
  <2> QED BY <2>2, <2>3
<1>7. TrustInv'
  BY <1>1, <1>2, <1>5, <1>6, TrustSent
<1> QED BY <1>3, <1>4, <1>7

-----------------------------------------------------------------------------
(* The steps of the readers and of the network. *)

\* The writer stands still.
LEMMA WriterStill ==
  ASSUME StoreInv, OweInv, UNCHANGED writerVars, \A r \in Ordered : rd[r].got \subseteq rd'[r].got
  PROVE  /\ StoreInv' /\ OweInv' /\ Past' = Past
         /\ \A r \in Ordered : Settled(r) \subseteq Settled(r)'
<1>1. UNCHANGED <<hc, last, matched, rp, an_state, due>>
  BY DEF writerVars
<1>2. Past' = Past
  BY <1>1 DEF Past
<1>3. StoreInv'
  BY <1>1 DEF StoreInv, Key
<1>4. OweInv'
  <2> SUFFICES ASSUME NEW r \in matched \cap Ordered
               PROVE  Owes(hc, rp[r], last, due[r], rd'[r].got)
    BY <1>1 DEF OweInv, Ordered, Reliable
  <2>1. Owes(hc, rp[r], last, due[r], rd[r].got) /\ rd[r].got \subseteq rd'[r].got
    BY DEF OweInv
  <2> QED BY <2>1 DEF Owes
<1>5. \A r \in Ordered : Settled(r) \subseteq Settled(r)'
  BY <1>1, <1>2, SettledGrows
<1> QED BY <1>2, <1>3, <1>4, <1>5

\* A reader that knows no more, and for which nothing new has come.
LEMMA ReaderStill ==
  ASSUME NEW r, NEW T, NEW U, T \subseteq U, NEW s, NEW d, AcksOnly(d, T), HarmlessAll(r, T, s, d),
         NEW e, e.acked = d.acked, \A n \in SeqNum : e.wp[n] \in {"None", d.wp[n]}
  PROVE  AcksOnly(e, U) /\ HarmlessAll(r, U, s, e)
<1>1. AcksOnly(e, U)
  BY DEF AcksOnly
<1>2. Seen(e) \subseteq Seen(d)
  BY DEF Seen
<1> QED BY <1>1, <1>2, HarmlessAllMono

\* One reader's own step.
LEMMA TrustOwnStep ==
  ASSUME BaseInv, StoreInv, OweInv, TrustInv, NEW q \in Readers, NEW e, rd' = [rd EXCEPT ![q] = e],
         e.acked = rd[q].acked, e.got = rd[q].got, \A n \in SeqNum : e.wp[n] \in {"None", rd[q].wp[n]},
         UNCHANGED writerVars, UNCHANGED netVars
  PROVE  StoreInv' /\ OweInv' /\ TrustInv'
<1>1. \A r \in Readers : rd'[r] = IF r = q THEN e ELSE rd[r]
  BY DEF BaseInv, ReadersInv
<1>2. StoreInv' /\ OweInv' /\ \A r \in Ordered : Settled(r) \subseteq Settled(r)'
  <2>1. \A r \in Ordered : rd[r].got \subseteq rd'[r].got
    BY <1>1 DEF Ordered, Reliable
  <2> QED BY <2>1, WriterStill
<1>3. TrustInv'
  <2> SUFFICES ASSUME NEW r \in Ordered
               PROVE  /\ AcksOnly(rd'[r], Settled(r)')
                      /\ HarmlessAll(r, Settled(r)', net[Host[r]], rd'[r])
    BY DEF TrustInv, Ordered, Reliable, netVars
  <2> DEFINE T == Settled(r)
             U == Settled(r)'
             d == rd[r]
             s == net[Host[r]]
             x == rd'[r]
  <2>1. AcksOnly(d, T) /\ HarmlessAll(r, T, s, d) /\ T \subseteq U
    BY <1>2 DEF TrustInv
  <2>2. x.acked = d.acked /\ \A n \in SeqNum : x.wp[n] \in {"None", d.wp[n]}
    <3>1. r \in Readers
      BY DEF Ordered, Reliable
    <3> QED BY <1>1, <3>1
  <2> HIDE DEF T, U, d, s, x
  <2>3. AcksOnly(x, U) /\ HarmlessAll(r, U, s, x)
    BY <2>1, <2>2, ReaderStill
  <2> QED BY <2>3 DEF U, s, x
<1> QED BY <1>2, <1>3

\* DataReader::take.
LEMMA GoodTake ==
  ASSUME BaseInv, StoreInv, OweInv, TrustInv, NEW q \in Readers, Take(q)
  PROVE  StoreInv' /\ OweInv' /\ TrustInv'
<1> DEFINE d == rd[q]
           c == TakeReady(d.cache)
           t == d.taken \cup {k.seq_num : k \in ReadyKeys(d.cache)}
           e == [d EXCEPT !.cache = c, !.taken = t]
<1>1. ReaderOK(d, Past)
  BY DEF BaseInv, ReadersInv
<1>2. rd' = [rd EXCEPT ![q] = e] /\ UNCHANGED writerVars /\ UNCHANGED netVars
  BY DEF Take, BaseInv, ReadersInv
<1> HIDE DEF c, t, d
<1>3. e = [cache |-> c, wp |-> d.wp, state |-> d.state, got |-> d.got, acked |-> d.acked, taken |-> t]
  BY <1>1, ReaderExceptTaken
<1> HIDE DEF e
<1>4. e.acked = d.acked /\ e.got = d.got /\ e.wp = d.wp
  BY <1>3
<1>5. \A n \in SeqNum : e.wp[n] \in {"None", d.wp[n]}
  BY <1>4
<1> QED BY <1>2, <1>4, <1>5, TrustOwnStep DEF d

\* Reader::matched_writer_add.
LEMMA GoodMatchWriter ==
  ASSUME BaseInv, StoreInv, OweInv, TrustInv, NEW q \in Readers, MatchWriter(q)
  PROVE  StoreInv' /\ OweInv' /\ TrustInv'
<1> DEFINE d == rd[q]
           w == EmptyWriterProxy
           s == Initial
           e == [d EXCEPT !.wp = w, !.state = s]
<1>1. ReaderOK(d, Past)
  BY DEF BaseInv, ReadersInv
<1>2. rd' = [rd EXCEPT ![q] = e] /\ UNCHANGED writerVars /\ UNCHANGED netVars
  BY DEF MatchWriter, BaseInv, ReadersInv
<1>3. \A n \in SeqNum : w[n] = "None"
  BY DEF EmptyWriterProxy
<1> HIDE DEF w, s, d
<1>4. e = [cache |-> d.cache, wp |-> w, state |-> s, got |-> d.got, acked |-> d.acked, taken |-> d.taken]
  BY <1>1, ReaderExceptProxy
<1> HIDE DEF e
<1>5. e.acked = d.acked /\ e.got = d.got /\ e.wp = w
  BY <1>4
<1>6. \A n \in SeqNum : e.wp[n] \in {"None", d.wp[n]}
  BY <1>3, <1>5
<1> QED BY <1>2, <1>5, <1>6, TrustOwnStep DEF d

\* The datagram of an ordered reader's host that is read or lost is the first one.
LEMMA OrderedFirst ==
  ASSUME BaseInv, NEW h \in Hosts, NEW i \in DOMAIN net[h], IsNext(h, i), net' = WithoutDatagram(h, i),
         NEW r \in Ordered
  PROVE  /\ Host[r] # h => net'[Host[r]] = net[Host[r]]
         /\ Host[r] = h => /\ net'[Host[r]] = Tail(net[Host[r]])
                           /\ net[Host[r]] # << >> /\ net[h][i] = Head(net[Host[r]])
<1> DEFINE s == net[h]
           t == SubSeq(s, 1, i - 1) \o SubSeq(s, i + 1, Len(s))
<1>1. net \in [Hosts -> Seq(Deliverable(Past))] /\ s \in Seq(Deliverable(Past)) /\ Host[r] \in Hosts
  BY HostAssumption DEF BaseInv, NetInv, Ordered, Reliable
<1>2. i \in 1..Len(s)
  BY <1>1
<1>3. net' = [net EXCEPT ![h] = t]
  BY DEF WithoutDatagram
<1>4. CASE Host[r] = h
  <2>1. i = 1
    BY <1>4 DEF IsNext, Ordered
  <2> HIDE DEF s
  <2>2. t = Tail(s) /\ s # << >> /\ s[i] = Head(s)
    <3>1. t = Tail(s)
      BY <1>1, <1>2, <2>1, RemoveAtType
    <3>2. s # << >> /\ s[1] = Head(s)
      BY <1>1, <1>2
    <3> QED BY <2>1, <3>1, <3>2
  <2>3. net'[h] = t
    <3> HIDE DEF t
    <3> QED BY <1>1, <1>3
  <2> QED BY <1>4, <2>2, <2>3 DEF s
<1>5. CASE Host[r] # h
  <2> HIDE DEF t
  <2> QED BY <1>1, <1>3, <1>5
<1> QED BY <1>4, <1>5

\* What an unlimited reliable KeepAll reader makes of the first datagram that waits for it.
LEMMA FirstTaken ==
  ASSUME NEW P, IsPast(P), NEW d, ReaderOK(d, P), NEW q \in Qos, q.is_reliable,
         q.history = "KeepAll", q.max_samples = LENGTH_UNLIMITED, q.hc_type = "Reader",
         NEW r, NEW s \in Seq(Deliverable(P)), s # << >>,
         r \in Head(s).to, NEW T, AcksOnly(d, T), HarmlessAll(r, T, s, d),
         NEW U, T \cup (Handle(d, q, Head(s).body).got \cap P) \subseteq U
  PROVE  /\ d.got \subseteq Handle(d, q, Head(s).body).got
         /\ AcksOnly(Handle(d, q, Head(s).body), U)
         /\ HarmlessAll(r, U, Tail(s), Handle(d, q, Head(s).body))
<1> DEFINE m == Head(s)
           e == Handle(d, q, m.body)
<1>1. P \subseteq SeqNum
  BY DEF IsPast
<1>3. m \in Deliverable(P) /\ m = s[1] /\ 1 \in 1..Len(s) /\ r \in m.to
  BY HeadTailProperties
<1>4. Harmless(r, T, m, Seen(d))
  <2>1. Harmless(r, T, s[1], Seen(d) \cup Earlier(s, 1))
    BY <1>3 DEF HarmlessAll
  <2> QED BY <1>3, <2>1, HarmlessMono
<1> HIDE DEF m
<1>5. /\ d.got \subseteq Handle(d, q, m.body).got
      /\ AcksOnly(Handle(d, q, m.body), T \cup (Handle(d, q, m.body).got \cap P))
      /\ \A a \in Seen(Handle(d, q, m.body)) : a \in Seen(d) \/ a <= NumberOf(m.body)
  BY <1>3, <1>4, MessageTaken
<1>6. T \cup (e.got \cap P) \subseteq U
  BY DEF m
<1> HIDE DEF e
<1>7. d.got \subseteq e.got /\ AcksOnly(e, T \cup (e.got \cap P))
      /\ \A a \in Seen(e) : a \in Seen(d) \/ a <= NumberOf(m.body)
  BY <1>5 DEF e
<1>8. AcksOnly(e, U)
  BY <1>6, <1>7 DEF AcksOnly
<1>9. HarmlessAll(r, U, Tail(s), e)
  <2>1. T \subseteq U /\ \A a \in Seen(e) : a \in Seen(d) \/ a <= NumberOf(Head(s).body)
    BY <1>6, <1>7 DEF m
  <2> QED BY <1>1, <2>1, HarmlessTail
<1> QED BY <1>7, <1>8, <1>9 DEF e, m

\* A datagram that an ordered reader does not see is gone.
LEMMA FirstGone ==
  ASSUME BaseInv, NEW r, NEW s \in Seq(Deliverable(Past)), s # << >>, NEW d, NEW T, AcksOnly(d, T),
         HarmlessAll(r, T, s, d), NEW U, T \subseteq U
  PROVE  AcksOnly(d, U) /\ HarmlessAll(r, U, Tail(s), d)
<1>1. AcksOnly(d, U)
  BY DEF AcksOnly
<1>2. Past \subseteq SeqNum
  BY PastIsPast DEF BaseInv
<1>3. \A n \in Seen(d) : n \in Seen(d) \/ n <= NumberOf(Head(s).body)
  OBVIOUS
<1> QED BY <1>1, <1>2, <1>3, HarmlessTail

\* A host reads a datagram.
LEMMA GoodReceivePacket ==
  ASSUME KeepsAll, BaseInv, StoreInv, OweInv, TrustInv, NEW h \in Hosts, ReceivePacket(h)
  PROVE  StoreInv' /\ OweInv' /\ TrustInv'
<1>1. PICK i \in DOMAIN net[h] :
        IsNext(h, i) /\ Receive(h, net[h][i]) /\ net' = WithoutDatagram(h, i) /\ UNCHANGED writerVars
  BY DEF ReceivePacket
<1> DEFINE m == net[h][i]
           for == IF m.body.type = "HEARTBEAT" /\ ~IsValid(m.body) THEN {}
                  ELSE Local(h) \cap m.to \cap known
<1>2. \A r \in Readers : rd'[r] = IF r \in for THEN Handle(rd[r], ReaderQos[r], m.body) ELSE rd[r]
  BY <1>1 DEF Receive
<1>3. for \subseteq Local(h) \cap m.to
  OBVIOUS
<1> HIDE DEF for
<1>4. Past' = Past
  BY <1>1 DEF writerVars, Past
<1>5. ASSUME NEW r \in Ordered, NEW U, Settled(r) \cup (rd'[r].got \cap Past) \subseteq U
      PROVE  /\ rd[r].got \subseteq rd'[r].got
             /\ AcksOnly(rd'[r], U) /\ HarmlessAll(r, U, net'[Host[r]], rd'[r])
  <2> DEFINE T == Settled(r)
             d == rd[r]
             e == rd'[r]
             s == net[Host[r]]
  <2>1. AcksOnly(d, T) /\ HarmlessAll(r, T, s, d) /\ T \subseteq U /\ T \cup (e.got \cap Past) \subseteq U
    BY <1>5 DEF TrustInv
  <2>2. s \in Seq(Deliverable(Past)) /\ r \in Readers
    BY HostAssumption DEF BaseInv, NetInv, Ordered, Reliable
  <2>3. /\ Host[r] # h => net'[Host[r]] = s
        /\ Host[r] = h => net'[Host[r]] = Tail(s) /\ s # << >> /\ m = Head(s)
    BY <1>1, OrderedFirst
  <2>4. CASE Host[r] # h
    <3>1. e = d
      BY <1>2, <1>3, <2>2, <2>4 DEF Local
    <3> HIDE DEF T, d, e, s
    <3>2. AcksOnly(d, U) /\ HarmlessAll(r, U, s, d)
      <4>1. Seen(d) \subseteq Seen(d)
        OBVIOUS
      <4>2. HarmlessAll(r, U, s, d)
        BY <2>1, <4>1, HarmlessAllMono
      <4> QED BY <2>1, <4>2 DEF AcksOnly
    <3> QED BY <2>3, <2>4, <3>1, <3>2 DEF d, e
  <2>5. CASE Host[r] = h /\ r \in for
    <3>1. e = Handle(d, ReaderQos[r], Head(s).body) /\ r \in Head(s).to
      BY <1>2, <1>3, <2>2, <2>3, <2>5
    <3>2. s # << >> /\ net'[Host[r]] = Tail(s)
      BY <2>3, <2>5
    <3> DEFINE q == ReaderQos[r]
               P == Past
    <3>3. IsPast(P) /\ ReaderOK(d, P)
      BY <2>2, PastIsPast DEF BaseInv, ReadersInv
    <3>4. /\ q \in Qos /\ q.is_reliable /\ q.history = "KeepAll"
          /\ q.max_samples = LENGTH_UNLIMITED /\ q.hc_type = "Reader"
      BY ReaderQosAssumption DEF Ordered, Reliable, KeepsAll
    <3> DEFINE x == Handle(d, q, Head(s).body)
    <3>5. s \in Seq(Deliverable(P)) /\ T \cup (x.got \cap P) \subseteq U /\ e = x /\ r \in Head(s).to
      BY <2>1, <2>2, <3>1
    <3> HIDE DEF T, e, s, d, q, P, m
    <3>6. d.got \subseteq x.got /\ AcksOnly(x, U) /\ HarmlessAll(r, U, Tail(s), x)
      BY <2>1, <3>2, <3>3, <3>4, <3>5, FirstTaken, ZenonT(30)
    <3>7. d.got \subseteq e.got /\ AcksOnly(e, U) /\ HarmlessAll(r, U, Tail(s), e)
      BY <3>5, <3>6
    <3> QED BY <3>2, <3>7 DEF d, e
  <2>6. CASE Host[r] = h /\ r \notin for
    <3>1. e = d
      BY <1>2, <2>2, <2>6
    <3>2. s # << >> /\ net'[Host[r]] = Tail(s)
      BY <2>3, <2>6
    <3> HIDE DEF T, d, e, s
    <3>3. AcksOnly(d, U) /\ HarmlessAll(r, U, Tail(s), d)
      BY <2>1, <2>2, <3>2, FirstGone
    <3> QED BY <3>1, <3>2, <3>3 DEF d, e
  <2> QED BY <2>4, <2>5, <2>6
<1>6. \A r \in Ordered : rd[r].got \subseteq rd'[r].got
  <2> SUFFICES ASSUME NEW r \in Ordered PROVE rd[r].got \subseteq rd'[r].got
    OBVIOUS
  <2> DEFINE U == Settled(r) \cup (rd'[r].got \cap Past)
  <2>1. Settled(r) \cup (rd'[r].got \cap Past) \subseteq U
    OBVIOUS
  <2> HIDE DEF U
  <2> QED BY <1>5, <2>1
<1>7. StoreInv' /\ OweInv' /\ \A r \in Ordered : Settled(r) \subseteq Settled(r)'
  BY <1>1, <1>6, WriterStill
<1>8. TrustInv'
  <2> SUFFICES ASSUME NEW r \in Ordered
               PROVE  /\ AcksOnly(rd'[r], Settled(r)')
                      /\ HarmlessAll(r, Settled(r)', net'[Host[r]], rd'[r])
    BY DEF TrustInv, Ordered, Reliable
  <2> DEFINE U == Settled(r)'
  <2>1. Settled(r) \cup (rd'[r].got \cap Past) \subseteq U
    BY <1>4, <1>7 DEF Settled
  <2> HIDE DEF U
  <2>2. AcksOnly(rd'[r], U) /\ HarmlessAll(r, U, net'[Host[r]], rd'[r])
    BY <1>5, <2>1
  <2> QED BY <2>2 DEF U
<1> QED BY <1>7, <1>8

\* The network loses a datagram.
LEMMA GoodLose ==
  ASSUME BaseInv, StoreInv, OweInv, TrustInv, Lose
  PROVE  StoreInv' /\ OweInv' /\ TrustInv'
<1>1. UNCHANGED writerVars /\ UNCHANGED <<rd, known>>
  BY DEF Lose, readerVars
<1>2. StoreInv' /\ OweInv' /\ \A r \in Ordered : Settled(r) \subseteq Settled(r)'
  BY <1>1, WriterStill
<1>3. CASE UNCHANGED net
  BY <1>1, <1>2, <1>3, TrustStill
<1>4. CASE \E h \in Hosts : \E i \in DOMAIN net[h] : IsNext(h, i) /\ net' = WithoutDatagram(h, i)
  <2>0. PICK h \in Hosts : \E i \in DOMAIN net[h] : IsNext(h, i) /\ net' = WithoutDatagram(h, i)
    BY <1>4
  <2>1. PICK i \in DOMAIN net[h] : IsNext(h, i) /\ net' = WithoutDatagram(h, i)
    BY <2>0
  <2> SUFFICES ASSUME NEW r \in Ordered
               PROVE  /\ AcksOnly(rd[r], Settled(r)')
                      /\ HarmlessAll(r, Settled(r)', net'[Host[r]], rd[r])
    BY <1>1, <1>2 DEF TrustInv, Ordered, Reliable
  <2> DEFINE T == Settled(r)
             U == Settled(r)'
             d == rd[r]
             s == net[Host[r]]
  <2>2. AcksOnly(d, T) /\ HarmlessAll(r, T, s, d) /\ T \subseteq U
    BY <1>2 DEF TrustInv
  <2>3. s \in Seq(Deliverable(Past))
    BY HostAssumption DEF BaseInv, NetInv, Ordered, Reliable
  <2>4. /\ Host[r] # h => net'[Host[r]] = s
        /\ Host[r] = h => net'[Host[r]] = Tail(s) /\ s # << >>
    BY <2>1, OrderedFirst
  <2> HIDE DEF T, U, d, s
  <2>5. CASE Host[r] # h
    <3>1. Seen(d) \subseteq Seen(d)
      OBVIOUS
    <3>2. HarmlessAll(r, U, s, d)
      BY <2>2, <3>1, HarmlessAllMono
    <3>3. AcksOnly(d, U)
      BY <2>2 DEF AcksOnly
    <3> QED BY <2>4, <2>5, <3>2, <3>3 DEF U, d
  <2>6. CASE Host[r] = h
    <3>1. AcksOnly(d, U) /\ HarmlessAll(r, U, Tail(s), d)
      BY <2>2, <2>3, <2>4, <2>6, FirstGone
    <3> QED BY <2>4, <2>6, <3>1 DEF U, d
  <2> QED BY <2>5, <2>6
<1> QED BY <1>3, <1>4 DEF Lose

\* Nothing but ACKNACKs changes.
LEMMA GoodStill ==
  ASSUME BaseInv, StoreInv, OweInv, TrustInv, UNCHANGED writerVars, UNCHANGED <<rd, net>>
  PROVE  StoreInv' /\ OweInv' /\ TrustInv'
<1>1. StoreInv' /\ OweInv' /\ \A r \in Ordered : Settled(r) \subseteq Settled(r)'
  BY WriterStill
<1> QED BY <1>1, TrustStill

-----------------------------------------------------------------------------

\* The initial state.
LEMMA GoodInit ==
  ASSUME Init PROVE StoreInv /\ OweInv /\ TrustInv
<1>1. hc = EmptyCache /\ last = 0 /\ matched = {} /\ \A r \in Readers : due[r] = {}
  BY DEF Init
<1>2. StoreInv
  <2>1. EmptyCache.ts2key = << >> /\ EmptyCache.changes = {}
    BY DEF EmptyCache
  <2>2. Indexed(hc, Ascends)
    BY <1>1, <2>1 DEF Indexed, PairsIn, Range
  <2> QED BY <1>1, <2>2 DEF StoreInv
<1>3. OweInv
  BY <1>1 DEF OweInv
<1>4. TrustInv
  <2> SUFFICES ASSUME NEW r \in Ordered
               PROVE  AcksOnly(rd[r], Settled(r)) /\ HarmlessAll(r, Settled(r), net[Host[r]], rd[r])
    BY DEF TrustInv
  <2>1. rd[r] = NewReader /\ net[Host[r]] = << >>
    BY HostAssumption DEF Init, Ordered, Reliable
  <2>2. \A n \in SeqNum : NewReader.wp[n] = "None" /\ ~(n <= NewReader.acked)
    BY SeqNumAssumption DEF NewReader, EmptyWriterProxy
  <2>3. AcksOnly(rd[r], Settled(r))
    BY <2>1, <2>2 DEF AcksOnly
  <2>4. HarmlessAll(r, Settled(r), net[Host[r]], rd[r])
    BY <2>1 DEF HarmlessAll
  <2> QED BY <2>3, <2>4
<1> QED BY <1>2, <1>3, <1>4

\* Every step.
LEMMA GoodNext ==
  ASSUME KeepsAll, ExactlyAddressed, BaseInv, StoreInv, OweInv, TrustInv, [Next]_vars
  PROVE  StoreInv' /\ OweInv' /\ TrustInv'
<1>1. CASE \E r \in Readers, d \in {"Volatile", "TransientLocal"} : MatchReader(r, d)
  BY <1>1, GoodMatchReader
<1>2. CASE \E r \in Readers : MatchWriter(r)
  BY <1>2, GoodMatchWriter
<1>3. CASE Write
  BY <1>3, GoodWrite
<1>4. CASE HandleWriteData
  BY <1>4, GoodHandleWriteData
<1>5. CASE \E liveliness \in BOOLEAN : SendHeartBeat(liveliness)
  BY <1>5, GoodSendHeartBeat
<1>6. CASE \E r \in Readers : HandleAckNack(r)
  BY <1>6, GoodHandleAckNack
<1>7. CASE \E r \in Readers : RefuseAckNack(r)
  BY <1>7, GoodStill DEF RefuseAckNack, readerVars
<1>8. CASE \E h \in Hosts : ReceivePacket(h)
  BY <1>8, GoodReceivePacket
<1>9. CASE \E r \in Readers : Take(r)
  BY <1>9, GoodTake
<1>10. CASE Lose
  BY <1>10, GoodLose
<1>11. CASE UNCHANGED vars
  BY <1>11, GoodStill DEF vars, writerVars
<1> QED BY <1>1, <1>2, <1>3, <1>4, <1>5, <1>6, <1>7, <1>8, <1>9, <1>10, <1>11 DEF Next

\* What the writer counts as acknowledged the reader has had, and what the reader has
\* not had the writer still holds.
LEMMA GoodRight ==
  ASSUME BaseInv, StoreInv, OweInv PROVE AckedIsReceived /\ StillRepairable
<1>1. ASSUME NEW r \in matched \cap Ordered, NEW n \in due[r] \ rd[r].got
      PROVE  ~IsAcked(rp[r], n) /\ Key(n) \in hc.changes
  BY <1>1, OwedUnsettled DEF BaseInv
<1>2. AckedIsReceived
  BY <1>1 DEF AckedIsReceived
<1>3. StillRepairable
  BY <1>1 DEF StillRepairable
<1> QED BY <1>2, <1>3

\* With a KeepAll history at both ends and messages that only their addressee reads, the
\* writer counts a sample as acknowledged by a reader that was to get it only if that
\* reader has had it in its cache: no loss, no repair, no GAP and no HEARTBEAT about
\* samples of others makes it take one for received.
THEOREM AcknowledgedKept == KeepsAll /\ ExactlyAddressed /\ Spec => []AckedIsReceived
<1>1. Init => BaseInv /\ StoreInv /\ OweInv /\ TrustInv
  BY BaseInit, GoodInit
<1>2. KeepsAll /\ ExactlyAddressed /\ BaseInv /\ StoreInv /\ OweInv /\ TrustInv /\ [Next]_vars
      => BaseInv' /\ StoreInv' /\ OweInv' /\ TrustInv'
  BY BaseNext, GoodNext
<1>3. BaseInv /\ StoreInv /\ OweInv /\ TrustInv => AckedIsReceived
  BY GoodRight
<1>4. SUFFICES ASSUME KeepsAll, ExactlyAddressed PROVE Spec => []AckedIsReceived
  OBVIOUS
<1> QED BY <1>1, <1>2, <1>3, <1>4, PTL DEF Spec

\* Under the same conditions the writer holds every sample that a reader was to get and
\* has not got, whatever other readers acknowledge or request: it can still be repaired.
THEOREM RepairableKept == KeepsAll /\ ExactlyAddressed /\ Spec => []StillRepairable
<1>1. Init => BaseInv /\ StoreInv /\ OweInv /\ TrustInv
  BY BaseInit, GoodInit
<1>2. KeepsAll /\ ExactlyAddressed /\ BaseInv /\ StoreInv /\ OweInv /\ TrustInv /\ [Next]_vars
      => BaseInv' /\ StoreInv' /\ OweInv' /\ TrustInv'
  BY BaseNext, GoodNext
<1>3. BaseInv /\ StoreInv /\ OweInv /\ TrustInv => StillRepairable
  BY GoodRight
<1>4. SUFFICES ASSUME KeepsAll, ExactlyAddressed PROVE Spec => []StillRepairable
  OBVIOUS
<1> QED BY <1>1, <1>2, <1>3, <1>4, PTL DEF Spec
=============================================================================
