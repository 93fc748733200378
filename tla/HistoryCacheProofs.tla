------------------------- MODULE HistoryCacheProofs -------------------------
(***************************************************************************)
(* What every method of the history cache preserves: the types of its      *)
(* fields, the agreement of its indexes with the samples it holds, that a  *)
(* sample waiting for the RTPS Writer is held, and the limits on the       *)
(* number of samples.  The first part holds the facts about numbers and    *)
(* sequences that the proofs of the other modules use too, the last one    *)
(* those about a ReaderProxy.                                              *)
(***************************************************************************)
EXTENDS HistoryCache, Proxies, FiniteSetTheorems, SequenceTheorems, TLAPS

-----------------------------------------------------------------------------
(* Numbers and sequences. *)

\* A set of naturals has a least element: the form in which the proofs do
\* induction.
LEMMA LeastNat ==
  ASSUME NEW T \in SUBSET Nat, T # {}
  PROVE  \E n \in T : \A m \in T : n <= m
<1>1. PICK n \in T : \A m \in T : ~(<<m, n>> \in OpToRel(<, Nat))
  BY NatLessThanWellFounded, WFMin
<1>2. \A m \in T : ~(m < n)
  BY <1>1 DEF OpToRel
<1> QED BY <1>2

\* A bounded set of naturals has a greatest element.
LEMMA GreatestNat ==
  ASSUME NEW T \in SUBSET Nat, T # {}, NEW b \in Nat, \A m \in T : m <= b
  PROVE  \E n \in T : \A m \in T : m <= n
<1> DEFINE U == {n \in Nat : \A m \in T : m <= n}
<1>1. U \in SUBSET Nat /\ b \in U
  OBVIOUS
<1>2. PICK n \in U : \A m \in U : n <= m
  <2> HIDE DEF U
  <2> QED BY <1>1, LeastNat
<1>3. CASE n \in T
  BY <1>3, <1>2
<1>4. CASE n \notin T
  <2>1. \A m \in T : m <= n /\ m # n /\ m \in Nat
    BY <1>2, <1>4
  <2>2. PICK t \in T : TRUE
    OBVIOUS
  <2>3. n # 0
    BY <2>1, <2>2
  <2>4. n - 1 \in U
    BY <2>1, <2>3
  <2> QED BY <1>2, <2>4
<1> QED BY <1>3, <1>4

\* The minimum of a set of sequence numbers.
LEMMA MinRight ==
  ASSUME NEW T \in SUBSET Nat
  PROVE  /\ MinOrZero(T) \in T \cup {0}
         /\ \A n \in T : MinOrZero(T) <= n
         /\ T # {} => MinOrZero(T) \in T /\ MinOrZero(T) = Min(T)
<1>1. CASE T = {}
  BY <1>1 DEF MinOrZero
<1>2. CASE T # {}
  <2>1. PICK n \in T : \A m \in T : n <= m
    BY <1>2, LeastNat
  <2>2. Min(T) \in T /\ \A m \in T : Min(T) <= m
    BY <2>1 DEF Min
  <2> QED BY <1>2, <2>2 DEF MinOrZero
<1> QED BY <1>1, <1>2

\* The maximum of a bounded set of sequence numbers.
LEMMA MaxRight ==
  ASSUME NEW T \in SUBSET Nat, NEW b \in Nat, \A m \in T : m <= b
  PROVE  /\ MaxOrZero(T) \in T \cup {0}
         /\ \A n \in T : n <= MaxOrZero(T)
         /\ T # {} => MaxOrZero(T) \in T
<1>1. CASE T = {}
  BY <1>1 DEF MaxOrZero
<1>2. CASE T # {}
  <2>1. PICK n \in T : \A m \in T : m <= n
    BY <1>2, GreatestNat
  <2>2. Max(T) \in T /\ \A m \in T : m <= Max(T)
    BY <2>1 DEF Max
  <2> QED BY <1>2, <2>2 DEF MaxOrZero
<1> QED BY <1>1, <1>2

\* Any two elements of s, the earlier one first, are related by R.
PairsIn(s, R) == \A i, j \in 1..Len(s) : i < j => <<s[i], s[j]>> \in R

\* f lists what Without keeps of every prefix of s up to n.
IsKept(f, s, S, n) ==
  \A i \in 0..n : f[i] = IF i = 0 THEN << >>
                         ELSE IF s[i] \in S THEN f[i - 1] ELSE Append(f[i - 1], s[i])

\* The elements of the prefix of length n, and what is to be kept of it.
Prefix(s, n) == {s[i] : i \in 1..n}

KeptRight(t, s, S, R, n) == Range(t) = Prefix(s, n) \ S /\ PairsIn(t, R)

\* One more element at the end.
LEMMA AppendRight ==
  ASSUME NEW X, NEW t \in Seq(X), NEW x \in X, NEW R, PairsIn(t, R),
         \A i \in 1..Len(t) : <<t[i], x>> \in R
  PROVE  /\ PairsIn(Append(t, x), R)
         /\ Range(Append(t, x)) = Range(t) \cup {x}
<1> DEFINE u == Append(t, x)
<1>1. /\ Len(u) = Len(t) + 1 /\ Len(t) \in Nat
      /\ \A i \in 1..Len(t) : u[i] = t[i]
      /\ u[Len(t) + 1] = x
  OBVIOUS
<1> HIDE DEF u
<1>2. PairsIn(u, R)
  BY <1>1 DEF PairsIn
<1>3. Range(u) = Range(t) \cup {x}
  <2>1. Range(u) = {u[i] : i \in 1..Len(u)} /\ Range(t) = {t[i] : i \in 1..Len(t)}
    <3>1. u \in Seq(X)
      BY DEF u
    <3> QED BY <3>1, RangeEquality
  <2>2. 1..Len(u) = 1..Len(t) \cup {Len(t) + 1}
    BY <1>1
  <2> QED BY <1>1, <2>1, <2>2
<1> QED BY <1>2, <1>3 DEF u

\* The recursion has a solution on every prefix.
LEMMA KeptExists ==
  ASSUME NEW X, NEW s \in Seq(X), NEW S, NEW R, PairsIn(s, R), NEW n \in 0..Len(s)
  PROVE  \E f \in [0..n -> Seq(X)] : IsKept(f, s, S, n) /\ KeptRight(f[n], s, S, R, n)
<1> DEFINE Good(f, m) == IsKept(f, s, S, m) /\ KeptRight(f[m], s, S, R, m)
           T == {m \in 0..Len(s) : ~ \E f \in [0..m -> Seq(X)] : Good(f, m)}
<1>1. SUFFICES ASSUME T # {} PROVE FALSE
  OBVIOUS
<1>2. PICK m \in T : \A l \in T : m <= l
  <2>1. T \in SUBSET Nat
    OBVIOUS
  <2> HIDE DEF T
  <2> QED BY <1>1, <2>1, LeastNat
<1>3. Len(s) \in Nat /\ m \in 0..Len(s)
  OBVIOUS
<1>4. CASE m = 0
  <2> DEFINE f == [i \in 0..0 |-> << >>]
  <2>1. f \in [0..0 -> Seq(X)]
    OBVIOUS
  <2>2. IsKept(f, s, S, 0)
    BY DEF IsKept
  <2>3. KeptRight(f[0], s, S, R, 0)
    <3>1. f[0] = << >> /\ Range(<< >>) = {} /\ Prefix(s, 0) = {} /\ Len(<< >>) = 0
      BY DEF Range, Prefix
    <3> HIDE DEF f, T
    <3> QED BY <3>1 DEF KeptRight, PairsIn
  <2> QED BY <1>2, <1>4, <2>1, <2>2, <2>3
<1>5. CASE m # 0
  <2>1. m - 1 \in 0..Len(s) /\ m - 1 \notin T
    <3>1. m - 1 \in 0..Len(s) /\ ~(m <= m - 1)
      BY <1>3, <1>5
    <3> HIDE DEF T
    <3> QED BY <1>2, <3>1
  <2>2. PICK f \in [0..(m - 1) -> Seq(X)] : Good(f, m - 1)
    BY <2>1
  <2>3. s[m] \in X /\ f[m - 1] \in Seq(X)
    BY <1>3, <1>5
  <2> DEFINE e == IF s[m] \in S THEN f[m - 1] ELSE Append(f[m - 1], s[m])
             g == [i \in 0..m |-> IF i = m THEN e ELSE f[i]]
  <2>4. e \in Seq(X)
    BY <2>3
  <2>5. g \in [0..m -> Seq(X)]
    <3> HIDE DEF e
    <3> QED BY <1>3, <2>4
  <2>6. /\ g[m] = e
        /\ \A i \in 0..(m - 1) : g[i] = f[i]
        /\ g[m - 1] = f[m - 1]
    <3> HIDE DEF e
    <3> QED BY <1>3, <1>5
  <2>7. ASSUME NEW i \in 0..m
        PROVE  g[i] = IF i = 0 THEN << >>
                      ELSE IF s[i] \in S THEN g[i - 1] ELSE Append(g[i - 1], s[i])
    <3> HIDE DEF g
    <3>1. CASE i = m
      BY <1>5, <2>6, <3>1
    <3>2. CASE i # m
      <4>1. i \in 0..(m - 1) /\ (i # 0 => i - 1 \in 0..(m - 1))
        BY <1>3, <3>2
      <4> QED BY <2>2, <2>6, <4>1 DEF IsKept
    <3> QED BY <3>1, <3>2
  <2>8. IsKept(g, s, S, m)
    <3> HIDE DEF g
    <3> QED BY <2>7 DEF IsKept
  <2>9. KeptRight(e, s, S, R, m)
    <3> DEFINE t == f[m - 1]
    <3> HIDE DEF T, t
    <3>1. t \in Seq(X) /\ Range(t) = Prefix(s, m - 1) \ S /\ PairsIn(t, R)
      BY <2>2, <2>3 DEF KeptRight, t
    <3>2. Prefix(s, m) = Prefix(s, m - 1) \cup {s[m]}
      <4>1. 1..m = 1..(m - 1) \cup {m}
        BY <1>3, <1>5
      <4> QED BY <4>1 DEF Prefix
    <3>3. CASE s[m] \in S
      BY <3>1, <3>2, <3>3 DEF KeptRight, t
    <3>4. CASE s[m] \notin S
      <4>1. \A i \in 1..Len(t) : <<t[i], s[m]>> \in R
        <5>1. \A i \in 1..(m - 1) : <<s[i], s[m]>> \in R
          <6> SUFFICES ASSUME NEW i \in 1..(m - 1) PROVE <<s[i], s[m]>> \in R
            OBVIOUS
          <6>1. i \in 1..Len(s) /\ m \in 1..Len(s) /\ i < m
            BY <1>3, <1>5
          <6> QED BY <6>1 DEF PairsIn
        <5>2. \A i \in 1..Len(t) : t[i] \in Range(t)
          BY <3>1 DEF Range
        <5> QED BY <3>1, <5>1, <5>2 DEF Prefix
      <4>3. PairsIn(Append(t, s[m]), R) /\ Range(Append(t, s[m])) = Range(t) \cup {s[m]}
        BY <2>3, <3>1, <4>1, AppendRight
      <4>4. e = Append(t, s[m])
        BY <3>4 DEF t
      <4> HIDE DEF e
      <4> QED BY <3>1, <3>2, <3>4, <4>3, <4>4 DEF KeptRight
    <3> QED BY <3>3, <3>4
  <2>10. Good(g, m)
    <3> HIDE DEF g, e
    <3> QED BY <2>6, <2>8, <2>9
  <2> HIDE DEF g, Good
  <2> QED BY <1>2, <2>5, <2>10
<1> QED BY <1>4, <1>5

\* Without removes exactly the elements of S and keeps the others in order.
LEMMA WithoutRight ==
  ASSUME NEW X, NEW s \in Seq(X), NEW S, NEW R, PairsIn(s, R)
  PROVE  /\ Without(s, S) \in Seq(X)
         /\ Range(Without(s, S)) = Range(s) \ S
         /\ PairsIn(Without(s, S), R)
<1> DEFINE Body(f) == [i \in 0..Len(s) |->
                         IF i = 0 THEN << >>
                         ELSE IF s[i] \in S THEN f[i - 1] ELSE Append(f[i - 1], s[i])]
           K == CHOOSE f : f = Body(f)
<1>0. Len(s) \in Nat /\ Len(s) \in 0..Len(s) /\ Prefix(s, Len(s)) = Range(s)
  BY RangeEquality DEF Prefix
<1>1. PICK f \in [0..Len(s) -> Seq(X)] : IsKept(f, s, S, Len(s)) /\ KeptRight(f[Len(s)], s, S, R, Len(s))
  BY <1>0, KeptExists
<1>2. f = Body(f)
  BY <1>1 DEF IsKept
<1>3. K = Body(K)
  <2> HIDE DEF Body
  <2> QED BY <1>2
<1>4. Without(s, S) = K[Len(s)]
  BY DEF Without
<1>5. ASSUME NEW n \in 0..Len(s) PROVE K[n] = f[n]
  <2> HIDE DEF K
  <2> DEFINE T == {m \in 0..Len(s) : K[m] # f[m]}
  <2>1. SUFFICES ASSUME T # {} PROVE FALSE
    OBVIOUS
  <2>2. T \in SUBSET Nat
    OBVIOUS
  <2>3. PICK m \in T : \A l \in T : m <= l
    <3> HIDE DEF T
    <3> QED BY <2>1, <2>2, LeastNat
  <2>4. m \in 0..Len(s) /\ K[m] # f[m] /\ (m # 0 => K[m - 1] = f[m - 1])
    <3>1. m \in 0..Len(s) /\ K[m] # f[m]
      OBVIOUS
    <3>2. m # 0 => m - 1 \in 0..Len(s) /\ ~(m <= m - 1)
      BY <1>0, <3>1
    <3>3. m # 0 => m - 1 \notin T
      <4> HIDE DEF T
      <4> QED BY <2>3, <3>2
    <3> QED BY <3>1, <3>2, <3>3
  <2>5. /\ f[m] = IF m = 0 THEN << >>
                  ELSE IF s[m] \in S THEN f[m - 1] ELSE Append(f[m - 1], s[m])
        /\ K[m] = IF m = 0 THEN << >>
                  ELSE IF s[m] \in S THEN K[m - 1] ELSE Append(K[m - 1], s[m])
    <3>1. K[m] = Body(K)[m]
      <4> HIDE DEF Body
      <4> QED BY <1>3
    <3> HIDE DEF T
    <3> QED BY <1>1, <2>4, <3>1 DEF IsKept
  <2> HIDE DEF T
  <2> QED BY <2>4, <2>5
<1> HIDE DEF K
<1> QED BY <1>0, <1>1, <1>4, <1>5 DEF KeptRight
-----------------------------------------------------------------------------
(* Soundness of the fields. *)

Sound(h) == IsCache(h) /\ LookupIndexed(h) /\ UnprocessedHeld(h)

\* A new cache is sound.
LEMMA EmptySound == Sound(EmptyCache)
  BY DEF Sound, IsCache, LookupIndexed, UnprocessedHeld, EmptyCache

\* remove_change keeps the field types, whatever keys it is given.
LEMMA RemoveType ==
  ASSUME NEW h, IsCache(h), NEW S, NEW taken \in BOOLEAN
  PROVE  IsCache(RemoveChanges(h, S, taken))
<1> DEFINE g == RemoveChanges(h, S, taken)
<1>1. g.ts2key = Without(h.ts2key, {k \in S : k.seq_num \notin h.unprocessed_seqnum})
  BY DEF IsCache, RemoveChanges
<1> QED BY <1>1 DEF IsCache, RemoveChanges

\* remove_change keeps a cache sound: it cleans every index it must, and leaves
\* unprocessed changes alone.
LEMMA RemoveSound ==
  ASSUME NEW h, Sound(h), NEW S, NEW taken \in BOOLEAN
  PROVE  Sound(RemoveChanges(h, S, taken))
<1>1. IsCache(RemoveChanges(h, S, taken))
  BY RemoveType DEF Sound
<1>2. LookupIndexed(RemoveChanges(h, S, taken))
  BY DEF Sound, IsCache, LookupIndexed, RemoveChanges
<1>3. UnprocessedHeld(RemoveChanges(h, S, taken))
  BY DEF Sound, IsCache, UnprocessedHeld, RemoveChanges, HCKey
<1> QED BY <1>1, <1>2, <1>3 DEF Sound

\* add_change of a known key keeps a cache sound.
LEMMA RefreshSound ==
  ASSUME NEW h, Sound(h), NEW k \in h.changes, NEW q \in Qos
  PROVE  Sound(Refresh(h, k, q))
<1>0. k \in HCKey /\ k.seq_num \in SeqNum /\ k.guid \in Guid
  BY DEF Sound, IsCache, HCKey
<1>1. Refresh(h, k, q).ts2key = h.ts2key
  BY DEF Sound, IsCache, Refresh
<1>2. IsCache(Refresh(h, k, q))
  BY <1>0, <1>1 DEF Sound, IsCache, Refresh
<1>3. LookupIndexed(Refresh(h, k, q))
  BY DEF Sound, IsCache, LookupIndexed, Refresh
<1>4. UnprocessedHeld(Refresh(h, k, q))
  BY <1>0 DEF Sound, IsCache, UnprocessedHeld, Refresh
<1> QED BY <1>2, <1>3, <1>4 DEF Sound

\* add_change of a new key keeps a cache sound, KeepLast deletions included.
LEMMA InsertSound ==
  ASSUME NEW h, Sound(h), NEW k \in HCKey, NEW q \in Qos
  PROVE  Sound(Insert(h, k, q))
<1> DEFINE put == [h EXCEPT !.last_added = @ \cup {k.guid},
                            !.ts2key     = Append(@, k),
                            !.kind2key   = @ \cup {k},
                            !.changes    = @ \cup {k}]
           new == [put EXCEPT !.unprocessed_seqnum = @ \cup {k.seq_num}]
<1>0. k.seq_num \in SeqNum /\ k.guid \in Guid
  BY DEF HCKey
<1>1. /\ put.changes = h.changes \cup {k}
      /\ put.kind2key = h.kind2key \cup {k}
      /\ put.ready_key = h.ready_key
      /\ put.unprocessed_seqnum = h.unprocessed_seqnum
      /\ put.ts2key = Append(h.ts2key, k)
  BY DEF Sound, IsCache
<1>2. IsCache(put)
  BY <1>0, <1>1 DEF Sound, IsCache
<1>3. Sound(put)
  BY <1>1, <1>2 DEF Sound, LookupIndexed, UnprocessedHeld
<1>4. /\ new.changes = put.changes
      /\ new.kind2key = put.kind2key
      /\ new.ready_key = put.ready_key
      /\ new.ts2key = put.ts2key
      /\ new.unprocessed_seqnum = put.unprocessed_seqnum \cup {k.seq_num}
  BY <1>2 DEF IsCache
<1>5. IsCache(new)
  BY <1>0, <1>2, <1>4 DEF IsCache
<1>6. Sound(new)
  BY <1>1, <1>3, <1>4, <1>5 DEF Sound, LookupIndexed, UnprocessedHeld
<1>7. Sound(RemoveChanges(put, BeyondDepth(put.changes, q.depth), FALSE))
  BY <1>3, RemoveSound
<1> QED BY <1>3, <1>6, <1>7 DEF Insert

\* add_change keeps a cache sound in each of its four outcomes.
LEMMA AddSound ==
  ASSUME NEW h, Sound(h), NEW k \in HCKey, NEW q \in Qos
  PROVE  Sound(AddChange(h, k, q))
<1>1. k \in h.changes => Sound(Refresh(h, k, q))
  BY RefreshSound
<1>2. Sound(Insert(h, k, q))
  BY InsertSound
<1>3. Sound(RemoveChange(h, Head(h.ts2key), FALSE))
  BY RemoveSound DEF RemoveChange
<1>4. Sound(Insert(RemoveChange(h, Head(h.ts2key), FALSE), k, q))
  BY <1>3, InsertSound
<1>5. q.is_reliable \in BOOLEAN
  BY DEF Qos
<1> HIDE DEF Sound
<1> QED BY <1>1, <1>2, <1>4, <1>5, Zenon DEF AddChange

\* get_unprocessed keeps a cache sound.
LEMMA GetUnprocessedSound ==
  ASSUME NEW h, Sound(h) PROVE Sound(GetUnprocessed(h))
<1>1. GetUnprocessed(h).ts2key = h.ts2key
  BY DEF Sound, IsCache, GetUnprocessed
<1> QED BY <1>1 DEF Sound, IsCache, LookupIndexed, UnprocessedHeld, GetUnprocessed

\* get_taken keeps a cache sound.
LEMMA GetTakenSound ==
  ASSUME NEW h, Sound(h) PROVE Sound(GetTaken(h))
<1>1. GetTaken(h).ts2key = h.ts2key
  BY DEF Sound, IsCache, GetTaken
<1> QED BY <1>1 DEF Sound, IsCache, LookupIndexed, UnprocessedHeld, GetTaken

\* get_taken_less_than keeps a cache sound.
LEMMA GetTakenLessThanSound ==
  ASSUME NEW h, Sound(h), NEW g, NEW n PROVE Sound(GetTakenLessThan(h, g, n))
<1>1. GetTakenLessThan(h, g, n).ts2key = h.ts2key
  BY DEF Sound, IsCache, GetTakenLessThan
<1> QED BY <1>1 DEF Sound, IsCache, LookupIndexed, UnprocessedHeld, GetTakenLessThan, TakenLessThan

\* flush keeps a cache sound: what becomes ready is held.
LEMMA FlushSound ==
  ASSUME NEW h, Sound(h) PROVE Sound(Flush(h))
<1>1. Flush(h).ts2key = h.ts2key
  BY DEF Sound, IsCache, Flush
<1> QED BY <1>1 DEF Sound, IsCache, LookupIndexed, UnprocessedHeld, Flush

\* remove_change takes away no other key and leaves unprocessed_seqnum alone.
LEMMA RemoveFields ==
  ASSUME NEW h, IsCache(h), NEW S, NEW taken \in BOOLEAN
  PROVE  /\ RemoveChanges(h, S, taken).changes \subseteq h.changes
         /\ h.changes \ S \subseteq RemoveChanges(h, S, taken).changes
         /\ RemoveChanges(h, S, taken).unprocessed_seqnum = h.unprocessed_seqnum
  BY DEF IsCache, RemoveChanges

\* An insertion adds the one key; on a Writer's cache it removes nothing.
LEMMA InsertFields ==
  ASSUME NEW h, Sound(h), NEW k \in HCKey, NEW q \in Qos
  PROVE  /\ Insert(h, k, q).changes \subseteq h.changes \cup {k}
         /\ q.hc_type = "Writer" => h.changes \subseteq Insert(h, k, q).changes
<1> DEFINE put == [h EXCEPT !.last_added = @ \cup {k.guid},
                            !.ts2key     = Append(@, k),
                            !.kind2key   = @ \cup {k},
                            !.changes    = @ \cup {k}]
           new == [put EXCEPT !.unprocessed_seqnum = @ \cup {k.seq_num}]
<1>0. k.seq_num \in SeqNum /\ k.guid \in Guid
  BY DEF HCKey
<1>1. put.changes = h.changes \cup {k} /\ put.ts2key = Append(h.ts2key, k)
  BY DEF Sound, IsCache
<1>2. IsCache(put)
  BY <1>0, <1>1 DEF Sound, IsCache
<1>3. new.changes = put.changes
  BY <1>2 DEF IsCache
<1>4. RemoveChanges(put, BeyondDepth(put.changes, q.depth), FALSE).changes \subseteq put.changes
  BY <1>2, RemoveFields
<1> QED BY <1>1, <1>3, <1>4 DEF Insert

\* add_change adds at most the one key, which is then unprocessed; on the cache of
\* a Writer that is reliable or has no limit it never removes a sample.
LEMMA AddFields ==
  ASSUME NEW h, Sound(h), NEW k \in HCKey, NEW q \in Qos
  PROVE  /\ AddChange(h, k, q).changes \subseteq h.changes \cup {k}
         /\ q.hc_type = "Writer" /\ (q.is_reliable \/ q.max_samples = LENGTH_UNLIMITED) =>
              h.changes \subseteq AddChange(h, k, q).changes
         /\ AddChange(h, k, q).unprocessed_seqnum \subseteq h.unprocessed_seqnum \cup {k.seq_num}
<1> DEFINE r == RemoveChange(h, Head(h.ts2key), FALSE)
<1>0. ASSUME NEW c, Sound(c)
      PROVE  Insert(c, k, q).unprocessed_seqnum \subseteq c.unprocessed_seqnum \cup {k.seq_num}
  BY <1>0 DEF Insert, Sound, IsCache, RemoveChanges
<1>1. /\ Refresh(h, k, q).changes = h.changes
      /\ Refresh(h, k, q).unprocessed_seqnum \subseteq h.unprocessed_seqnum \cup {k.seq_num}
  BY DEF Sound, IsCache, Refresh
<1>2. /\ Insert(h, k, q).changes \subseteq h.changes \cup {k}
      /\ q.hc_type = "Writer" => h.changes \subseteq Insert(h, k, q).changes
  BY InsertFields
<1>3. Sound(r) /\ r.changes \subseteq h.changes /\ r.unprocessed_seqnum = h.unprocessed_seqnum
  BY RemoveSound, RemoveFields DEF RemoveChange, Sound
<1>4. Insert(r, k, q).changes \subseteq h.changes \cup {k}
  BY <1>3, InsertFields
<1>5. q.is_reliable \in BOOLEAN
  BY DEF Qos
<1>6. CASE k \in h.changes
  <2>1. AddChange(h, k, q) = Refresh(h, k, q)
    BY <1>6 DEF AddChange
  <2> QED BY <1>1, <2>1
<1>7. CASE k \notin h.changes /\ ~AtLimit(h, q)
  <2>1. AddChange(h, k, q) = Insert(h, k, q)
    BY <1>7 DEF AddChange
  <2> QED BY <1>0, <1>2, <2>1
<1>8. CASE k \notin h.changes /\ AtLimit(h, q) /\ q.is_reliable
  <2>1. AddChange(h, k, q) = h
    BY <1>8 DEF AddChange
  <2> QED BY <2>1
<1>9. CASE k \notin h.changes /\ AtLimit(h, q) /\ ~q.is_reliable
  <2>1. AddChange(h, k, q) = Insert(r, k, q)
    BY <1>9 DEF AddChange
  <2>2. q.max_samples # LENGTH_UNLIMITED
    BY <1>9 DEF AtLimit
  <2>3. Insert(r, k, q).unprocessed_seqnum \subseteq h.unprocessed_seqnum \cup {k.seq_num}
    BY <1>0, <1>3
  <2> HIDE DEF r
  <2> QED BY <1>4, <1>9, <2>1, <2>2, <2>3
<1> QED BY <1>5, <1>6, <1>7, <1>8, <1>9

\* What add_change answers Ok to on the cache of a reliable Writer is held and
\* waits to be processed afterwards, and nothing else changes.
LEMMA AddAccepts ==
  ASSUME NEW h, Sound(h), NEW k \in HCKey, NEW q \in Qos, q.hc_type = "Writer",
         q.is_reliable, AddChangeResult(h, k, q) = "Ok"
  PROVE  /\ AddChange(h, k, q).changes = h.changes \cup {k}
         /\ AddChange(h, k, q).unprocessed_seqnum = h.unprocessed_seqnum \cup {k.seq_num}
<1>1. CASE k \in h.changes
  <2>1. AddChange(h, k, q) = Refresh(h, k, q)
    BY <1>1 DEF AddChange
  <2> QED BY <1>1, <2>1 DEF Refresh, Sound, IsCache
<1>2. CASE k \notin h.changes
  <2>1. ~AtLimit(h, q)
    BY <1>2 DEF AddChangeResult
  <2>2. AddChange(h, k, q) = Insert(h, k, q)
    BY <1>2, <2>1 DEF AddChange
  <2> QED BY <2>2 DEF Insert, Sound, IsCache
<1> QED BY <1>1, <1>2

-----------------------------------------------------------------------------
(* The insertion-order index. *)

\* The index lists the samples held, any two of them related by R.
Indexed(h, R) == /\ h.ts2key \in Seq(HCKey)
                 /\ Range(h.ts2key) = h.changes
                 /\ PairsIn(h.ts2key, R)

\* Different keys.
Distinct == {p \in HCKey \X HCKey : p[1] # p[2]}

\* A sequence without repetitions is as long as its range is large.
LEMMA DistinctLen ==
  ASSUME NEW s \in Seq(HCKey), PairsIn(s, Distinct)
  PROVE  IsFiniteSet(Range(s)) /\ Cardinality(Range(s)) = Len(s)
<1>0. Len(s) \in Nat /\ DOMAIN s = 1..Len(s)
  OBVIOUS
<1>1. \A i, j \in 1..Len(s) : s[i] = s[j] => i = j
  <2> SUFFICES ASSUME NEW i \in 1..Len(s), NEW j \in 1..Len(s), s[i] = s[j], i # j PROVE FALSE
    OBVIOUS
  <2>1. CASE i < j
    BY <2>1 DEF PairsIn, Distinct
  <2>2. CASE j < i
    BY <2>2 DEF PairsIn, Distinct
  <2> QED BY <1>0, <2>1, <2>2
<1>2. s \in Bijection(1..Len(s), Range(s))
  BY <1>0, <1>1 DEF Bijection, Injection, Surjection, IsInjective, Range
<1>3. IsFiniteSet(1..Len(s)) /\ Cardinality(1..Len(s)) = Len(s)
  BY <1>0, FS_Interval
<1>4. ExistsBijection(1..Len(s), Range(s))
  BY <1>2 DEF ExistsBijection
<1> QED BY <1>3, <1>4, FS_Bijection

\* The insertion-order index is what InsertionOrdered asks for.
LEMMA IndexedOrdered ==
  ASSUME NEW h, IsCache(h), Indexed(h, Distinct)
  PROVE  /\ InsertionOrdered(h)
         /\ IsFiniteSet(h.changes)
         /\ Cardinality(h.changes) = Len(h.ts2key)
<1>1. IsFiniteSet(h.changes) /\ Cardinality(h.changes) = Len(h.ts2key)
  BY DistinctLen DEF Indexed
<1>2. {h.ts2key[i] : i \in DOMAIN h.ts2key} = h.changes
  BY DEF Indexed, Range
<1> QED BY <1>1, <1>2 DEF InsertionOrdered, Indexed

\* remove_change keeps the insertion order of what remains.
LEMMA RemoveIndexed ==
  ASSUME NEW h, IsCache(h), NEW S, NEW taken \in BOOLEAN, NEW R, Indexed(h, R)
  PROVE  Indexed(RemoveChanges(h, S, taken), R)
<1> DEFINE gone == {k \in S : k.seq_num \notin h.unprocessed_seqnum}
           g    == RemoveChanges(h, S, taken)
<1>1. g.ts2key = Without(h.ts2key, gone) /\ g.changes = h.changes \ gone
  BY DEF RemoveChanges, IsCache
<1>2. /\ Without(h.ts2key, gone) \in Seq(HCKey)
      /\ Range(Without(h.ts2key, gone)) = Range(h.ts2key) \ gone
      /\ PairsIn(Without(h.ts2key, gone), R)
  <2> HIDE DEF gone
  <2> QED BY WithoutRight DEF Indexed
<1> HIDE DEF g, gone
<1>3. Indexed(g, R)
  BY <1>1, <1>2 DEF Indexed
<1> QED BY <1>3 DEF g

\* An insertion appends the key.
LEMMA InsertIndexed ==
  ASSUME NEW h, IsCache(h), NEW k \in HCKey, NEW q \in Qos, NEW R, Indexed(h, R),
         \A j \in h.changes : <<j, k>> \in R
  PROVE  Indexed(Insert(h, k, q), R)
<1> DEFINE put == [h EXCEPT !.last_added = @ \cup {k.guid},
                            !.ts2key     = Append(@, k),
                            !.kind2key   = @ \cup {k},
                            !.changes    = @ \cup {k}]
           new == [put EXCEPT !.unprocessed_seqnum = @ \cup {k.seq_num}]
<1>1. put.changes = h.changes \cup {k} /\ put.ts2key = Append(h.ts2key, k)
  BY DEF IsCache
<1>2. IsCache(put)
  <2>1. k.guid \in Guid
    BY DEF HCKey
  <2> QED BY <1>1, <2>1 DEF IsCache
<1>3. new.changes = put.changes /\ new.ts2key = put.ts2key
  BY <1>2 DEF IsCache
<1>4. /\ PairsIn(Append(h.ts2key, k), R)
      /\ Range(Append(h.ts2key, k)) = Range(h.ts2key) \cup {k}
      /\ Append(h.ts2key, k) \in Seq(HCKey)
  <2>1. h.ts2key \in Seq(HCKey) /\ PairsIn(h.ts2key, R)
    BY DEF Indexed
  <2>2. \A i \in 1..Len(h.ts2key) : <<h.ts2key[i], k>> \in R
    BY <2>1 DEF Indexed, Range
  <2> DEFINE s == h.ts2key
  <2> HIDE DEF s, put, new
  <2>3. s \in Seq(HCKey) /\ PairsIn(s, R) /\ \A i \in 1..Len(s) : <<s[i], k>> \in R
    BY <2>1, <2>2 DEF s
  <2>4. PairsIn(Append(s, k), R) /\ Range(Append(s, k)) = Range(s) \cup {k}
    BY <2>3, AppendRight
  <2> QED BY <2>3, <2>4 DEF s
<1> HIDE DEF put, new
<1>5. Indexed(put, R)
  BY <1>1, <1>4 DEF Indexed
<1>6. Indexed(new, R)
  BY <1>3, <1>5 DEF Indexed
<1>7. Indexed(RemoveChanges(put, BeyondDepth(put.changes, q.depth), FALSE), R)
  BY <1>2, <1>5, RemoveIndexed
<1> QED BY <1>5, <1>6, <1>7 DEF Insert, put, new

\* add_change keeps the index.
LEMMA AddIndexed ==
  ASSUME NEW h, IsCache(h), NEW k \in HCKey, NEW q \in Qos, NEW R, Indexed(h, R),
         k \notin h.changes => \A j \in h.changes : <<j, k>> \in R
  PROVE  Indexed(AddChange(h, k, q), R)
<1>1. Indexed(Refresh(h, k, q), R)
  <2>1. Refresh(h, k, q).ts2key = h.ts2key /\ Refresh(h, k, q).changes = h.changes
    BY DEF Refresh, IsCache
  <2> QED BY <2>1 DEF Indexed
<1>2. k \notin h.changes => Indexed(Insert(h, k, q), R)
  BY InsertIndexed
<1> DEFINE g == RemoveChange(h, Head(h.ts2key), FALSE)
<1>3. Indexed(g, R) /\ g.changes \subseteq h.changes /\ IsCache(g)
  <2>1. IsCache(RemoveChanges(h, {Head(h.ts2key)}, FALSE))
    BY RemoveType
  <2>2. RemoveChanges(h, {Head(h.ts2key)}, FALSE).changes \subseteq h.changes
    BY RemoveFields
  <2> QED BY <2>1, <2>2, RemoveIndexed DEF RemoveChange
<1> HIDE DEF g
<1>4. k \notin h.changes => Indexed(Insert(g, k, q), R)
  BY <1>3, InsertIndexed
<1>5. q.is_reliable \in BOOLEAN
  BY DEF Qos
<1> QED BY <1>1, <1>2, <1>4, <1>5, Zenon DEF AddChange, g

-----------------------------------------------------------------------------
(* The number of samples. *)

\* KeyLess orders keys totally.
LEMMA KeyOrder ==
  ASSUME NEW a \in HCKey, NEW b \in HCKey, NEW c \in HCKey
  PROVE  /\ ~KeyLess(a, a)
         /\ a = b \/ KeyLess(a, b) \/ KeyLess(b, a)
         /\ KeyLess(a, b) /\ KeyLess(b, c) => KeyLess(a, c)
<1>1. \A k \in {a, b, c} : k.guid \in Nat /\ k.seq_num \in Nat
  BY GuidAssumption, SeqNumAssumption DEF HCKey
<1>2. a.guid = b.guid /\ a.seq_num = b.seq_num => a = b
  BY DEF HCKey
<1> QED BY <1>1, <1>2 DEF KeyLess

\* What KeepLast leaves of a set of keys is no larger than the depth.
LEMMA DepthBounds ==
  ASSUME NEW S \in SUBSET HCKey, IsFiniteSet(S), NEW depth \in Nat \ {0}
  PROVE  /\ IsFiniteSet(S \ BeyondDepth(S, depth))
         /\ Cardinality(S \ BeyondDepth(S, depth)) <= depth
<1> DEFINE Above(k) == {j \in S : KeyLess(k, j)}
           T == S \ BeyondDepth(S, depth)
           C == {n \in Nat : \E k \in T : n = Cardinality(Above(k))}
<1>1. \A k : IsFiniteSet(Above(k)) /\ Cardinality(Above(k)) \in Nat
  BY FS_Subset, FS_CardinalityType
<1>2. T = {k \in S : Cardinality(Above(k)) < depth}
  BY <1>1 DEF BeyondDepth
<1>3. IsFiniteSet(T)
  BY FS_Subset
<1> HIDE DEF T
<1>4. CASE T = {}
  BY <1>4, FS_EmptySet DEF T
<1>5. CASE T # {}
  <2>1. C \in SUBSET Nat /\ C # {} /\ \A n \in C : n <= depth
    <3> HIDE DEF Above
    <3>1. PICK k \in T : TRUE
      BY <1>5
    <3>2. Cardinality(Above(k)) \in C
      BY <1>1
    <3>3. \A n \in C : n <= depth
      BY <1>1, <1>2
    <3> QED BY <3>2, <3>3
  <2>2. PICK n \in C : \A m \in C : m <= n
    <3> HIDE DEF C
    <3> QED BY <2>1, GreatestNat
  <2>3. PICK k \in T : n = Cardinality(Above(k))
    BY <2>2
  <2>4. ASSUME NEW j \in T PROVE j = k \/ j \in Above(k)
    <3>1. j \in S /\ k \in S /\ j \in HCKey /\ k \in HCKey
      BY <1>2
    <3>2. SUFFICES ASSUME KeyLess(j, k) PROVE FALSE
      BY <3>1, KeyOrder
    <3>3. Above(k) \cup {k} \subseteq Above(j)
      BY <3>1, <3>2, KeyOrder
    <3>4. k \notin Above(k)
      BY <3>1, KeyOrder
    <3>5. Cardinality(Above(k) \cup {k}) = n + 1
      <4> HIDE DEF Above
      <4> QED BY <1>1, <2>3, <3>4, FS_AddElement
    <3>6. n + 1 <= Cardinality(Above(j))
      <4> HIDE DEF Above
      <4>1. Cardinality(Above(k) \cup {k}) <= Cardinality(Above(j))
        BY <1>1, <3>3, FS_Subset
      <4> QED BY <3>5, <4>1
    <3>7. Cardinality(Above(j)) \in C
      BY <1>1
    <3> HIDE DEF C
    <3> QED BY <1>1, <2>1, <2>2, <3>6, <3>7
  <2> HIDE DEF Above
  <2>5. T \subseteq Above(k) \cup {k}
    BY <2>4
  <2>6. /\ IsFiniteSet(Above(k) \cup {k})
        /\ Cardinality(Above(k) \cup {k}) <= n + 1
    <3>1. IsFiniteSet(Above(k)) /\ n \in Nat
      BY <1>1, <2>3
    <3> HIDE DEF C
    <3> QED BY <2>3, <3>1, FS_AddElement
  <2>7. Cardinality(T) <= Cardinality(Above(k) \cup {k})
    BY <2>5, <2>6, FS_Subset
  <2>8. n < depth /\ n \in Nat
    BY <1>1, <1>2, <2>3
  <2>9. Cardinality(T) \in Nat /\ Cardinality(Above(k) \cup {k}) \in Nat
    BY <1>3, <2>6, FS_CardinalityType
  <2>10. Cardinality(T) <= depth
    BY <2>6, <2>7, <2>8, <2>9
  <2> QED BY <1>3, <2>10 DEF T
<1> QED BY <1>4, <1>5

\* remove_change never makes a cache larger.
LEMMA RemoveSize ==
  ASSUME NEW h, IsCache(h), Indexed(h, Distinct), NEW S, NEW taken \in BOOLEAN
  PROVE  Cardinality(RemoveChanges(h, S, taken).changes) <= Cardinality(h.changes)
<1>1. IsFiniteSet(h.changes)
  BY IndexedOrdered
<1>2. RemoveChanges(h, S, taken).changes \in SUBSET h.changes
  BY RemoveFields
<1> QED BY <1>1, <1>2, FS_Subset

\* An insertion makes a cache larger by at most one.
LEMMA InsertSize ==
  ASSUME NEW h, Sound(h), Indexed(h, Distinct), NEW k \in HCKey, NEW q \in Qos
  PROVE  Cardinality(Insert(h, k, q).changes) <= Cardinality(h.changes) + 1
<1>1. IsFiniteSet(h.changes)
  BY IndexedOrdered DEF Sound
<1>2. Insert(h, k, q).changes \in SUBSET (h.changes \cup {k})
  BY InsertFields
<1>3. /\ IsFiniteSet(h.changes \cup {k})
      /\ Cardinality(h.changes \cup {k}) <= Cardinality(h.changes) + 1
      /\ Cardinality(h.changes) \in Nat
  <2>1. Cardinality(h.changes) \in Nat
    BY <1>1, FS_CardinalityType
  <2>2. /\ IsFiniteSet(h.changes \cup {k})
        /\ Cardinality(h.changes \cup {k}) =
             IF k \in h.changes THEN Cardinality(h.changes) ELSE Cardinality(h.changes) + 1
    BY <1>1, FS_AddElement
  <2> QED BY <2>1, <2>2
<1>4. /\ Cardinality(Insert(h, k, q).changes) <= Cardinality(h.changes \cup {k})
      /\ Cardinality(Insert(h, k, q).changes) \in Nat
      /\ Cardinality(h.changes \cup {k}) \in Nat
  BY <1>2, <1>3, FS_Subset, FS_CardinalityType
<1> QED BY <1>3, <1>4

\* add_change respects max_samples, unless the sample it must evict is one that
\* the RTPS Writer has still to process.
LEMMA AddSize ==
  ASSUME NEW h, Sound(h), Indexed(h, Distinct), NEW k \in HCKey, NEW q \in Qos,
         q.max_samples # LENGTH_UNLIMITED, Cardinality(h.changes) <= q.max_samples,
         AddChangeResult(h, k, q) = "Ok",
         q.is_reliable \/ h.unprocessed_seqnum = {}
  PROVE  Cardinality(AddChange(h, k, q).changes) <= q.max_samples
<1>0. /\ q.is_reliable \in BOOLEAN /\ q.max_samples \in Nat
      /\ IsFiniteSet(h.changes) /\ Cardinality(h.changes) \in Nat
      /\ IsCache(h)
  BY IndexedOrdered, FS_CardinalityType DEF Qos, Sound, LENGTH_UNLIMITED
<1>1. CASE k \in h.changes
  <2>1. AddChange(h, k, q) = Refresh(h, k, q)
    BY <1>1 DEF AddChange
  <2>2. Refresh(h, k, q).changes = h.changes
    BY <1>0 DEF Refresh, IsCache
  <2> QED BY <2>1, <2>2
<1>2. CASE k \notin h.changes /\ ~AtLimit(h, q)
  <2>1. AddChange(h, k, q) = Insert(h, k, q)
    BY <1>2 DEF AddChange
  <2>2. Cardinality(h.changes) + 1 <= q.max_samples
    BY <1>0, <1>2 DEF AtLimit
  <2>3. Cardinality(Insert(h, k, q).changes) <= Cardinality(h.changes) + 1
    BY InsertSize
  <2>4. Cardinality(Insert(h, k, q).changes) \in Nat
    <3>1. Insert(h, k, q).changes \in SUBSET (h.changes \cup {k})
      BY InsertFields
    <3> QED BY <1>0, <3>1, FS_AddElement, FS_Subset, FS_CardinalityType
  <2> QED BY <1>0, <2>1, <2>2, <2>3, <2>4
<1>3. CASE k \notin h.changes /\ AtLimit(h, q) /\ q.is_reliable
  <2>1. AddChange(h, k, q) = h
    BY <1>3 DEF AddChange
  <2> QED BY <2>1
<1>4. CASE k \notin h.changes /\ AtLimit(h, q) /\ ~q.is_reliable
  <2> DEFINE o == Head(h.ts2key)
             g == RemoveChange(h, o, FALSE)
  <2>1. AddChange(h, k, q) = Insert(g, k, q)
    BY <1>4 DEF AddChange
  <2>2. h.ts2key # << >> /\ h.unprocessed_seqnum = {}
    BY <1>4 DEF AddChangeResult
  <2>3. o \in h.changes
    <3>1. h.ts2key \in Seq(HCKey) /\ Range(h.ts2key) = h.changes
      BY DEF Indexed
    <3>2. 1 \in 1..Len(h.ts2key) /\ o = h.ts2key[1]
      BY <2>2, <3>1
    <3> QED BY <3>1, <3>2, RangeEquality
  <2> HIDE DEF o
  <2>4. g.changes = h.changes \ {o}
    BY <1>0, <2>2 DEF RemoveChange, RemoveChanges, IsCache
  <2>5. Sound(g) /\ Indexed(g, Distinct)
    BY <1>0, RemoveSound, RemoveIndexed DEF RemoveChange
  <2> HIDE DEF g
  <2>6. Cardinality(g.changes) + 1 <= q.max_samples /\ Cardinality(g.changes) \in Nat
    <3>1. Cardinality(h.changes \ {o}) = Cardinality(h.changes) - 1 /\ IsFiniteSet(h.changes \ {o})
      BY <1>0, <2>3, FS_RemoveElement
    <3> QED BY <1>0, <2>4, <3>1, FS_CardinalityType
  <2>7. Cardinality(Insert(g, k, q).changes) <= Cardinality(g.changes) + 1
    BY <2>5, InsertSize
  <2>8. Cardinality(Insert(g, k, q).changes) \in Nat
    <3>1. Insert(g, k, q).changes \in SUBSET (g.changes \cup {k})
      BY <2>5, InsertFields
    <3>2. IsFiniteSet(g.changes)
      BY <2>5, IndexedOrdered DEF Sound
    <3> QED BY <3>1, <3>2, FS_AddElement, FS_Subset, FS_CardinalityType
  <2> QED BY <1>0, <2>1, <2>6, <2>7, <2>8
<1> QED BY <1>0, <1>1, <1>2, <1>3, <1>4

\* An insertion into the cache of a KeepLast Reader leaves at most depth samples.
LEMMA InsertDepth ==
  ASSUME NEW h, Sound(h), Indexed(h, Distinct), NEW k \in HCKey, NEW q \in Qos,
         q.hc_type = "Reader", q.history = "KeepLast", h.unprocessed_seqnum = {}
  PROVE  Cardinality(Insert(h, k, q).changes) <= q.depth
<1> DEFINE put == [h EXCEPT !.last_added = @ \cup {k.guid},
                            !.ts2key     = Append(@, k),
                            !.kind2key   = @ \cup {k},
                            !.changes    = @ \cup {k}]
<1>1. /\ put.changes = h.changes \cup {k}
      /\ put.ts2key = Append(h.ts2key, k)
      /\ put.unprocessed_seqnum = {}
  BY DEF Sound, IsCache
<1>2. IsCache(put)
  <2>1. k.guid \in Guid
    BY DEF HCKey
  <2> QED BY <1>1, <2>1 DEF Sound, IsCache
<1>3. IsFiniteSet(put.changes) /\ put.changes \in SUBSET HCKey
  BY <1>1, IndexedOrdered, FS_AddElement DEF Sound, IsCache
<1>4. Insert(h, k, q) = RemoveChanges(put, BeyondDepth(put.changes, q.depth), FALSE)
  BY DEF Insert
<1> HIDE DEF put
<1>5. Insert(h, k, q).changes = put.changes \ BeyondDepth(put.changes, q.depth)
  BY <1>1, <1>2, <1>4 DEF RemoveChanges, IsCache
<1>6. q.depth \in Nat \ {0}
  BY DEF Qos
<1> QED BY <1>3, <1>5, <1>6, DepthBounds

\* add_change on a Reader's cache: nothing becomes unprocessed, and a KeepLast
\* Reader holds at most depth samples.
LEMMA AddDepth ==
  ASSUME NEW h, Sound(h), Indexed(h, Distinct), NEW k \in HCKey, NEW q \in Qos,
         q.hc_type = "Reader", h.unprocessed_seqnum = {}
  PROVE  /\ AddChange(h, k, q).unprocessed_seqnum = {}
         /\ q.history = "KeepLast" /\ Cardinality(h.changes) <= q.depth =>
              Cardinality(AddChange(h, k, q).changes) <= q.depth
<1> DEFINE g == RemoveChange(h, Head(h.ts2key), FALSE)
<1>0. q.is_reliable \in BOOLEAN /\ IsCache(h)
  BY DEF Qos, Sound
<1>1. Sound(g) /\ Indexed(g, Distinct) /\ g.unprocessed_seqnum = {}
  <2>1. Sound(g) /\ Indexed(g, Distinct)
    BY <1>0, RemoveSound, RemoveIndexed DEF RemoveChange
  <2>2. g.unprocessed_seqnum = h.unprocessed_seqnum
    BY <1>0, RemoveFields DEF RemoveChange
  <2> QED BY <2>1, <2>2
<1>2. Refresh(h, k, q).unprocessed_seqnum = {} /\ Refresh(h, k, q).changes = h.changes
  BY <1>0 DEF Refresh, IsCache
<1>3. ASSUME NEW c, Sound(c), c.unprocessed_seqnum = {}
      PROVE  Insert(c, k, q).unprocessed_seqnum = {}
  BY <1>3 DEF Insert, Sound, IsCache, RemoveChanges
<1> HIDE DEF g
<1>4. q.history = "KeepLast" => /\ Cardinality(Insert(h, k, q).changes) <= q.depth
                                /\ Cardinality(Insert(g, k, q).changes) <= q.depth
  BY <1>1, InsertDepth
<1>5. Insert(h, k, q).unprocessed_seqnum = {} /\ Insert(g, k, q).unprocessed_seqnum = {}
  BY <1>1, <1>3
<1>6. AddChange(h, k, q) \in {Refresh(h, k, q), Insert(h, k, q), h, Insert(g, k, q)}
  BY <1>0, Zenon DEF AddChange, g
<1> QED BY <1>2, <1>4, <1>5, <1>6

-----------------------------------------------------------------------------
(* What the operators on ReaderProxies do. *)

\* A proxy without entries is a ReaderProxy.
LEMMA EmptyProxyType == EmptyReaderProxy \in ReaderProxy
  BY DEF EmptyReaderProxy, ReaderProxy, ChangeForReader, NoChangeForReader

\* update_cache_state keeps a ReaderProxy's type and the relevance of the entries.
LEMMA WithStatusType ==
  ASSUME NEW p \in ReaderProxy, NEW S, NEW kind \in ChangeForReaderStatusKind
  PROVE  /\ WithStatus(p, S, kind) \in ReaderProxy
         /\ \A n \in SeqNum : WithStatus(p, S, kind)[n] =
              IF n \in S THEN [status |-> kind, is_relevant |-> p[n].is_relevant] ELSE p[n]
  BY DEF WithStatus, UpdateCacheState, ReaderProxy, ChangeForReader

\* Marking the unsent entries Underway changes nothing in what is acknowledged.
LEMMA UnderwayKeeps ==
  ASSUME NEW p \in ReaderProxy, NEW n \in SeqNum
  PROVE  IsAcked(WithStatus(p, UnsentChanges(p), "Underway"), n) <=> IsAcked(p, n)
<1> DEFINE q == WithStatus(p, UnsentChanges(p), "Underway")
<1>1. q[n] = IF n \in UnsentChanges(p)
             THEN [status |-> "Underway", is_relevant |-> p[n].is_relevant] ELSE p[n]
  BY WithStatusType DEF ChangeForReaderStatusKind
<1>2. CASE n \in UnsentChanges(p)
  <2>1. q[n].status = "Underway" /\ q[n].is_relevant = p[n].is_relevant /\ p[n].status = "Unsent"
    BY <1>1, <1>2 DEF UnsentChanges
  <2> HIDE DEF q
  <2>2. IsAcked(q, n) <=> IsAcked(p, n)
    BY <2>1, Zenon DEF IsAcked
  <2> QED BY <2>2 DEF q
<1>3. CASE n \notin UnsentChanges(p)
  BY <1>1, <1>3 DEF IsAcked
<1> QED BY <1>2, <1>3

\* Marking entries Acknowledged leaves the others as they are.
LEMMA AckedSets ==
  ASSUME NEW p \in ReaderProxy, NEW S, NEW n \in SeqNum
  PROVE  IsAcked(WithStatus(p, S, "Acknowledged"), n) <=> n \in S \/ IsAcked(p, n)
<1> DEFINE q == WithStatus(p, S, "Acknowledged")
<1>1. q[n] = IF n \in S
             THEN [status |-> "Acknowledged", is_relevant |-> p[n].is_relevant] ELSE p[n]
  BY WithStatusType DEF ChangeForReaderStatusKind
<1> QED BY <1>1 DEF IsAcked

\* Entries that get another status are no longer unsent.
LEMMA WithStatusUnsent ==
  ASSUME NEW p \in ReaderProxy, NEW S, NEW kind \in ChangeForReaderStatusKind, kind # "Unsent"
  PROVE  UnsentChanges(WithStatus(p, S, kind)) = UnsentChanges(p) \ S
<1> DEFINE q == WithStatus(p, S, kind)
<1>1. \A n \in SeqNum : q[n] =
        IF n \in S THEN [status |-> kind, is_relevant |-> p[n].is_relevant] ELSE p[n]
  BY WithStatusType
<1> HIDE DEF q
<1>2. ASSUME NEW n \in SeqNum PROVE q[n].status = "Unsent" <=> n \notin S /\ p[n].status = "Unsent"
  <2>1. CASE n \in S
    <3>0. q[n] = [status |-> kind, is_relevant |-> p[n].is_relevant]
      BY <1>1, <2>1, Zenon
    <3>1. q[n].status = kind
      BY <3>0
    <3> QED BY <2>1, <3>1
  <2>2. CASE n \notin S
    BY <1>1, <2>2
  <2> QED BY <2>1, <2>2
<1> QED BY <1>2 DEF UnsentChanges, q
=============================================================================
