----------------------- MODULE SequenceNumberSetProofs -----------------------
(***************************************************************************)
(* A SequenceNumberSet carries exactly the numbers it is built from, and   *)
(* the receiver rejects it exactly when they span MaxBits or more.         *)
(***************************************************************************)
EXTENDS SequenceNumberSets, TLAPS

\* A set with a largest element, as every nonempty finite set of numbers.
Bounded(S) == \E top \in S : \A n \in S : n <= top

LEMMA MaxIsTop ==
  ASSUME NEW S \in SUBSET Nat, Bounded(S)
  PROVE  Max(S) \in S /\ \A n \in S : n <= Max(S)
  BY DEF Bounded, Max

\* The place of a number: its word and its offset there.
LEMMA Place ==
  ASSUME NEW d \in Nat
  PROVE  /\ d \div WordBits \in Nat
         /\ d % WordBits \in 0 .. WordBits - 1
         /\ d = WordBits * (d \div WordBits) + (d % WordBits)
  BY DEF WordBits

LEMMA PlaceUnique ==
  ASSUME NEW line \in Nat, NEW offset \in 0 .. WordBits - 1
  PROVE  /\ (WordBits * line + offset) \div WordBits = line
         /\ (WordBits * line + offset) % WordBits = offset
  BY DEF WordBits

\* What a reader requests is what the writer reads: set() of from_vec() gives the
\* numbers back, for every base not above them and every gap between them.
THEOREM SetRoundTrip ==
  ASSUME NEW base \in Nat, NEW S \in SUBSET Nat, \A n \in S : n >= base,
         S # {} => Bounded(S)
  PROVE  SetOf(FromVec(base, S)) = S
<1> DEFINE s == FromVec(base, S)
           bits == IF S = {} THEN 0 ELSE Max(S) - base + 1
           words == DivCeil(bits, WordBits)
<1>1. /\ s.bitmap_base = base
      /\ s.num_bits = bits
      /\ DOMAIN s.bitmap = 0 .. words - 1
      /\ \A line \in 0 .. words - 1 :
           s.bitmap[line] = {WordBits - 1 - ((n - base) % WordBits) :
                               n \in {m \in S : (m - base) \div WordBits = line}}
  BY DEF FromVec
<1>2. bits \in Nat /\ \A n \in S : n - base \in Nat /\ n - base < bits
  <2>1. CASE S = {}
    BY <2>1
  <2>2. CASE S # {}
    <3> DEFINE top == Max(S)
    <3>1. top \in S /\ \A n \in S : n <= top
      BY <2>2, MaxIsTop
    <3>2. bits = top - base + 1
      BY <2>2
    <3> HIDE DEF top, bits
    <3> QED BY <3>1, <3>2
  <2> QED BY <2>1, <2>2
<1> HIDE DEF s, bits
<1>3. ASSUME NEW n \in S
      PROVE  n \in SetOf(s)
  <2> DEFINE line == (n - base) \div WordBits
             offset == (n - base) % WordBits
  <2>1. /\ line \in Nat /\ offset \in 0 .. WordBits - 1
        /\ n - base = WordBits * line + offset
        /\ n - base \in Nat /\ n - base < bits
    BY <1>2, Place
  <2>2. WordBits - 1 - offset \in {WordBits - 1 - ((m - base) % WordBits) :
                                     m \in {i \in S : (i - base) \div WordBits = line}}
    OBVIOUS
  <2> HIDE DEF line, offset
  <2>3. line \in 0 .. words - 1
    BY <1>2, <2>1 DEF DivCeil, WordBits
  <2>4. offset < bits - line * WordBits
    BY <1>2, <2>1 DEF WordBits
  <2>5. base + WordBits * line + offset = n
    BY <2>1 DEF WordBits
  <2>6. offset \in {o \in Pertinent(s, line) : WordBits - 1 - o \in s.bitmap[line]}
    BY <1>1, <2>1, <2>2, <2>3, <2>4 DEF Pertinent
  <2> QED BY <1>1, <2>3, <2>5, <2>6 DEF SetOf
<1>4. ASSUME NEW n \in SetOf(s)
      PROVE  n \in S
  <2>1. PICK line \in 0 .. words - 1, offset \in 0 .. WordBits - 1 :
          /\ n = base + WordBits * line + offset
          /\ WordBits - 1 - offset \in s.bitmap[line]
    BY <1>1 DEF SetOf, Pertinent
  <2>2. PICK m \in S : /\ (m - base) \div WordBits = line
                       /\ WordBits - 1 - offset = WordBits - 1 - ((m - base) % WordBits)
    BY <1>1, <2>1
  <2>3. m - base = WordBits * line + offset
    <3>1. (m - base) % WordBits = offset
      BY <1>2, <2>1, <2>2, Place DEF WordBits
    <3> QED BY <1>2, <2>2, <3>1, Place
  <2>4. m = n
    BY <2>1, <2>3 DEF WordBits
  <2> QED BY <2>4
<1> QED BY <1>3, <1>4 DEF s

\* The limit of an ACKNACK: what from_vec builds passes is_valid exactly if the
\* largest number requested is less than MaxBits - 1 above a positive base.  The
\* comment in is_valid allows one more.
THEOREM ValidSpan ==
  ASSUME NEW base \in Nat, NEW S \in SUBSET Nat, \A n \in S : n >= base, Bounded(S)
  PROVE  IsValidSet(FromVec(base, S)) <=> base >= 1 /\ \A n \in S : n - base + 1 < MaxBits
<1>1. /\ FromVec(base, S).bitmap_base = base
      /\ FromVec(base, S).num_bits = Max(S) - base + 1
      /\ DOMAIN FromVec(base, S).bitmap
           = 0 .. DivCeil(FromVec(base, S).num_bits, WordBits) - 1
  BY DEF FromVec, Bounded
<1>2. Max(S) \in S /\ \A n \in S : n <= Max(S)
  BY MaxIsTop
<1> DEFINE s == FromVec(base, S)
<1>3. IsValidSet(s) <=> base >= 1 /\ Max(S) - base + 1 < MaxBits
  BY <1>1 DEF IsValidSet
<1>4. Max(S) - base + 1 < MaxBits <=> \A n \in S : n - base + 1 < MaxBits
  <2> DEFINE top == Max(S)
  <2>1. top \in S /\ \A n \in S : n <= top
    BY <1>2
  <2> HIDE DEF top
  <2>2. top - base + 1 < MaxBits <=> \A n \in S : n - base + 1 < MaxBits
    BY <2>1, MaxBitsAssumption
  <2> QED BY <2>2 DEF top
<1> QED BY <1>3, <1>4
=============================================================================
