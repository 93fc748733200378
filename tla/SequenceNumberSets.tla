------------------------- MODULE SequenceNumberSets -------------------------
(***************************************************************************)
(* SequenceNumberSet (src/src/message/submessage/element.rs): how ACKNACK  *)
(* and GAP put a set of sequence numbers on the wire, as a base, a number  *)
(* of bits and a vector of 32-bit words.  A word is the set of its bits    *)
(* that are 1, bit 31 being the first number of the word.                  *)
(***************************************************************************)
EXTENDS Integers, FiniteSets, FiniteSetsExt

CONSTANT MaxBits     \* 256 in is_valid

ASSUME MaxBitsAssumption == MaxBits \in Nat

WordBits == 32

DivCeil(n, d) == (n + d - 1) \div d

\* Mutant of FromVec: num_bits counts one bit too few.
FromVecShort(base, S) ==
  LET num_bits == IF S = {} THEN 0 ELSE Max(S) - base
  IN  [bitmap_base |-> base,
       num_bits    |-> num_bits,
       bitmap      |-> [line \in 0 .. DivCeil(num_bits, WordBits) - 1 |->
                          {WordBits - 1 - ((n - base) % WordBits) :
                             n \in {m \in S : (m - base) \div WordBits = line}}]]

\* from_vec of a vector in ascending order, so that resize only ever grows the
\* bitmap.
FromVec(base, S) ==
  LET num_bits == IF S = {} THEN 0 ELSE Max(S) - base + 1
  IN  [bitmap_base |-> base,
       num_bits    |-> num_bits,
       bitmap      |-> [line \in 0 .. DivCeil(num_bits, WordBits) - 1 |->
                          {WordBits - 1 - ((n - base) % WordBits) :
                             n \in {m \in S : (m - base) \div WordBits = line}}]]

\* The bits of a line that set() looks at.
Pertinent(s, line) ==
  {offset \in 0 .. WordBits - 1 : offset < s.num_bits - line * WordBits}

\* set().
SetOf(s) ==
  UNION {{s.bitmap_base + WordBits * line + offset :
            offset \in {o \in Pertinent(s, line) : WordBits - 1 - o \in s.bitmap[line]}} :
         line \in DOMAIN s.bitmap}

\* is_valid.
IsValidSet(s) == /\ s.bitmap_base >= 1
                 /\ s.num_bits < MaxBits
                 /\ DOMAIN s.bitmap = 0 .. DivCeil(s.num_bits, WordBits) - 1
=============================================================================
