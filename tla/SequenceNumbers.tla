-------------------------- MODULE SequenceNumbers ---------------------------
(***************************************************************************)
(* SequenceNumber (src/src/message/submessage/element.rs): an i64 counted  *)
(* from 1; 0 stands for "none".  SeqNum bounds the numbers a run meets.    *)
(***************************************************************************)
EXTENDS Integers, FiniteSets, FiniteSetsExt

CONSTANT SeqNum

ASSUME SeqNumAssumption == SeqNum \subseteq Nat \ {0}

\* The largest (smallest) element of a set of sequence numbers, 0 if there is none.
MaxOrZero(S) == IF S = {} THEN 0 ELSE Max(S)
MinOrZero(S) == IF S = {} THEN 0 ELSE Min(S)
=============================================================================
