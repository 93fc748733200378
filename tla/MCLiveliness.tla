---------------------------- MODULE MCLiveliness ----------------------------
(* Small instances of Liveliness: an Automatic and a ManualByTopic Writer.  *)
EXTENDS Liveliness, TLC

CONSTANTS w1, w2, r1

MCKind      == w1 :> "Automatic" @@ w2 :> "ManualByTopic"
MCLease     == w1 :> 2 @@ w2 :> 2
MCRequested == r1 :> "Automatic"
=============================================================================
