--------------------------- MODULE ReliableStore ----------------------------
(***************************************************************************)
(* What a reliable writer promises, without threads, locks, channels or    *)
(* proxies: samples are accepted one after the other, each of them becomes *)
(* due to some readers, and a sample is given up only when it is no longer *)
(* pending and no reader needs it.  WriterPipeline implements this.        *)
(***************************************************************************)
EXTENDS Integers

CONSTANTS Readers

VARIABLES
  written,   \* the number of the last sample accepted
  held,      \* the numbers of the samples that can still be sent
  pending,   \* those not yet assigned to readers
  needs      \* the numbers each reader is to get and has not acknowledged

vars == <<written, held, pending, needs>>

Init == /\ written = 0
        /\ held = {}
        /\ pending = {}
        /\ needs = [r \in Readers |-> {}]

\* The next number, no other, is accepted.
Accept == /\ written' = written + 1
          /\ held' = held \cup {written + 1}
          /\ pending' = pending \cup {written + 1}
          /\ UNCHANGED needs

\* All that is pending is assigned at once; a reader that skips some of it needs
\* everything older as before.
Assign == /\ pending' = {}
          /\ DOMAIN needs' = Readers
          /\ \A r \in Readers : /\ needs[r] \ pending \subseteq needs'[r]
                                /\ needs'[r] \subseteq needs[r] \cup pending
          /\ UNCHANGED <<written, held>>

\* A reader joins and is to get some of what is held.
Join(r, S) == /\ S \subseteq held
              /\ needs' = [needs EXCEPT ![r] = S]
              /\ UNCHANGED <<written, held, pending>>

\* A reader acknowledges or leaves.
Settle(r, S) == /\ S \subseteq needs[r]
                /\ needs' = [needs EXCEPT ![r] = S]
                /\ UNCHANGED <<written, held, pending>>

\* Nobody needs the sample.
Drop(n) == /\ n \in held \ pending
           /\ \A r \in Readers : n \notin needs[r]
           /\ held' = held \ {n}
           /\ UNCHANGED <<written, pending, needs>>

Next == \/ Accept
        \/ Assign
        \/ \E r \in Readers : \E S \in SUBSET held : Join(r, S)
        \/ \E r \in Readers : \E S \in SUBSET needs[r] : Settle(r, S)
        \/ \E n \in held : Drop(n)

Spec == Init /\ [][Next]_vars
=============================================================================
