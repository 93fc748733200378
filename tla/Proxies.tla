------------------------------ MODULE Proxies -------------------------------
(***************************************************************************)
(* ReaderProxy and WriterProxy (src/src/structure/proxy.rs): what a Writer *)
(* remembers of a sample for each matched Reader, and what a Reader        *)
(* remembers of a sample of each matched Writer.  A BTreeMap from sequence *)
(* numbers is a total function here, None standing for "no entry".         *)
(***************************************************************************)
EXTENDS SequenceNumbers

-----------------------------------------------------------------------------
(* ReaderProxy *)

ChangeForReaderStatusKind ==
  {"Unsent", "Unacknowledged", "Requested", "Acknowledged", "Underway"}

ChangeForReader == [status      : ChangeForReaderStatusKind \cup {"None"},
                    is_relevant : BOOLEAN]

ReaderProxy == [SeqNum -> ChangeForReader]

NoChangeForReader == [status |-> "None", is_relevant |-> FALSE]

EmptyReaderProxy == [n \in SeqNum |-> NoChangeForReader]

\* ReaderProxy::new for a user-defined reader: an entry for every cached
\* change, relevant only if the reader is TransientLocal and it is the latest.
NewReaderProxy(cached, latest, durability) ==
  [n \in SeqNum |->
     IF n \in cached
     THEN [status      |-> "Unsent",
           is_relevant |-> durability = "TransientLocal" /\ n = latest]
     ELSE NoChangeForReader]

\* update_cache_state for the sequence numbers in S.
UpdateCacheState(p, S, relevant(_), kind) ==
  [n \in SeqNum |-> IF n \in S THEN [status |-> kind, is_relevant |-> relevant(n)]
                               ELSE p[n]]

WithStatus(p, S, kind) == UpdateCacheState(p, S, LAMBDA n : p[n].is_relevant, kind)

Entries(p)           == {n \in SeqNum : p[n].status # "None"}
UnsentChanges(p)     == {n \in SeqNum : p[n].status = "Unsent"}
RequestedChanges(p)  == {n \in SeqNum : p[n].status = "Requested"}

\* Mutant of AckedChangesSet: the committed number itself is left out.
AckedChangesSetBelow(p, committed) ==
  WithStatus(p, {n \in Entries(p) : n < committed}, "Acknowledged")

AckedChangesSet(p, committed) ==
  WithStatus(p, {n \in Entries(p) : n <= committed}, "Acknowledged")

\* A request for an unknown sequence number creates a relevant entry.
RequestedChangesSet(p, S) ==
  UpdateCacheState(p, S, LAMBDA n : p[n].status = "None" \/ p[n].is_relevant, "Requested")

IsAcked(p, n) == p[n].status # "None" /\ p[n].is_relevant => p[n].status = "Acknowledged"

RemoveReaderCacheState(p, S) ==
  [n \in SeqNum |-> IF n \in S THEN NoChangeForReader ELSE p[n]]

-----------------------------------------------------------------------------
(* WriterProxy *)

ChangeFromWriterStatusKind == {"Lost", "Missing", "Received"}

WriterProxy == [SeqNum -> ChangeFromWriterStatusKind \cup {"None"}]

EmptyWriterProxy == [n \in SeqNum |-> "None"]

\* available_changes_max: the largest number received, irrelevant or lost.
AvailableChanges(w) == {n \in SeqNum : w[n] \in {"Received", "Lost"}}
AvailableChangesMax(w) == MaxOrZero(AvailableChanges(w))

MissingChanges(w) == {n \in SeqNum : w[n] = "Missing"}

\* The base of the ACKNACK that answers a HEARTBEAT: everything below it is
\* acknowledged.
AckNackBase(w) ==
  IF MissingChanges(w) = {} THEN AvailableChangesMax(w) + 1 ELSE Min(MissingChanges(w))

ReceivedChangeSet(w, n) == [w EXCEPT ![n] = "Received"]

\* irrelevant_change_set files a gap under Received too.
IrrelevantChangeSet(w, S) == [n \in SeqNum |-> IF n \in S THEN "Received" ELSE w[n]]

MissingChangesUpdate(w, first, last) ==
  [n \in SeqNum |-> IF w[n] = "None" /\ first <= n /\ n <= last THEN "Missing" ELSE w[n]]

LostChangesUpdate(w, first) ==
  [n \in SeqNum |-> IF w[n] = "Missing" /\ n < first THEN "Lost" ELSE w[n]]

RemoveWriterCacheState(w, S) == [n \in SeqNum |-> IF n \in S THEN "None" ELSE w[n]]

=============================================================================
