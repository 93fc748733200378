--------------------------- MODULE WriterPipeline ---------------------------
(***************************************************************************)
(* One DataWriter thread and the event-loop thread that runs its RTPS      *)
(* Writer (src/src/dds/datawriter.rs, src/src/rtps/writer.rs).  They share *)
(* the history cache, taken and released once per access, and the bounded  *)
(* WriterCmd channel.  A step is what a thread does under one acquisition  *)
(* of the cache lock together with the thread-local work around it, so the *)
(* steps of one handler of the Writer interleave with the DataWriter.      *)
(* Repairs (ACKNACKs that request samples) are in ReliableProtocol.        *)
(***************************************************************************)
EXTENDS StatefulWriter

CONSTANTS
  ChannelCapacity,   \* capacity of the WriterCmd channel (4 in publisher.rs)
  ReadersLeave       \* whether a run explores readers whose participant goes away

ASSUME CapacityAssumption   == ChannelCapacity \in Nat \ {0}
ASSUME LeaveAssumption      == ReadersLeave \in BOOLEAN

WriterCmd == {"WriteData", "AssertLiveliness"}

VARIABLES
  hc,        \* the shared cache
  cmds,      \* the WriterCmd channel
  last,      \* DataWriter: last_change_sequence_number
  app,       \* DataWriter: where it is in writer_data_to_hc
  matched,   \* Writer: the keys of matched_readers
  rp,        \* Writer: the ReaderProxy of every reader
  pc,        \* event loop: where it is in a handler
  ret,       \* event loop: where it goes on after remove_acked_changes
  work,      \* event loop: the handler's locals, see Work
  sent,      \* history: the numbers sent to each reader, as DATA or in a GAP
  needs,     \* history: the numbers a reader is to get and has not acknowledged
  owed,      \* environment: the readers that have a HEARTBEAT to answer
  panicked   \* an unreachable! or an index panic was reached

appVars  == <<last, app>>
loopVars == <<matched, rp, pc, ret, work, sent, needs, owed>>
vars     == <<hc, cmds, last, app, matched, rp, pc, ret, work, sent, needs, owed, panicked>>

\* The locals of a handler: base of remove_acked_changes and the keys it found,
\* the DATA and GAP still to send, and the sample a best-effort writer drops next.
NoOne == [n \in SeqNum |-> {}]
Idle  == [base |-> 0, remove |-> {}, data |-> NoOne, gap |-> NoOne, drop |-> 0]

Init == /\ hc = EmptyCache
        /\ cmds = << >>
        /\ last = 0
        /\ app = "idle"
        /\ matched \in SUBSET Readers
        /\ rp = [r \in Readers |-> EmptyReaderProxy]
        /\ pc = "poll"
        /\ ret = "poll"
        /\ work = Idle
        /\ sent = [r \in Readers |-> {}]
        /\ needs = [r \in Readers |-> {}]
        /\ owed = {}
        /\ panicked = FALSE

-----------------------------------------------------------------------------
(* The DataWriter thread: writer_data_to_hc and assert_liveliness. *)

StartWrite == /\ app = "idle"
              /\ last + 1 \in SeqNum
              /\ last' = last + 1
              /\ app' = "add"
              /\ UNCHANGED <<hc, cmds, panicked>>
              /\ UNCHANGED loopVars

\* add_change under the write lock; WouldBlock makes the thread sleep.
AddChangeToCache ==
  LET r == AddChangeResult(hc, Key(last), WriterQos)
  IN  /\ app = "add"
      /\ app' = CASE r = "Ok" -> "send" [] r = "WouldBlock" -> "sleep" [] r = "Panic" -> "add"
      /\ hc' = IF r = "Ok" THEN AddChange(hc, Key(last), WriterQos) ELSE hc
      /\ panicked' = (r = "Panic")
      /\ UNCHANGED <<cmds, last>>
      /\ UNCHANGED loopVars

WakeAndRetry == /\ app = "sleep"
                /\ app' = "add"
                /\ UNCHANGED <<hc, cmds, last, panicked>>
                /\ UNCHANGED loopVars

\* Mutants of SendWriteData: the command is dropped when the channel is full;
\* the channel is taken to be unbounded.
SendWriteDataOrDrop ==
  /\ app = "send"
  /\ cmds' = IF Len(cmds) < ChannelCapacity THEN Append(cmds, "WriteData") ELSE cmds
  /\ app' = "idle"
  /\ UNCHANGED <<hc, last, panicked>>
  /\ UNCHANGED loopVars
SendWriteDataUnbounded ==
  /\ app = "send"
  /\ cmds' = Append(cmds, "WriteData")
  /\ app' = "idle"
  /\ UNCHANGED <<hc, last, panicked>>
  /\ UNCHANGED loopVars

\* send(WriteData) blocks while the channel is full.
SendWriteData == /\ app = "send"
                 /\ Len(cmds) < ChannelCapacity
                 /\ cmds' = Append(cmds, "WriteData")
                 /\ app' = "idle"
                 /\ UNCHANGED <<hc, last, panicked>>
                 /\ UNCHANGED loopVars

\* DataWriter::assert_liveliness of a manual-liveliness writer.
SendAssertLiveliness == /\ app = "idle"
                        /\ Len(cmds) < ChannelCapacity
                        /\ cmds' = Append(cmds, "AssertLiveliness")
                        /\ UNCHANGED <<hc, last, app, panicked>>
                        /\ UNCHANGED loopVars

DataWriterStep == StartWrite \/ AddChangeToCache \/ WakeAndRetry \/ SendWriteData

-----------------------------------------------------------------------------
(* The event loop: Writer::handle_writer_cmd. *)

\* handle_writer_cmd keeps receiving until the channel is empty.
RecvCmd == /\ pc \in {"poll", "drain"}
           /\ cmds # << >>
           /\ cmds' = Tail(cmds)
           /\ pc' = IF Head(cmds) = "WriteData" THEN "get_unprocessed" ELSE "hb_last"
           /\ ret' = "drain"
           /\ UNCHANGED <<hc, matched, rp, work, sent, needs, owed, panicked>>
           /\ UNCHANGED appVars

ChannelEmpty == /\ pc = "drain"
                /\ cmds = << >>
                /\ pc' = "poll"
                /\ ret' = "poll"
                /\ UNCHANGED <<hc, cmds, matched, rp, work, sent, needs, owed, panicked>>
                /\ UNCHANGED appVars

\* handle_write_data_cmd, first part: collect the new changes and register them
\* with every ReaderProxy.
GetUnprocessedStep ==
  LET S == hc.unprocessed_seqnum
  IN  /\ pc = "get_unprocessed"
      /\ hc' = GetUnprocessed(hc)
      /\ rp' = RegisterUnsent(rp, matched, S)
      /\ pc' = CASE S = {} -> "drain"
                 [] S # {} /\ WriterQos.is_reliable  -> "acked_scan"
                 [] S # {} /\ ~WriterQos.is_reliable -> "collect"
      /\ ret' = IF S # {} /\ WriterQos.is_reliable THEN "collect" ELSE ret
      /\ work' = [work EXCEPT !.base = MinOrZero(S)]
      /\ needs' = [r \in Readers |-> IF r \in matched
                                     THEN (needs[r] \ S) \cup {n \in S : IsRelevant(n, S)}
                                     ELSE needs[r]]
      /\ UNCHANGED <<cmds, matched, sent, owed, panicked>>
      /\ UNCHANGED appVars

\* remove_acked_changes, first part: find the acknowledged changes.
AckedScan == /\ pc = "acked_scan"
             /\ work' = [work EXCEPT !.remove = AckedChanges(hc, rp, matched, work.base)]
             /\ pc' = "acked_remove"
             /\ UNCHANGED <<hc, cmds, matched, rp, ret, sent, needs, owed, panicked>>
             /\ UNCHANGED appVars

\* remove_acked_changes, second part: the lock is taken again for every key.
AckedRemove ==
  /\ pc = "acked_remove"
  /\ \/ /\ work.remove = {}
        /\ pc' = ret
        /\ UNCHANGED <<hc, rp, work>>
     \/ \E k \in work.remove :
          /\ \A j \in work.remove : k.seq_num <= j.seq_num
          /\ hc' = RemoveChange(hc, k, FALSE)
          /\ rp' = ForgetStates(rp, matched, {k.seq_num})
          /\ work' = [work EXCEPT !.remove = @ \ {k}]
          /\ pc' = pc
  /\ UNCHANGED <<cmds, matched, ret, sent, needs, owed, panicked>>
  /\ UNCHANGED appVars

\* Mutant of Collect: the changes stay Unsent.
CollectKeepsUnsent ==
  /\ pc = "collect"
  /\ work' = [work EXCEPT
                !.data = [n \in SeqNum |-> {r \in matched : n \in UnsentChanges(rp[r])}]]
  /\ pc' = "send_data"
  /\ UNCHANGED <<hc, cmds, matched, rp, ret, sent, needs, owed, panicked>>
  /\ UNCHANGED appVars

\* handle_write_data_cmd, second part: every unsent change becomes Underway and
\* is put on the list of DATA or of GAPs to send.
Collect ==
  LET unsent(rel) ==
        [n \in SeqNum |-> {r \in matched : /\ n \in UnsentChanges(rp[r])
                                           /\ rp[r][n].is_relevant = rel}]
  IN  /\ pc = "collect"
      /\ work' = [work EXCEPT !.data = unsent(TRUE), !.gap = unsent(FALSE)]
      /\ rp' = [r \in Readers |->
                  IF r \in matched THEN WithStatus(rp[r], UnsentChanges(rp[r]), "Underway")
                                   ELSE rp[r]]
      /\ pc' = "send_data"
      /\ UNCHANGED <<hc, cmds, matched, ret, sent, needs, owed, panicked>>
      /\ UNCHANGED appVars

ToSend(list) == {n \in SeqNum : list[n] # {}}

\* Mutant of SendData: in any order.
SendDataUnordered(n) ==
  /\ pc = "send_data"
  /\ n \in ToSend(work.data)
  /\ panicked' = (Key(n) \notin hc.changes)
  /\ sent' = [r \in Readers |-> IF r \in work.data[n] THEN sent[r] \cup {n} ELSE sent[r]]
  /\ pc' = IF WriterQos.is_reliable THEN "send_data" ELSE "drop_sent"
  /\ work' = [work EXCEPT !.data[n] = {},
                          !.drop = IF WriterQos.is_reliable THEN 0 ELSE n]
  /\ UNCHANGED <<hc, cmds, matched, rp, ret, needs, owed>>
  /\ UNCHANGED appVars

\* Third part: one DATA per sequence number, in order.  The sample is looked up
\* again; its absence is the unreachable! of the code.
SendData(n) ==
  /\ pc = "send_data"
  /\ n \in ToSend(work.data)
  /\ \A m \in ToSend(work.data) : n <= m
  /\ panicked' = (Key(n) \notin hc.changes)
  /\ sent' = IF Key(n) \in hc.changes
             THEN [r \in Readers |-> IF r \in work.data[n] THEN sent[r] \cup {n} ELSE sent[r]]
             ELSE sent
  /\ pc' = IF WriterQos.is_reliable THEN "send_data" ELSE "drop_sent"
  /\ work' = [work EXCEPT !.data[n] = {},
                          !.drop = IF WriterQos.is_reliable THEN 0 ELSE n]
  /\ UNCHANGED <<hc, cmds, matched, rp, ret, needs, owed>>
  /\ UNCHANGED appVars

\* A best-effort writer forgets a sample once it is sent.
DropSent == /\ pc = "drop_sent"
            /\ hc' = RemoveChange(hc, Key(work.drop), FALSE)
            /\ work' = [work EXCEPT !.drop = 0]
            /\ pc' = "send_data"
            /\ UNCHANGED <<cmds, matched, rp, ret, sent, needs, owed, panicked>>
            /\ UNCHANGED appVars

\* Last part: a GAP per irrelevant sequence number.
SendGap(n) ==
  /\ pc = "send_data"
  /\ ToSend(work.data) = {}
  /\ n \in ToSend(work.gap)
  /\ \A m \in ToSend(work.gap) : n <= m
  /\ sent' = [r \in Readers |-> IF r \in work.gap[n] THEN sent[r] \cup {n} ELSE sent[r]]
  /\ hc' = IF WriterQos.is_reliable THEN hc ELSE RemoveChange(hc, Key(n), FALSE)
  /\ work' = [work EXCEPT !.gap[n] = {}]
  /\ UNCHANGED <<cmds, matched, rp, pc, ret, needs, owed, panicked>>
  /\ UNCHANGED appVars

WriteDataDone == /\ pc = "send_data"
                 /\ ToSend(work.data) = {}
                 /\ ToSend(work.gap) = {}
                 /\ work' = Idle
                 /\ pc' = "drain"
                 /\ ret' = "drain"
                 /\ UNCHANGED <<hc, cmds, matched, rp, sent, needs, owed, panicked>>
                 /\ UNCHANGED appVars

-----------------------------------------------------------------------------
(* The event loop: heartbeats, acknowledgements, matching. *)

\* The heartbeat timer of a reliable writer: nothing to do if all is acknowledged.
HeartbeatTimer == /\ pc = "poll"
                  /\ WriterQos.is_reliable
                  /\ ~IsAckedAllChanges(hc, rp, matched)
                  /\ pc' = "hb_last"
                  /\ ret' = "poll"
                  /\ UNCHANGED <<hc, cmds, matched, rp, work, sent, needs, owed, panicked>>
                  /\ UNCHANGED appVars

\* send_heart_beat: the first reading of last_sn, then remove_acked_changes.
HeartbeatBase == /\ pc = "hb_last"
                 /\ work' = [work EXCEPT !.base = HeartbeatLast(hc)]
                 /\ pc' = "acked_scan"
                 /\ ret' = IF ret = "drain" THEN "hb_send_drain" ELSE "hb_send_poll"
                 /\ UNCHANGED <<hc, cmds, matched, rp, sent, needs, owed, panicked>>
                 /\ UNCHANGED appVars

\* send_heart_beat reads first_sn and last_sn under one lock and sends.
HeartbeatSend == /\ pc \in {"hb_send_drain", "hb_send_poll"}
                 /\ pc' = IF pc = "hb_send_drain" THEN "drain" ELSE "poll"
                 /\ ret' = pc'
                 /\ work' = Idle
                 /\ owed' = IF CanAnnounce(hc) THEN owed \cup matched ELSE owed
                 /\ UNCHANGED <<hc, cmds, matched, rp, sent, needs, panicked>>
                 /\ UNCHANGED appVars

\* Mutant of HandleAck: what is acknowledged is not removed.
HandleAckKeeps(r, base) ==
  /\ pc = "poll"
  /\ r \in matched \cap owed
  /\ owed' = owed \ {r}
  /\ \A n \in Entries(rp[r]) : n < base => n \in sent[r]
  /\ rp' = [rp EXCEPT ![r] = AckedChangesSet(rp[r], base - 1)]
  /\ needs' = [needs EXCEPT ![r] = {n \in @ : n >= base}]
  /\ UNCHANGED <<hc, cmds, matched, pc, ret, work, sent, panicked>>
  /\ UNCHANGED appVars

\* handle_acknack, nothing requested.  A reader answers a HEARTBEAT and
\* acknowledges only what was sent to it.
HandleAck(r, base) ==
  /\ pc = "poll"
  /\ r \in matched \cap owed
  /\ owed' = owed \ {r}
  /\ \A n \in Entries(rp[r]) : n < base => n \in sent[r]
  /\ rp' = [rp EXCEPT ![r] = AckedChangesSet(rp[r], base - 1)]
  /\ work' = [work EXCEPT !.base = base - 1]
  /\ pc' = "acked_scan"
  /\ ret' = "poll"
  /\ needs' = [needs EXCEPT ![r] = {n \in @ : n >= base}]
  /\ UNCHANGED <<hc, cmds, matched, sent, panicked>>
  /\ UNCHANGED appVars

\* matched_reader_add of a new reader, which reads the whole cache.
MatchReader(r, durability) ==
  /\ pc = "poll"
  /\ r \notin matched
  /\ durability = "TransientLocal" => Durability = "TransientLocal"
  /\ matched' = matched \cup {r}
  /\ rp' = [rp EXCEPT ![r] = ProxyOf(hc, durability)]
  /\ needs' = [needs EXCEPT ![r] = {n \in SeqNum : rp'[r][n].is_relevant}]
  /\ UNCHANGED <<hc, cmds, pc, ret, work, sent, owed, panicked>>
  /\ UNCHANGED appVars

\* delete_reader_proxy when the reader's participant is gone.
UnmatchReader(r) ==
  /\ ReadersLeave
  /\ pc = "poll"
  /\ r \in matched
  /\ matched' = matched \ {r}
  /\ owed' = owed \ {r}
  /\ rp' = [rp EXCEPT ![r] = EmptyReaderProxy]
  /\ sent' = [sent EXCEPT ![r] = {}]
  /\ needs' = [needs EXCEPT ![r] = {}]
  /\ UNCHANGED <<hc, cmds, pc, ret, work, panicked>>
  /\ UNCHANGED appVars

AckBase == SeqNum \cup {n + 1 : n \in SeqNum}

HandlerStep == \/ ChannelEmpty
               \/ GetUnprocessedStep
               \/ AckedScan
               \/ AckedRemove
               \/ Collect
               \/ \E n \in SeqNum : SendData(n)
               \/ DropSent
               \/ \E n \in SeqNum : SendGap(n)
               \/ WriteDataDone
               \/ HeartbeatBase
               \/ HeartbeatSend

Acknowledge(r) == \E base \in AckBase : HandleAck(r, base)

\* The acknowledgement of a reader that has received all it was sent.
AcknowledgeAll(r) ==
  \E base \in AckBase : HandleAck(r, base) /\ \A n \in sent[r] : n < base

Next == /\ ~panicked
        /\ \/ DataWriterStep
           \/ SendAssertLiveliness
           \/ RecvCmd
           \/ HandlerStep
           \/ HeartbeatTimer
           \/ \E r \in Readers : Acknowledge(r)
           \/ \E r \in Readers, d \in {"Volatile", "TransientLocal"} : MatchReader(r, d)
           \/ \E r \in Readers : UnmatchReader(r)

Spec == Init /\ [][Next]_vars

\* The threads run.  The event loop serves every ready event of a poll before
\* it polls again, so a command that waits is received even if timers keep
\* firing.
Threads == /\ WF_vars(DataWriterStep /\ ~panicked)
           /\ WF_vars(HandlerStep /\ ~panicked)
           /\ SF_vars(RecvCmd /\ ~panicked)

\* The heartbeat timer is periodic, and a reader that keeps getting HEARTBEATs
\* receives, in the end, all it was sent and says so.
FairSpec == /\ Spec
            /\ Threads
            /\ SF_vars(HeartbeatTimer /\ ~panicked)
            /\ \A r \in Readers : SF_vars(AcknowledgeAll(r) /\ ~panicked)

-----------------------------------------------------------------------------
(* Properties *)

\* The variables have their types, and the channel never holds more commands
\* than its capacity.
TypeOK == /\ IsCache(hc)
          /\ cmds \in Seq(WriterCmd) /\ Len(cmds) <= ChannelCapacity
          /\ last \in SeqNum \cup {0}
          /\ app \in {"idle", "add", "sleep", "send"}
          /\ matched \in SUBSET Readers
          /\ rp \in [Readers -> ReaderProxy]
          /\ pc \in {"poll", "drain", "get_unprocessed", "acked_scan", "acked_remove",
                     "collect", "send_data", "drop_sent",
                     "hb_last", "hb_send_poll", "hb_send_drain"}
          /\ ret \in {"poll", "drain", "collect", "hb_send_poll", "hb_send_drain"}
          /\ work \in [base : Nat, remove : SUBSET HCKey,
                       data : [SeqNum -> SUBSET Readers], gap : [SeqNum -> SUBSET Readers],
                       drop : SeqNum \cup {0}]
          /\ sent \in [Readers -> SUBSET SeqNum]
          /\ needs \in [Readers -> SUBSET SeqNum]
          /\ owed \in SUBSET Readers
          /\ panicked \in BOOLEAN

\* No lost wake-up: whenever a sample waits to be processed, a WriteData
\* command is queued, is about to be queued, or is being served.
NoLostWakeup ==
  hc.unprocessed_seqnum # {} =>
    \/ \E i \in 1..Len(cmds) : cmds[i] = "WriteData"
    \/ app = "send"
    \/ pc = "get_unprocessed"

\* A sample that a matched reader is to get and has not acknowledged is in the
\* writer's cache, at every point of every handler (reliable writer).
UnackedIsCached ==
  WriterQos.is_reliable =>
    \A r \in matched : \A n \in needs[r] : Key(n) \in hc.changes

\* The unreachable! in handle_write_data_cmd and the index panic in add_change
\* are not reached.
NoPanic == ~panicked

\* First transmissions go out in the order of the writes: nothing older than
\* what a reader was sent is sent to it for the first time later.
SentInOrder ==
  [][\A n \in SeqNum :
       SendData(n) => \A r \in work.data[n] : \A m \in sent[r] : m <= n]_vars

\* A HEARTBEAT announces every sample that a matched reader still needs and that
\* the writer has processed; a reader takes what lies below first_sn for lost.
HeartbeatCoversUnacked ==
  [][HeartbeatSend /\ CanAnnounce(hc) =>
       \A r \in matched : \A n \in needs[r] \ hc.unprocessed_seqnum :
         HeartbeatFirst(hc) <= n /\ n <= HeartbeatLast(hc)]_vars

\* The abstract store: a number counts as written once its sample is in the cache.
Store == INSTANCE ReliableStore
           WITH written <- IF app \in {"add", "sleep"} THEN last - 1 ELSE last,
                held    <- {k.seq_num : k \in hc.changes},
                pending <- hc.unprocessed_seqnum

\* A reliable writer is the simple store, in spite of the locks it releases in the
\* middle of its handlers: samples enter one by one and in order, none leaves
\* before it is processed and acknowledged by all, and none comes back.
ImplementsStore == Store!Spec

\* A written sample is sent to every reader that is and stays matched.
WrittenIsSent ==
  \A r \in Readers, n \in SeqNum :
    r \in matched /\ n \in hc.unprocessed_seqnum ~> n \in sent[r] \/ r \notin matched

\* write() returns.
WriteReturns == (app # "idle") ~> (app = "idle")
=============================================================================
