-------------------------- MODULE ReliableProtocol --------------------------
(***************************************************************************)
(* The reliable RTPS exchange between one stateful Writer and its Readers  *)
(* (src/src/rtps/writer.rs, src/src/rtps/reader.rs, and the dispatch in    *)
(* src/src/message/message_receiver.rs): DATA, GAP and HEARTBEAT one way,  *)
(* ACKNACK the other, over UDP that may lose datagrams.  Every participant *)
(* handles one message or timer at a time on its event loop, so a handler  *)
(* is one action; the interleaving of a Writer's handlers with its         *)
(* DataWriter is in WriterPipeline.                                        *)
(*                                                                         *)
(* The readers live in participants, the hosts.  DATA and GAP go to the    *)
(* unicast socket of a host, which its readers share; HEARTBEATs go to the *)
(* multicast group every Reader announces.  A host polls the two sockets   *)
(* apart, so HEARTBEATs may overtake DATA or trail it; a host outside      *)
(* ApartHosts happens to read the two in the order of arrival.             *)
(* The writer here is user-defined, so it has no Final HEARTBEAT, and is   *)
(* in push mode.                                                           *)
(***************************************************************************)
EXTENDS StatefulWriter, SequenceNumberSets

CONSTANTS
  ReaderQos,             \* the readers' QoS, as add_change sees it
  Hosts,                 \* the participants of the readers
  Host,                  \* the participant of a reader
  EntityId,              \* the entity id of a reader, unique in its participant
  ApartHosts,            \* hosts that read one socket before the other
  NackResponseDelay,     \* nack_response_delay, 0 or not
  HbResponseDelay,       \* heartbeat_response_delay, 0 or not
  MaxLosses,             \* bound: datagrams the network loses
  MaxHeartbeats,         \* bound: HEARTBEATs and ACKNACKs under way per host
  MaxBacklog             \* bound: unread DATA and GAPs beyond which no HEARTBEAT is sent

ASSUME ReaderQosAssumption ==
  ReaderQos \in [Readers -> Qos] /\ \A r \in Readers : ReaderQos[r].hc_type = "Reader"
ASSUME ReliableAssumption == WriterQos.is_reliable
ASSUME HostAssumption == /\ Host \in [Readers -> Hosts] /\ ApartHosts \subseteq Hosts
                         /\ \A r, q \in Readers :
                              Host[r] = Host[q] /\ EntityId[r] = EntityId[q] => r = q
ASSUME DelayAssumption     == NackResponseDelay \in Nat /\ HbResponseDelay \in Nat
ASSUME BoundAssumption     == {MaxLosses, MaxHeartbeats, MaxBacklog} \subseteq Nat

VARIABLES
  hc,         \* Writer: the cache
  last,       \* DataWriter: last_change_sequence_number
  matched,    \* Writer: the keys of matched_readers
  rp,         \* Writer: the ReaderProxies
  an_state,   \* Writer: AckNackState
  rd,         \* Readers: cache, WriterProxy, writer_communication_state, history
  known,      \* Readers: those that have the writer in matched_writers
  net,        \* network: what waits at the sockets of a host, as it arrived
  acks,       \* network: what waits at the writer, per reader
  losses,     \* network: datagrams lost so far
  due         \* history: the numbers the writer decided a reader is to get

writerVars == <<hc, last, matched, rp, an_state, due>>
readerVars == <<rd, known>>
netVars    == <<net, acks, losses>>
vars       == <<hc, last, matched, rp, an_state, due, rd, known, net, acks, losses>>

\* A submessage, with the readers that its reader id stands for: those with the
\* entity id of one reader, or all of them for the id UNKNOW.
Data(n)         == [type |-> "DATA", n |-> n]
Gap(n)          == [type |-> "GAP", n |-> n]
Heartbeat(f, l) == [type |-> "HEARTBEAT", first |-> f, last |-> l]
AckNack(b, S)   == [type |-> "ACKNACK", reader_sn_state |-> FromVec(b, S)]

Addressed(r) == {q \in Readers : EntityId[q] = EntityId[r]}

Local(h) == {r \in Readers : Host[r] = h}

\* Mutant of ReaderId: every message is for all the readers behind a locator.
ReaderIdUnknown(S) == IF S # {} THEN Readers ELSE {}

\* min_message_cover: the reader id of the one message for the readers S that
\* share a locator.
ReaderId(S) ==
  IF Cardinality(S) > 1 THEN Readers ELSE UNION {Addressed(r) : r \in S}

\* The datagram with msg for the readers S that share a locator.
Datagram(socket, S, msg) == [socket |-> socket, to |-> ReaderId(S), body |-> msg]

\* Heartbeat::is_valid and the receiver's check.
IsValid(hb) == hb.first > 0 /\ hb.last >= hb.first - 1

\* ReaderState of a reader for the writer.
Initial    == [kind |-> "Initial", wait |-> {}, next |-> 0]
Waiting(S) == [kind |-> "Waiting", wait |-> S,  next |-> 0]
Expect(n)  == [kind |-> "Expect",  wait |-> {}, next |-> n]

\* The elements of a finite set of numbers in ascending order (BTreeMap order).
Ascending(S) ==
  CHOOSE s \in [1..Cardinality(S) -> S] :
    \A i, j \in 1..Cardinality(S) : i < j => s[i] < s[j]

\* For every number, in order, the message to the readers For(n) of a host.
Each(S, Msg(_), For(_)) ==
  LET s == Ascending({n \in S : For(n) # {}})
  IN  [i \in DOMAIN s |-> Datagram("unicast", For(s[i]), Msg(s[i]))]

\* cache, wp and state are the Reader's; got, acked and taken are the numbers
\* whose sample entered the cache, the largest number it has acknowledged and
\* the numbers take() has returned.
NewReader == [cache |-> EmptyCache, wp |-> EmptyWriterProxy, state |-> Initial,
              got |-> {}, acked |-> 0, taken |-> {}]

Init == /\ hc = EmptyCache
        /\ last = 0
        /\ matched = {}
        /\ rp = [r \in Readers |-> EmptyReaderProxy]
        /\ an_state = "Waiting"
        /\ rd = [r \in Readers |-> NewReader]
        /\ known = {}
        /\ due = [r \in Readers |-> {}]
        /\ net = [h \in Hosts |-> << >>]
        /\ acks = [r \in Readers |-> << >>]
        /\ losses = 0

-----------------------------------------------------------------------------
(* Discovery: either side matches the other when its SEDP message arrives. *)

\* Writer::matched_reader_add of a compatible reader.
MatchReader(r, durability) ==
  /\ r \notin matched
  /\ durability = "TransientLocal" => Durability = "TransientLocal"
  /\ matched' = matched \cup {r}
  /\ rp' = [rp EXCEPT ![r] = ProxyOf(hc, durability)]
  /\ due' = [due EXCEPT ![r] = {n \in SeqNum : rp'[r][n].is_relevant}]
  /\ UNCHANGED <<hc, last, an_state>>
  /\ UNCHANGED readerVars
  /\ UNCHANGED netVars

\* Reader::matched_writer_add of a compatible writer.
MatchWriter(r) ==
  /\ r \notin known
  /\ known' = known \cup {r}
  /\ rd' = [rd EXCEPT ![r].wp = EmptyWriterProxy, ![r].state = Initial]
  /\ UNCHANGED writerVars
  /\ UNCHANGED netVars

-----------------------------------------------------------------------------
(* The writer. *)

\* DataWriter::write, once add_change does not answer WouldBlock.
Write == /\ last + 1 \in SeqNum
         /\ AddChangeResult(hc, Key(last + 1), WriterQos) = "Ok"
         /\ hc' = AddChange(hc, Key(last + 1), WriterQos)
         /\ last' = last + 1
         /\ UNCHANGED <<matched, rp, an_state, due>>
         /\ UNCHANGED readerVars
         /\ UNCHANGED netVars

\* handle_write_data_cmd: register what is new, drop what is acknowledged, then
\* send a DATA or a GAP for everything unsent.
HandleWriteData ==
  LET S     == hc.unprocessed_seqnum
      h     == GetUnprocessed(hc)
      p     == RegisterUnsent(rp, matched, S)
      done  == AckedChanges(h, p, matched, MinOrZero(S))
      q     == ForgetStates(p, matched, {k.seq_num : k \in done})
      Unsent(g, rel, n) == {r \in matched \cap Local(g) :
                               n \in UnsentChanges(q[r]) /\ q[r][n].is_relevant = rel}
  IN  /\ S # {}
      /\ hc' = RemoveChanges(h, done, FALSE)
      /\ rp' = [r \in Readers |-> IF r \in matched
                                  THEN WithStatus(q[r], UnsentChanges(q[r]), "Underway")
                                  ELSE q[r]]
      /\ net' = [g \in Hosts |-> net[g] \o Each(SeqNum, Data, LAMBDA n : Unsent(g, TRUE, n))
                                       \o Each(SeqNum, Gap,  LAMBDA n : Unsent(g, FALSE, n))]
      /\ due' = [r \in Readers |->
                   IF r \in matched THEN (due[r] \ S) \cup {n \in S : IsRelevant(n, S)}
                                    ELSE due[r]]
      /\ UNCHANGED <<last, matched, an_state, acks, losses>>
      /\ UNCHANGED readerVars

Outstanding(h) ==
  Len(SelectSeq(net[h], LAMBDA m : m.body.type = "HEARTBEAT"))
    + Cardinality({r \in Local(h) : acks[r] # << >>})

\* send_heart_beat, from the periodic timer or, for liveliness, on request.  All
\* readers have the multicast locator in common, whose group every host joins.
SendHeartBeat(liveliness) ==
  LET done  == AckedChanges(hc, rp, matched, HeartbeatLast(hc))
      h     == RemoveChanges(hc, done, FALSE)
      hb    == Heartbeat(HeartbeatFirst(h), HeartbeatLast(h))
      At(g) == IF CanAnnounce(h) /\ Local(g) \cap ReaderId(matched) # {}
               THEN <<Datagram("multicast", matched, hb)>> ELSE << >>
  IN  /\ \A g \in Hosts : Outstanding(g) < MaxHeartbeats /\ Len(net[g]) <= MaxBacklog
      /\ liveliness \/ ~IsAckedAllChanges(hc, rp, matched)
      /\ hc' = h
      /\ rp' = ForgetStates(rp, matched, {k.seq_num : k \in done})
      /\ net' = [g \in Hosts |-> net[g] \o At(g)]
      /\ UNCHANGED <<last, matched, an_state, due, acks, losses>>
      /\ UNCHANGED readerVars

\* Mutant of NackResponse: the GAP starts one number late.
NackResponseLateGap(h, r, p) ==
  LET requested == RequestedChanges(p)
      Answer(n) == IF Key(n) \in h.changes THEN Data(n) ELSE Heartbeat(n + 1, SeqNumMax(h))
      Late(n)   == Gap(n + 1)
      One(n)    == {r}
  IN  Each({n \in requested : p[n].is_relevant}, Answer, One)
        \o Each({n \in requested : ~p[n].is_relevant}, Late, One)

\* handle_nack_response_timeout: the sample, a HEARTBEAT that says it is gone,
\* or a GAP, for every number that reader r, whose proxy is p, has requested.
NackResponse(h, r, p) ==
  LET requested == RequestedChanges(p)
      Answer(n) == IF Key(n) \in h.changes THEN Data(n) ELSE Heartbeat(n + 1, SeqNumMax(h))
      One(n)    == {r}
  IN  Each({n \in requested : p[n].is_relevant}, Answer, One)
        \o Each({n \in requested : ~p[n].is_relevant}, Gap, One)

\* handle_acknack.  With a nonzero delay the Nack timer it asks for is dropped
\* by the message receiver and the state stays MustRepair.
HandleAckNack(r) ==
  LET sn   == Head(acks[r]).reader_sn_state
      base == sn.bitmap_base
      p    == RequestedChangesSet(AckedChangesSet(rp[r], base - 1), SetOf(sn))
      nack == an_state = "Waiting" /\ RequestedChanges(p) # {}
      now  == nack /\ NackResponseDelay = 0
      q    == [rp EXCEPT ![r] = IF now THEN WithStatus(p, RequestedChanges(p), "Underway") ELSE p]
      done  == AckedChanges(hc, q, matched, base - 1)
  IN  /\ acks[r] # << >>
      /\ r \in matched
      /\ IsValidSet(sn)
      /\ acks' = [acks EXCEPT ![r] = Tail(@)]
      /\ an_state' = IF nack /\ ~now THEN "MustRepair" ELSE an_state
      /\ net' = [net EXCEPT ![Host[r]] = IF now THEN @ \o NackResponse(hc, r, p) ELSE @]
      /\ hc' = RemoveChanges(hc, done, FALSE)
      /\ rp' = ForgetStates(q, matched, {k.seq_num : k \in done})
      /\ UNCHANGED <<last, matched, due, losses>>
      /\ UNCHANGED readerVars

\* handle_acknack_submsg refuses an ACKNACK whose set spans too many numbers, and
\* handle_acknack one of a reader it has not matched.
RefuseAckNack(r) ==
  /\ acks[r] # << >>
  /\ r \notin matched \/ ~IsValidSet(Head(acks[r]).reader_sn_state)
  /\ acks' = [acks EXCEPT ![r] = Tail(@)]
  /\ UNCHANGED <<net, losses>>
  /\ UNCHANGED writerVars
  /\ UNCHANGED readerVars

-----------------------------------------------------------------------------
(* The readers: what a handler makes of the reader d with QoS q. *)

\* Reader::add_change of a reliable reader.
AddReliable(d, q, n) ==
  LET h     == AddChange(d.cache, Key(n), q)
      wait  == d.state.wait \ {n}
      flush == \/ d.state.kind = "Waiting" /\ wait = {}
               \/ d.state.kind = "Expect" /\ d.state.next = n
  IN  [d EXCEPT !.cache = IF flush THEN Flush(h) ELSE h,
                !.state = CASE d.state.kind = "Waiting" -> Waiting(wait)
                            [] d.state.kind = "Expect" /\ flush -> Expect(n + 1)
                            [] OTHER -> d.state,
                !.wp    = ReceivedChangeSet(d.wp, n),
                !.got   = IF Key(n) \in h.changes THEN @ \cup {n} ELSE @]

\* Mutant of IsExpected: the number is compared with nothing.
IsExpectedAlways(w, n) == n > 0

\* The test of a best-effort reader: nothing newer has been received.
IsExpected(w, n) == n >= AvailableChangesMax(w) + 1

\* Reader::add_change of a best-effort reader, which first forgets what has been
\* taken.
AddBestEffort(d, q, n) ==
  LET w == RemoveWriterCacheState(d.wp, {k.seq_num : k \in d.cache.taken_key})
      h == GetTaken(d.cache)
      v == ReceivedChangeSet(w, n)
  IN  IF IsExpected(w, n)
      THEN [d EXCEPT !.cache = Flush(AddChange(h, Key(n), q)),
                     !.wp    = IF n > AvailableChangesMax(w) + 1 THEN LostChangesUpdate(v, n) ELSE v,
                     !.got   = @ \cup {n}]
      ELSE [d EXCEPT !.cache = h, !.wp = w]

\* Reader::handle_gap.
HandleGap(d, n) ==
  [d EXCEPT !.wp    = IrrelevantChangeSet(@, {n}),
            !.state = IF @.kind = "Waiting" THEN Waiting(@.wait \ {n}) ELSE @]

\* Reader::handle_heartbeat and, without delay, handle_hb_response_timeout.
\* With a nonzero delay the Heartbeat timer it asks for is dropped by the
\* message receiver.
HandleHeartbeat(d, hb) ==
  LET old     == {k.seq_num : k \in TakenLessThan(d.cache, WriterGuid, hb.first)}
      w       == LostChangesUpdate(
                   MissingChangesUpdate(RemoveWriterCacheState(d.wp, old), hb.first, hb.last),
                   hb.first)
      h       == GetTakenLessThan(d.cache, WriterGuid, hb.first)
      missing == MissingChanges(w)
  IN  IF HbResponseDelay = 0
      THEN [d EXCEPT !.wp    = w,
                     !.cache = IF missing = {} THEN Flush(h) ELSE h,
                     !.state = IF missing = {} THEN Expect(AckNackBase(w)) ELSE Waiting(missing),
                     !.acked = Max({@, AckNackBase(w) - 1})]
      ELSE [d EXCEPT !.wp = w, !.cache = h]

Handle(d, q, m) ==
  CASE m.type = "DATA" /\ q.is_reliable  -> AddReliable(d, q, m.n)
    [] m.type = "DATA" /\ ~q.is_reliable -> AddBestEffort(d, q, m.n)
    [] m.type = "GAP"                    -> HandleGap(d, m.n)
    [] m.type = "HEARTBEAT"              -> HandleHeartbeat(d, m)

\* The message receiver of h hands m to the readers it is for that contain the
\* writer; an invalid HEARTBEAT leaves nothing behind.
Receive(h, m) ==
  LET for == IF m.body.type = "HEARTBEAT" /\ ~IsValid(m.body) THEN {}
             ELSE Local(h) \cap m.to \cap known
  IN  /\ rd' = [r \in Readers |-> IF r \in for THEN Handle(rd[r], ReaderQos[r], m.body) ELSE rd[r]]
      /\ acks' = [r \in Readers |->
                    IF r \in for /\ m.body.type = "HEARTBEAT" /\ HbResponseDelay = 0
                    THEN Append(acks[r], AckNack(AckNackBase(rd'[r].wp), MissingChanges(rd'[r].wp)))
                    ELSE acks[r]]

\* The i-th datagram that waits at h is the next one of its socket.
IsNext(h, i) == /\ \A j \in 1..(i - 1) : net[h][j].socket # net[h][i].socket
                /\ i = 1 \/ h \in ApartHosts

WithoutDatagram(h, i) == [net EXCEPT ![h] = SubSeq(@, 1, i - 1) \o SubSeq(@, i + 1, Len(@))]

\* The event loop of h reads a datagram.
ReceivePacket(h) == \E i \in DOMAIN net[h] : /\ IsNext(h, i)
                                             /\ Receive(h, net[h][i])
                                             /\ net' = WithoutDatagram(h, i)
                                             /\ UNCHANGED <<losses, known>>
                                             /\ UNCHANGED writerVars

\* DataReader::take.
Take(r) ==
  /\ ReadyKeys(rd[r].cache) # {}
  /\ rd' = [rd EXCEPT ![r].cache = TakeReady(@),
                      ![r].taken = @ \cup {k.seq_num : k \in ReadyKeys(rd[r].cache)}]
  /\ UNCHANGED known
  /\ UNCHANGED writerVars
  /\ UNCHANGED netVars

-----------------------------------------------------------------------------
(* The network loses a datagram. *)

Lose == /\ losses < MaxLosses
        /\ losses' = losses + 1
        /\ \/ /\ \E h \in Hosts : \E i \in DOMAIN net[h] : IsNext(h, i) /\ net' = WithoutDatagram(h, i)
              /\ UNCHANGED acks
           \/ /\ \E r \in Readers : acks[r] # << >> /\ acks' = [acks EXCEPT ![r] = Tail(@)]
              /\ UNCHANGED net
        /\ UNCHANGED writerVars
        /\ UNCHANGED readerVars

-----------------------------------------------------------------------------

Next == \/ \E r \in Readers, d \in {"Volatile", "TransientLocal"} : MatchReader(r, d)
        \/ \E r \in Readers : MatchWriter(r)
        \/ Write
        \/ HandleWriteData
        \/ \E liveliness \in BOOLEAN : SendHeartBeat(liveliness)
        \/ \E r \in Readers : HandleAckNack(r) \/ RefuseAckNack(r)
        \/ \E h \in Hosts : ReceivePacket(h)
        \/ \E r \in Readers : Take(r)
        \/ Lose

Spec == Init /\ [][Next]_vars

\* The event loops run, the heartbeat timer is periodic and the application
\* polls its DataReader.  Losses are not fair, and finite.  SF for the timer:
\* the bound MaxHeartbeats disables it while answers are under way.
FairSpec == /\ Spec
            /\ WF_vars(HandleWriteData)
            /\ SF_vars(SendHeartBeat(FALSE))
            /\ \A r \in Readers : /\ WF_vars(HandleAckNack(r) \/ RefuseAckNack(r))
                                  /\ WF_vars(MatchWriter(r))
                                  /\ WF_vars(Take(r))
            /\ \A h \in Hosts : WF_vars(ReceivePacket(h))

-----------------------------------------------------------------------------
(* Properties *)

\* An ACKNACK on its way: its set is in the form from_vec gives it.
IsAckNack(m) == /\ m = AckNack(m.reader_sn_state.bitmap_base, SetOf(m.reader_sn_state))
                /\ m.reader_sn_state.bitmap_base \in Nat \ {0}
                /\ SetOf(m.reader_sn_state) \subseteq SeqNum

Message == [socket : {"unicast", "multicast"},
            to     : SUBSET Readers,
            body   : [type : {"DATA", "GAP"}, n : SeqNum]
                     \cup [type : {"HEARTBEAT"}, first : Nat, last : Nat]]

IsReader(d) == /\ d \in [cache : {d.cache},
                         wp    : WriterProxy,
                         state : [kind : {"Initial", "Waiting", "Expect"},
                                  wait : SUBSET SeqNum, next : Nat],
                         got   : SUBSET SeqNum,
                         acked : Nat,
                         taken : SUBSET SeqNum]
               /\ IsCache(d.cache)

\* The variables have their types.
TypeOK == /\ IsCache(hc)
          /\ last \in SeqNum \cup {0}
          /\ matched \subseteq Readers
          /\ rp \in [Readers -> ReaderProxy]
          /\ an_state \in {"Waiting", "MustRepair"}
          /\ DOMAIN rd = Readers /\ \A r \in Readers : IsReader(rd[r])
          /\ known \subseteq Readers
          /\ due \in [Readers -> SUBSET SeqNum]
          /\ net \in [Hosts -> Seq(Message)]
          /\ DOMAIN acks = Readers
          /\ \A r \in Readers : \A i \in DOMAIN acks[r] : IsAckNack(acks[r][i])
          /\ losses \in 0..MaxLosses

Reliable == {r \in Readers : ReaderQos[r].is_reliable}

\* The reliable readers for which HEARTBEATs and DATA keep their order.
Ordered == {r \in Reliable : Host[r] \notin ApartHosts}

\* The writer counts a sample as acknowledged by a reader that was to get it
\* only if that reader has had it in its cache.
AckedIsReceived ==
  \A r \in matched \cap Ordered : \A n \in due[r] : IsAcked(rp[r], n) => n \in rd[r].got

\* The same for every reliable reader, whichever socket its HEARTBEATs come
\* through.
AcknowledgesReceived ==
  \A r \in matched \cap Reliable : \A n \in due[r] : IsAcked(rp[r], n) => n \in rd[r].got

\* A sample that a reader was to get and has not got can still be repaired: the
\* writer holds it, whatever other readers acknowledge or request.
StillRepairable ==
  \A r \in matched \cap Ordered : \A n \in due[r] \ rd[r].got : Key(n) \in hc.changes

RequestsOnlyUnacked(r) ==
  acks'[r] # acks[r] /\ Len(acks'[r]) > Len(acks[r]) =>
    \A n \in SetOf(acks'[r][Len(acks'[r])].reader_sn_state) : n > rd[r].acked

\* Once acknowledged, always acknowledged: a reader never requests a number that
\* an earlier ACKNACK of it has acknowledged.
OnceAcked == [][\A r \in Ordered : RequestsOnlyUnacked(r)]_vars

\* What a best-effort reader holds for its application came in ascending order:
\* until the application takes it, nothing older and no duplicate follows,
\* whatever is repaired, announced or delayed.
NewestLast ==
  \A r \in Readers \ Reliable : LET s == rd[r].cache.ts2key
                                IN  \A i, j \in DOMAIN s : i < j => s[i].seq_num < s[j].seq_num

\* Every sample is acknowledged in the end, so that the writer can drop it.
Released ==
  \A r \in Reliable, n \in SeqNum : n \in due[r] ~> IsAcked(rp[r], n)

\* Every sample a matched reliable reader is to get reaches its application.
Delivered ==
  \A r \in Reliable, n \in SeqNum :
    n \in due[r] ~> n \in rd[r].taken \/ n \notin due[r]
=============================================================================
