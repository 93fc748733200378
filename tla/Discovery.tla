----------------------------- MODULE Discovery ------------------------------
(***************************************************************************)
(* The Simple Discovery Protocol between participants: SPDP announcements  *)
(* and leases, SEDP announcements over the reliable built-in endpoints,    *)
(* and the matching of user-defined endpoints (discovery.rs,               *)
(* discovery_db.rs, the built-in handlers of message_receiver.rs, the      *)
(* registration of endpoints in event_loop.rs and the matching of          *)
(* reader.rs and writer.rs).                                               *)
(*                                                                         *)
(* Two threads of a participant share its discovery database: the event    *)
(* loop reads and writes it in the middle of a handler, the discovery      *)
(* thread removes stale entries.  A handler that uses the database is two  *)
(* steps here: busy[p] is the message between them.  Participants only     *)
(* discover others; the loopback of their own announcements is left out.   *)
(***************************************************************************)
EXTENDS Proxies, DiscoveryData

CONSTANTS
  Participants,
  Endpoints,         \* user-defined endpoints, numbered in the order of EntityId
  Owner,             \* [Endpoints -> Participants]
  Role,              \* [Endpoints -> {"Writer", "Reader"}]
  Topic,             \* [Endpoints -> topic name and type]
  TopicKind,         \* [Endpoints -> {"WithKey", "NoKey"}]
  Settings,          \* Settings[e]: what the application set on the Topic, the Publisher
                     \* or Subscriber and the endpoint, and whether it passed Default
  Mortal,            \* the participants whose process may end
  LateEndpoints,     \* may an endpoint be created once a participant is known?
  MaxUnderWay,       \* periodic messages wait while so many datagrams are
                     \* under way or being handled
  MaxFaults          \* bounds the datagrams lost and the leases for which a live
                     \* participant is not heard of

Roles == {"Writer", "Reader"}

ASSUME EndpointAssumption ==
  /\ Endpoints \subseteq Nat
  /\ Owner \in [Endpoints -> Participants]
  /\ Role \in [Endpoints -> Roles]
  /\ DOMAIN Topic = Endpoints
  /\ TopicKind \in [Endpoints -> {"WithKey", "NoKey"}]
  /\ DOMAIN Settings = Endpoints
  /\ \A e \in Endpoints : DOMAIN Settings[e].topic \subseteq TopicPolicyNames

ASSUME DiscoveryBoundAssumption ==
  /\ Mortal \subseteq Participants
  /\ LateEndpoints \in BOOLEAN
  /\ MaxUnderWay \in Nat /\ MaxFaults \in Nat

\* The QoS create_datawriter or create_datareader gave e.
EndpointQos ==
  [e \in Endpoints |->
     Values(IF Settings[e].use_default
            THEN DefaultQos(Role[e], Settings[e].default)
            ELSE CombinedQos(Role[e], Settings[e].topic, Settings[e].default, Settings[e].own))]

\* Does the local endpoint l accept the QoS announced for e?
Accepts ==
  [m \in Endpoints \X Endpoints |->
     IF Role[m[1]] = "Writer" THEN WriterAccepts(EndpointQos[m[1]], EndpointQos[m[2]])
                              ELSE ReaderAccepts(EndpointQos[m[1]], EndpointQos[m[2]])]

Idle == [type |-> "Idle"]

VARIABLES
  alive,       \* the participants whose process runs
  registered,  \* the endpoints registered with their event loop
  notify,      \* notify[p][k]: registered, on the way to p's discovery thread
  log,         \* log[p][k]: the cache of p's SEDP announcer of the endpoints of role k
  sent,        \* sent[p][k]: how much of it WriteData commands have processed
  db,          \* db[p]: the participants in p's discovery_db
  stale,       \* stale[p]: those of them not heard of for a lease
  lost,        \* lost[p]: removed from db[p], DeleteParticipant not yet sent
  updates,     \* updates[p]: the DeleteParticipants in the discdb_update channel
  busy,        \* busy[p]: the message p's event loop is in the middle of, or Idle
  peers,       \* peers[p]: the participants p's built-in endpoints are matched with
  rp, wp,      \* rp[p][q][k], wp[p][q][k]: the proxies of p's SEDP endpoints for q
  matched,     \* matched[p]: pairs <<local endpoint, remote endpoint>>
  net,         \* the datagrams under way
  expired,     \* history: <<p, q>> once the lease of q ran out at p
  faults

endpointVars == <<registered, notify, log, sent>>
dbVars       == <<db, stale, lost, updates, expired>>
proxyVars    == <<peers, rp, wp, matched>>
vars == <<alive, endpointVars, dbVars, proxyVars, busy, net, faults>>

-----------------------------------------------------------------------------
(* Datagrams. *)

Spdp(p, q)          == [type |-> "SPDP", from |-> p, to |-> q]
Sedp(p, q, k, n, e) ==
  [type |-> "SEDP", from |-> p, to |-> q, role |-> k, n |-> n, endpoint |-> e]
\* Mutant of Heartbeat: last_sn one past the cache.
HeartbeatPastLast(p, q, k, last) ==
  [type |-> "HEARTBEAT", from |-> p, to |-> q, role |-> k, last |-> last + 1]

Heartbeat(p, q, k, last) ==
  [type |-> "HEARTBEAT", from |-> p, to |-> q, role |-> k, last |-> last]
AckNack(p, q, k, base, set) ==
  [type |-> "ACKNACK", from |-> p, to |-> q, role |-> k, base |-> base, set |-> set]

\* Bound on the periodic messages.
Quiet == Cardinality(net) + Cardinality({p \in alive : busy[p] # Idle}) < MaxUnderWay

\* Nobody receives what is sent to a participant that is gone.
Arriving(S) == {m \in S : m.to \in alive}

Others(p) == Participants \ {p}

\* The announcements of p to q that the cache holds under the numbers in S.
Announcements(p, q, k, S) == {Sedp(p, q, k, n, log[p][k][n]) : n \in S \cap DOMAIN log[p][k]}

\* Mutant of NewSedpReaderProxy: a new peer gets only later announcements.
NewSedpReaderProxyEmpty(p, k) == EmptyReaderProxy

\* The built-in proxy p's SEDP announcer starts from: every cached announcement is
\* relevant for a built-in reader and Unsent.
NewSedpReaderProxy(p, k) ==
  UpdateCacheState(EmptyReaderProxy, DOMAIN log[p][k], LAMBDA n : TRUE, "Unsent")

-----------------------------------------------------------------------------
(* Endpoints: created by the application, registered by the event loop,     *)
(* announced by the discovery thread.                                       *)

Undisturbed(p) == db[p] = {} /\ \A q \in Participants : <<p, q>> \notin expired

\* register_writer and register_reader.  Remote endpoints that are known
\* already are not looked up.
RegisterEndpoint(e) ==
  LET p == Owner[e]
  IN  /\ p \in alive /\ busy[p] = Idle
      /\ e \notin registered
      /\ LateEndpoints \/ Undisturbed(p)
      /\ registered' = registered \cup {e}
      /\ notify' = [notify EXCEPT ![p][Role[e]] = Append(@, e)]
      /\ UNCHANGED <<alive, log, sent, busy, net, faults>>
      /\ UNCHANGED dbVars
      /\ UNCHANGED proxyVars

\* DISC_WRITER_ADD and DISC_READER_ADD: write_builtin_data.
AnnounceEndpoint(p, k) ==
  /\ p \in alive
  /\ notify[p][k] # << >>
  /\ log' = [log EXCEPT ![p][k] = Append(@, Head(notify[p][k]))]
  /\ notify' = [notify EXCEPT ![p][k] = Tail(@)]
  /\ UNCHANGED <<alive, registered, sent, busy, net, faults>>
  /\ UNCHANGED dbVars
  /\ UNCHANGED proxyVars

\* handle_write_data_cmd of an SEDP announcer: everything unsent is sent.
SendAnnouncement(p, k) ==
  LET new == {n \in DOMAIN log[p][k] : n > sent[p][k]}
      now(q) == UpdateCacheState(rp[p][q][k], new, LAMBDA n : TRUE, "Unsent")
  IN  /\ p \in alive /\ busy[p] = Idle
      /\ new # {}
      /\ sent' = [sent EXCEPT ![p][k] = Len(log[p][k])]
      /\ rp' = [rp EXCEPT ![p] = [q \in Participants |->
                  IF q \in peers[p]
                  THEN [@[q] EXCEPT ![k] = WithStatus(now(q), UnsentChanges(now(q)), "Underway")]
                  ELSE @[q]]]
      /\ net' = net \cup Arriving(UNION {Announcements(p, q, k, UnsentChanges(now(q))) :
                                         q \in peers[p]})
      /\ UNCHANGED <<alive, registered, notify, log, busy, peers, wp, matched, faults>>
      /\ UNCHANGED dbVars

\* The heartbeat timer of an SEDP announcer, whose cache keeps everything.
SendSedpHeartbeat(p, k) ==
  /\ p \in alive /\ busy[p] = Idle /\ Quiet
  /\ \E q \in peers[p], n \in DOMAIN log[p][k] : ~IsAcked(rp[p][q][k], n)
  /\ net' = net \cup Arriving({Heartbeat(p, q, k, Len(log[p][k])) : q \in peers[p]})
  /\ UNCHANGED <<alive, busy, faults>>
  /\ UNCHANGED endpointVars
  /\ UNCHANGED dbVars
  /\ UNCHANGED proxyVars

-----------------------------------------------------------------------------
(* SPDP *)

\* SPDP_SEND_TIMER: the announcement is sent to the multicast group.
SendSpdp(p) ==
  /\ p \in alive /\ Quiet
  /\ net' = net \cup Arriving({Spdp(p, q) : q \in Others(p)})
  /\ UNCHANGED <<alive, busy, faults>>
  /\ UNCHANGED endpointVars
  /\ UNCHANGED dbVars
  /\ UNCHANGED proxyVars

\* handle_spdp_data up to write_participant and the answer to an unknown peer.
ReceiveSpdp(p, q) ==
  /\ Spdp(q, p) \in net
  /\ p \in alive /\ busy[p] = Idle
  /\ db' = [db EXCEPT ![p] = @ \cup {q}]
  /\ stale' = [stale EXCEPT ![p] = @ \ {q}]
  /\ net' = (net \ {Spdp(q, p)}) \cup Arriving(IF q \in db[p] THEN {} ELSE {Spdp(p, q)})
  /\ busy' = [busy EXCEPT ![p] = Spdp(q, p)]
  /\ UNCHANGED <<alive, lost, updates, expired, faults>>
  /\ UNCHANGED endpointVars
  /\ UNCHANGED proxyVars

\* handle_participant_discovery: the built-in endpoints of q are matched unless
\* they are already.
ParticipantDiscovery(p) ==
  LET q == busy[p].from
  IN  /\ p \in alive /\ busy[p].type = "SPDP"
      /\ busy' = [busy EXCEPT ![p] = Idle]
      /\ peers' = [peers EXCEPT ![p] = @ \cup {q}]
      /\ IF q \in peers[p]
         THEN UNCHANGED <<rp, wp>>
         ELSE /\ rp' = [rp EXCEPT ![p][q] = [k \in Roles |-> NewSedpReaderProxy(p, k)]]
              /\ wp' = [wp EXCEPT ![p][q] = [k \in Roles |-> EmptyWriterProxy]]
      /\ UNCHANGED <<alive, matched, net, faults>>
      /\ UNCHANGED endpointVars
      /\ UNCHANGED dbVars

-----------------------------------------------------------------------------
(* SEDP *)

\* Mutant of KnownParticipant: endpoints of any participant are accepted.
AnyParticipant(p, q) == TRUE

\* read_participant_data finds q.
KnownParticipant(p, q) == q \in db[p]

\* handle_sedp_w_data and handle_sedp_r_data up to read_participant_data: an
\* announcement from an unknown participant is dropped and stays missing.
ReceiveSedp(p, q, k) == \E m \in net :
  /\ m.type = "SEDP" /\ m.from = q /\ m.to = p /\ m.role = k
  /\ p \in alive /\ busy[p] = Idle
  /\ net' = net \ {m}
  /\ busy' = [busy EXCEPT ![p] = IF KnownParticipant(p, q) THEN m ELSE Idle]
  /\ UNCHANGED <<alive, faults>>
  /\ UNCHANGED endpointVars
  /\ UNCHANGED dbVars
  /\ UNCHANGED proxyVars

SameTopic(l, e) == Role[l] # Role[e] /\ Topic[l] = Topic[e]

\* The local endpoints p compares with the remote endpoint e.
Candidates(p, e) == {l \in registered : Owner[l] = p /\ SameTopic(l, e)}

\* The loop over them ends at the first whose topic kind differs.
Mismatch(p, e) == {l \in Candidates(p, e) : TopicKind[l] # TopicKind[e]}
Visited(p, e)  == {l \in Candidates(p, e) : \A m \in Mismatch(p, e) : l < m}

\* Mutant of Record: the announcement is received even if matching stopped.
RecordAlways(p, q, k, n, e) == [wp EXCEPT ![p][q][k] = ReceivedChangeSet(@, n)]

\* The detector's add_change, which a topic kind mismatch returns before and
\* which ignores a writer that is not matched.
Record(p, q, k, n, e) ==
  IF Mismatch(p, e) = {} /\ q \in peers[p]
  THEN [wp EXCEPT ![p][q][k] = ReceivedChangeSet(@, n)] ELSE wp

\* The rest of the two handlers: match, then add_change.
MatchEndpoint(p) ==
  LET m == busy[p]
      e == m.endpoint
  IN  /\ p \in alive /\ m.type = "SEDP"
      /\ busy' = [busy EXCEPT ![p] = Idle]
      /\ matched' = [matched EXCEPT ![p] =
                       @ \cup {<<l, e>> : l \in {v \in Visited(p, e) : Accepts[<<v, e>>]}}]
      /\ wp' = Record(p, m.from, m.role, m.n, e)
      /\ UNCHANGED <<alive, peers, rp, net, faults>>
      /\ UNCHANGED endpointVars
      /\ UNCHANGED dbVars

\* handle_heartbeat of the detector and its answer.
ReceiveHeartbeat(p, q, k) == \E m \in net :
  LET w == MissingChangesUpdate(wp[p][q][k], 1, m.last)
  IN  /\ m.type = "HEARTBEAT" /\ m.from = q /\ m.to = p /\ m.role = k
      /\ p \in alive /\ busy[p] = Idle
      /\ IF q \in peers[p]
         THEN /\ wp' = [wp EXCEPT ![p][q][k] = w]
              /\ net' = (net \ {m}) \cup
                          Arriving({AckNack(p, q, k, AckNackBase(w), MissingChanges(w))})
         ELSE net' = net \ {m} /\ UNCHANGED wp
      /\ UNCHANGED <<alive, busy, peers, rp, matched, faults>>
      /\ UNCHANGED endpointVars
      /\ UNCHANGED dbVars

\* handle_acknack of the announcer and its answer.
ReceiveAckNack(p, q, k) == \E m \in net :
  LET r == RequestedChangesSet(AckedChangesSet(rp[p][q][k], m.base - 1), m.set)
      S == RequestedChanges(r)
  IN  /\ m.type = "ACKNACK" /\ m.from = q /\ m.to = p /\ m.role = k
      /\ p \in alive /\ busy[p] = Idle
      /\ IF q \in peers[p]
         THEN /\ rp' = [rp EXCEPT ![p][q][k] = WithStatus(r, S, "Underway")]
              /\ net' = (net \ {m}) \cup Arriving(Announcements(p, q, k, S))
         ELSE net' = net \ {m} /\ UNCHANGED rp
      /\ UNCHANGED <<alive, busy, peers, wp, matched, faults>>
      /\ UNCHANGED endpointVars
      /\ UNCHANGED dbVars

-----------------------------------------------------------------------------
(* Leases *)

\* Nothing was heard of q for its lease: it is gone, or its announcements were
\* lost or late.
Silence(p, q) ==
  /\ p \in alive
  /\ q \in db[p] \ stale[p]
  /\ q \in alive => faults < MaxFaults
  /\ faults' = IF q \in alive THEN faults + 1 ELSE faults
  /\ stale' = [stale EXCEPT ![p] = @ \cup {q}]
  /\ UNCHANGED <<alive, db, lost, updates, expired, busy, net>>
  /\ UNCHANGED endpointVars
  /\ UNCHANGED proxyVars

\* PARTICIPANT_LIVELINESS_TIMER: check_participant_liveliness ...
CheckParticipantLiveliness(p) ==
  /\ p \in alive
  /\ lost[p] = {} /\ stale[p] # {}
  /\ db' = [db EXCEPT ![p] = @ \ stale[p]]
  /\ lost' = [lost EXCEPT ![p] = stale[p]]
  /\ stale' = [stale EXCEPT ![p] = {}]
  /\ expired' = expired \cup {<<p, q>> : q \in stale[p]}
  /\ UNCHANGED <<alive, updates, busy, net, faults>>
  /\ UNCHANGED endpointVars
  /\ UNCHANGED proxyVars

\* ... and the DeleteParticipant it sends for each of them.
SendDeleteParticipant(p, q) ==
  /\ p \in alive
  /\ q \in lost[p]
  /\ lost' = [lost EXCEPT ![p] = @ \ {q}]
  /\ updates' = [updates EXCEPT ![p] = @ \cup {q}]
  /\ UNCHANGED <<alive, db, stale, expired, busy, net, faults>>
  /\ UNCHANGED endpointVars
  /\ UNCHANGED proxyVars

\* Mutant of Kept: only the reader proxies of Writers are deleted.
KeptWriterProxies(p, S) == {m \in matched[p] : Role[m[1]] = "Writer" => Owner[m[2]] \notin S}

\* What delete_writer_proxy and delete_reader_proxy leave.
Kept(p, S) == {m \in matched[p] : Owner[m[2]] \notin S}

\* handle_participant_discovery and remove_discoverd_participant of the event
\* loop: the whole channel is drained.
RemoveParticipants(p) ==
  LET S == updates[p]
  IN  /\ p \in alive /\ busy[p] = Idle
      /\ S # {}
      /\ updates' = [updates EXCEPT ![p] = {}]
      /\ peers' = [peers EXCEPT ![p] = @ \ S]
      /\ rp' = [rp EXCEPT ![p] = [q \in Participants |->
                  IF q \in S THEN [k \in Roles |-> EmptyReaderProxy] ELSE @[q]]]
      /\ wp' = [wp EXCEPT ![p] = [q \in Participants |->
                  IF q \in S THEN [k \in Roles |-> EmptyWriterProxy] ELSE @[q]]]
      /\ matched' = [matched EXCEPT ![p] = Kept(p, S)]
      /\ UNCHANGED <<alive, db, stale, lost, expired, busy, net, faults>>
      /\ UNCHANGED endpointVars

-----------------------------------------------------------------------------
(* Failures *)

\* The process ends; a restarted one is another participant.
Crash(p) ==
  /\ p \in alive \cap Mortal
  /\ alive' = alive \ {p}
  /\ net' = {m \in net : m.to # p}
  /\ UNCHANGED <<busy, faults>>
  /\ UNCHANGED endpointVars
  /\ UNCHANGED dbVars
  /\ UNCHANGED proxyVars

Lose(m) ==
  /\ faults < MaxFaults
  /\ faults' = faults + 1
  /\ net' = net \ {m}
  /\ UNCHANGED <<alive, busy>>
  /\ UNCHANGED endpointVars
  /\ UNCHANGED dbVars
  /\ UNCHANGED proxyVars

-----------------------------------------------------------------------------

Init ==
  /\ alive = Participants
  /\ registered = {}
  /\ notify = [p \in Participants |-> [k \in Roles |-> << >>]]
  /\ log    = [p \in Participants |-> [k \in Roles |-> << >>]]
  /\ sent   = [p \in Participants |-> [k \in Roles |-> 0]]
  /\ db      = [p \in Participants |-> {}]
  /\ stale   = [p \in Participants |-> {}]
  /\ lost    = [p \in Participants |-> {}]
  /\ updates = [p \in Participants |-> {}]
  /\ busy    = [p \in Participants |-> Idle]
  /\ peers   = [p \in Participants |-> {}]
  /\ rp = [p \in Participants |-> [q \in Participants |-> [k \in Roles |-> EmptyReaderProxy]]]
  /\ wp = [p \in Participants |-> [q \in Participants |-> [k \in Roles |-> EmptyWriterProxy]]]
  /\ matched = [p \in Participants |-> {}]
  /\ net = {} /\ expired = {} /\ faults = 0

\* What p's event loop does with a message and with the discdb_update channel.
HandleMessage(p) ==
  \/ ParticipantDiscovery(p)
  \/ MatchEndpoint(p)
  \/ RemoveParticipants(p)
  \/ \E q \in Participants :
       \/ ReceiveSpdp(p, q)
       \/ \E k \in Roles : \/ ReceiveSedp(p, q, k)
                           \/ ReceiveHeartbeat(p, q, k)
                           \/ ReceiveAckNack(p, q, k)

Announce(p, k) == SendAnnouncement(p, k) \/ SendSedpHeartbeat(p, k)

DiscoveryThread(p) == \/ \E k \in Roles : AnnounceEndpoint(p, k)
                      \/ CheckParticipantLiveliness(p)
                      \/ \E q \in Participants : SendDeleteParticipant(p, q)

Next == \/ \E e \in Endpoints : RegisterEndpoint(e)
        \/ \E p \in Participants : \/ HandleMessage(p)
                                   \/ \E k \in Roles : Announce(p, k)
                                   \/ DiscoveryThread(p)
                                   \/ SendSpdp(p)
                                   \/ \E q \in Participants : Silence(p, q)
                                   \/ Crash(p)
        \/ \E m \in net : Lose(m)

Spec == Init /\ [][Next]_vars

\* Both threads run and the timers are periodic: strong fairness, for the bound
\* MaxUnderWay and the other work of the event loop disable them now and then.
\* A participant that is gone stays silent.  Nothing else that Silence, Crash and
\* Lose allow has to happen.
FairSpec ==
  /\ Spec
  /\ \A p \in Participants : /\ WF_vars(HandleMessage(p))
                             /\ WF_vars(DiscoveryThread(p))
                             /\ SF_vars(SendSpdp(p))
  /\ \A a \in {<<Owner[e], Role[e]>> : e \in Endpoints} : SF_vars(Announce(a[1], a[2]))
  /\ \A q \in Mortal : \A p \in Others(q) : WF_vars(q \notin alive /\ Silence(p, q))

-----------------------------------------------------------------------------
(* Properties *)

\* The fields keep their types; in particular a proxy never has an entry for an
\* announcement that the announcer has not written.
TypeOK ==
  /\ alive \subseteq Participants
  /\ registered \subseteq Endpoints
  /\ \A p \in Participants :
       /\ stale[p] \subseteq db[p] /\ db[p] \subseteq Others(p)
       /\ lost[p] \cup updates[p] \cup peers[p] \subseteq Others(p)
       /\ matched[p] \subseteq registered \X registered
       /\ \A q \in Participants, k \in Roles :
            /\ rp[p][q][k] \in ReaderProxy
            /\ Entries(rp[p][q][k]) \subseteq DOMAIN log[p][k]
            /\ wp[p][q][k] \in WriterProxy
            /\ {n \in SeqNum : wp[p][q][k][n] # "None"} \subseteq DOMAIN log[q][k]

HasProxies(p, q) == q \in peers[p] \/ \E m \in matched[p] : Owner[m[2]] = q

\* Built-in or user-defined proxies of a participant exist only while it is in
\* the discovery database or its deletion is on the way to the event loop
\* (handle_sedp_w_data, handle_spdp_data against check_participant_liveliness):
\* otherwise nothing would ever delete them.
NoZombieProxies ==
  \A p, q \in Participants : HasProxies(p, q) => q \in db[p] \cup lost[p] \cup updates[p]

\* What an SEDP announcer has been acknowledged was acted on: every compatible
\* local endpoint of the peer is matched with the announced one, unless the
\* announcing participant has expired there (handle_sedp_w_data, handle_sedp_r_data).
\* Endpoints of the topic but of another topic kind count as compatible too: they
\* never match, and an announcement that meets one stays unacknowledged.
AckedIsMatched ==
  \A p, q \in Participants, k \in Roles : \A n \in DOMAIN log[p][k] :
    LET e == log[p][k][n]
    IN  rp[p][q][k][n].status = "Acknowledged" /\ <<q, p>> \notin expired
          => \A l \in Candidates(q, e) : Accepts[<<l, e>>] => <<l, e>> \in matched[q]

\* The proxies of a participant that is gone are deleted for good
\* (check_participant_liveliness, remove_discoverd_participant).
Forgotten ==
  <>[](\A p \in alive : \A q \in Participants \ alive : ~HasProxies(p, q))

\* The pairs of a Writer and a Reader of different participants that the Writer's
\* offer obliges to match.
Promised ==
  {m \in Endpoints \X Endpoints :
     /\ Role[m[1]] = "Writer" /\ Role[m[2]] = "Reader" /\ Owner[m[1]] # Owner[m[2]]
     /\ SameTopic(m[1], m[2]) /\ TopicKind[m[1]] = TopicKind[m[2]]
     /\ Honours(EndpointQos[m[1]], EndpointQos[m[2]])}

\* A Writer and a Reader of two participants match on both sides if the Writer
\* offers what the Reader requests, unless a process ends or a lease runs out
\* (the whole of SPDP and SEDP, create_datawriter, create_datareader and
\* is_compatible).
Matched ==
  \A m \in Promised :
    LET p == Owner[m[1]]
        q == Owner[m[2]]
    IN  {m[1], m[2]} \subseteq registered
          ~> \/ <<m[1], m[2]>> \in matched[p] /\ <<m[2], m[1]>> \in matched[q]
             \/ ~({p, q} \subseteq alive)
             \/ {<<p, q>>, <<q, p>>} \cap expired # {}
=============================================================================
