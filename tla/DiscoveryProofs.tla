-------------------------- MODULE DiscoveryProofs ---------------------------
(***************************************************************************)
(* For any participants, endpoints, faults and interleavings of the two    *)
(* threads, the proxies of a participant can still be deleted and keep     *)
(* their types; for at most two endpoints of a role in a participant, none *)
(* of them created late, what is acknowledged has been acted on.           *)
(***************************************************************************)
EXTENDS Discovery, NaturalsInduction, WellFoundedInduction, TLAPS

EndpointsOf(p) == {e \in Endpoints : Owner[e] = p}

Shapes ==
  /\ \A f \in {db, stale, lost, updates, peers} : f \in [Participants -> SUBSET Participants]
  /\ matched \in [Participants -> SUBSET (Endpoints \X Endpoints)]
  /\ DOMAIN busy = Participants

\* An announcement is of an endpoint of its sender: the owner that matching
\* files a proxy under is the participant that read_participant_data looked up.
Owned ==
  /\ registered \subseteq Endpoints
  /\ notify \in [Participants -> [Roles -> Seq(Endpoints)]]
  /\ log \in [Participants -> [Roles -> Seq(Endpoints)]]
  /\ \A p \in Participants, k \in Roles :
       notify[p][k] \in Seq(EndpointsOf(p)) /\ log[p][k] \in Seq(EndpointsOf(p))

OwnedMessage(m) ==
  m.type = "SEDP" => m.endpoint \in Endpoints /\ m.from = Owner[m.endpoint]

OwnedMessages == /\ \A m \in net : OwnedMessage(m)
                 /\ \A p \in Participants : OwnedMessage(busy[p])

\* The participants whose proxies p still has a way to delete.
Deletable(p) == db[p] \cup lost[p] \cup updates[p]

StaleIsKnown == \A p \in Participants : stale[p] \subseteq db[p]

\* The event loop is in the middle of a message of such a participant.
BusyWithKnown ==
  \A p \in Participants :
    busy[p].type \in {"SPDP", "SEDP"} => busy[p].from \in Participants /\ busy[p].from \in Deletable(p)

PeersDeletable   == \A p \in Participants : peers[p] \subseteq Deletable(p)
MatchedDeletable == \A p \in Participants : \A m \in matched[p] : Owner[m[2]] \in Deletable(p)

IInv == /\ Shapes
        /\ Owned
        /\ OwnedMessages
        /\ StaleIsKnown
        /\ BusyWithKnown
        /\ PeersDeletable
        /\ MatchedDeletable

-----------------------------------------------------------------------------

LEMMA Initially == Init => IInv
BY DEF Init, IInv, Shapes, Owned, OwnedMessages, OwnedMessage, StaleIsKnown, BusyWithKnown,
       PeersDeletable, MatchedDeletable, Idle, Roles

\* What the actions that touch neither the database nor the proxies keep.
LEMMA Untouched ==
  ASSUME IInv, UNCHANGED dbVars, UNCHANGED <<peers, matched, busy>>, Owned', OwnedMessages'
  PROVE  IInv'
BY DEF IInv, dbVars, Shapes, StaleIsKnown, BusyWithKnown, PeersDeletable, MatchedDeletable,
       Deletable

LEMMA AnnouncementsOwned ==
  ASSUME Owned, NEW p \in Participants, NEW q, NEW k \in Roles, NEW S
  PROVE  \A m \in Announcements(p, q, k, S) : OwnedMessage(m)
<1> TAKE m \in Announcements(p, q, k, S)
<1>1. PICK n \in DOMAIN log[p][k] : m = Sedp(p, q, k, n, log[p][k][n])
  BY DEF Announcements
<1>2. log[p][k] \in Seq(EndpointsOf(p))
  BY DEF Owned
<1>3. log[p][k][n] \in EndpointsOf(p)
  BY <1>1, <1>2
<1> QED
  BY <1>1, <1>3 DEF Sedp, OwnedMessage, EndpointsOf

LEMMA RegisterEndpointStep ==
  ASSUME IInv, NEW e \in Endpoints, RegisterEndpoint(e)
  PROVE  IInv'
<1>1. Owner[e] \in Participants /\ Role[e] \in Roles
  BY EndpointAssumption
<1>2. Owned'
  <2>1. /\ notify' = [notify EXCEPT ![Owner[e]][Role[e]] = Append(@, e)] /\ log' = log
        /\ registered' = registered \cup {e}
    BY DEF RegisterEndpoint
  <2>2. e \in EndpointsOf(Owner[e])
    BY DEF EndpointsOf
  <2>3. notify' \in [Participants -> [Roles -> Seq(Endpoints)]]
    BY <1>1, <2>1 DEF IInv, Owned
  <2>4. ASSUME NEW p \in Participants, NEW k \in Roles
        PROVE  notify'[p][k] \in Seq(EndpointsOf(p))
    <3>1. notify[p][k] \in Seq(EndpointsOf(p))
      BY DEF IInv, Owned
    <3>2. notify'[p][k] = IF p = Owner[e] /\ k = Role[e] THEN Append(notify[p][k], e)
                                                       ELSE notify[p][k]
      BY <1>1, <2>1 DEF IInv, Owned
    <3> QED
      BY <2>2, <3>1, <3>2
  <2> QED
    BY <2>1, <2>3, <2>4 DEF IInv, Owned
<1>3. OwnedMessages'
  BY DEF RegisterEndpoint, IInv, OwnedMessages, OwnedMessage
<1> QED
  BY <1>2, <1>3, Untouched DEF RegisterEndpoint, proxyVars

LEMMA AnnounceEndpointStep ==
  ASSUME IInv, NEW p \in Participants, NEW k \in Roles, AnnounceEndpoint(p, k)
  PROVE  IInv'
<1>1. Owned'
  <2>1. /\ notify[p][k] \in Seq(Endpoints) /\ notify[p][k] # << >>
        /\ log' = [log EXCEPT ![p][k] = Append(@, Head(notify[p][k]))]
        /\ notify' = [notify EXCEPT ![p][k] = Tail(@)] /\ registered' = registered
    BY DEF AnnounceEndpoint, IInv, Owned
  <2>2. Head(notify[p][k]) \in EndpointsOf(p) /\ Tail(notify[p][k]) \in Seq(EndpointsOf(p))
    BY <2>1 DEF IInv, Owned
  <2>3. /\ notify' \in [Participants -> [Roles -> Seq(Endpoints)]]
        /\ log' \in [Participants -> [Roles -> Seq(Endpoints)]]
    BY <2>1, <2>2 DEF IInv, Owned, EndpointsOf
  <2>4. ASSUME NEW q \in Participants, NEW l \in Roles
        PROVE  notify'[q][l] \in Seq(EndpointsOf(q)) /\ log'[q][l] \in Seq(EndpointsOf(q))
    <3>1. notify[q][l] \in Seq(EndpointsOf(q)) /\ log[q][l] \in Seq(EndpointsOf(q))
      BY DEF IInv, Owned
    <3>2. /\ notify'[q][l] = IF q = p /\ l = k THEN Tail(notify[p][k]) ELSE notify[q][l]
          /\ log'[q][l] = IF q = p /\ l = k THEN Append(log[p][k], Head(notify[p][k]))
                                            ELSE log[q][l]
      BY <2>1 DEF IInv, Owned
    <3> QED
      BY <2>2, <3>1, <3>2
  <2> QED
    BY <2>1, <2>3, <2>4 DEF IInv, Owned
<1>2. OwnedMessages'
  BY DEF AnnounceEndpoint, IInv, OwnedMessages, OwnedMessage
<1> QED
  BY <1>1, <1>2, Untouched DEF AnnounceEndpoint, proxyVars

LEMMA SendStep ==
  ASSUME IInv, NEW p \in Participants,
         (\E k \in Roles : Announce(p, k)) \/ SendSpdp(p)
  PROVE  IInv'
<1>1. UNCHANGED dbVars /\ UNCHANGED <<peers, matched, busy, registered, notify, log>>
  BY DEF Announce, SendAnnouncement, SendSedpHeartbeat, SendSpdp, proxyVars, endpointVars
<1>2. ASSUME NEW m \in net' \ net
      PROVE  OwnedMessage(m)
  <2>1. CASE SendSpdp(p)
    BY <1>2, <2>1 DEF SendSpdp, Arriving, Spdp, OwnedMessage
  <2>2. ASSUME NEW k \in Roles, SendSedpHeartbeat(p, k)
        PROVE  OwnedMessage(m)
    BY <1>2, <2>2 DEF SendSedpHeartbeat, Arriving, Heartbeat, OwnedMessage
  <2>3. ASSUME NEW k \in Roles, SendAnnouncement(p, k)
        PROVE  OwnedMessage(m)
    <3>1. PICK q \in peers[p] : \E S : m \in Announcements(p, q, k, S)
      BY <1>2, <2>3 DEF SendAnnouncement, Arriving
    <3> QED
      BY <3>1, AnnouncementsOwned DEF IInv
  <2> QED
    BY <2>1, <2>2, <2>3 DEF Announce
<1>3. OwnedMessages'
  BY <1>1, <1>2 DEF IInv, OwnedMessages, OwnedMessage
<1>4. Owned'
  BY <1>1 DEF IInv, Owned
<1> QED
  BY <1>1, <1>3, <1>4, Untouched

LEMMA ReceiveReliableStep ==
  ASSUME IInv, NEW p \in Participants, NEW q \in Participants, NEW k \in Roles,
         ReceiveHeartbeat(p, q, k) \/ ReceiveAckNack(p, q, k)
  PROVE  IInv'
<1>1. UNCHANGED dbVars /\ UNCHANGED <<peers, matched, busy, registered, notify, log>>
  BY DEF ReceiveHeartbeat, ReceiveAckNack, endpointVars
<1>2. ASSUME NEW m \in net' \ net
      PROVE  OwnedMessage(m)
  <2>1. CASE ReceiveHeartbeat(p, q, k)
    <3>1. PICK base, set : m = AckNack(p, q, k, base, set)
      BY <1>2, <2>1 DEF ReceiveHeartbeat, Arriving
    <3> QED
      BY <3>1 DEF AckNack, OwnedMessage
  <2>2. CASE ReceiveAckNack(p, q, k)
    <3>1. PICK S : m \in Announcements(p, q, k, S)
      BY <1>2, <2>2 DEF ReceiveAckNack, Arriving
    <3> QED
      BY <3>1, AnnouncementsOwned DEF IInv
  <2> QED
    BY <2>1, <2>2
<1>3. OwnedMessages'
  BY <1>1, <1>2 DEF IInv, OwnedMessages, OwnedMessage
<1>4. Owned'
  BY <1>1 DEF IInv, Owned
<1> QED
  BY <1>1, <1>3, <1>4, Untouched

LEMMA FailureStep ==
  ASSUME IInv, (\E p \in Participants : Crash(p)) \/ (\E m \in net : Lose(m))
  PROVE  IInv'
<1>1. UNCHANGED dbVars /\ UNCHANGED <<peers, matched, busy, registered, notify, log>> /\ net' \subseteq net
  BY DEF Crash, Lose, endpointVars, proxyVars
<1>2. Owned' /\ OwnedMessages'
  BY <1>1 DEF IInv, Owned, OwnedMessages, OwnedMessage
<1> QED
  BY <1>1, <1>2, Untouched

-----------------------------------------------------------------------------
(* The steps of the two threads on the database and the proxies *)

LEMMA ReceiveSpdpStep ==
  ASSUME IInv, NEW p \in Participants, NEW q \in Participants, ReceiveSpdp(p, q)
  PROVE  IInv'
<1>1. /\ db' = [db EXCEPT ![p] = @ \cup {q}]
      /\ stale' = [stale EXCEPT ![p] = @ \ {q}]
      /\ busy' = [busy EXCEPT ![p] = Spdp(q, p)]
      /\ UNCHANGED <<lost, updates, peers, matched, registered, notify, log>>
      /\ net' \subseteq net \cup {Spdp(p, q)}
  BY DEF ReceiveSpdp, Arriving, endpointVars, proxyVars
<1>2. Shapes'
  BY <1>1 DEF IInv, Shapes
<1>3. Owned'
  BY <1>1 DEF IInv, Owned
<1>4. OwnedMessages'
  BY <1>1 DEF IInv, Shapes, OwnedMessages, OwnedMessage, Spdp
<1>5. \A r \in Participants : Deletable(r) \subseteq Deletable(r)'
  BY <1>1 DEF IInv, Shapes, Deletable
<1>6. StaleIsKnown'
  BY <1>1 DEF IInv, Shapes, StaleIsKnown
<1>7. BusyWithKnown'
  BY <1>1, <1>5 DEF IInv, Shapes, BusyWithKnown, Spdp, Deletable
<1>8. PeersDeletable' /\ MatchedDeletable'
  BY <1>1, <1>5 DEF IInv, PeersDeletable, MatchedDeletable
<1> QED
  BY <1>2, <1>3, <1>4, <1>6, <1>7, <1>8 DEF IInv

LEMMA ParticipantDiscoveryStep ==
  ASSUME IInv, NEW p \in Participants, ParticipantDiscovery(p)
  PROVE  IInv'
<1>1. /\ busy[p].type = "SPDP"
      /\ busy' = [busy EXCEPT ![p] = Idle]
      /\ peers' = [peers EXCEPT ![p] = @ \cup {busy[p].from}]
      /\ UNCHANGED <<db, stale, lost, updates, matched, registered, notify, log, net>>
  BY DEF ParticipantDiscovery, endpointVars, dbVars
<1>2. busy[p].from \in Participants /\ busy[p].from \in Deletable(p)
  BY <1>1 DEF IInv, BusyWithKnown
<1>3. \A r \in Participants : Deletable(r)' = Deletable(r)
  BY <1>1 DEF Deletable
<1>4. Shapes' /\ Owned' /\ StaleIsKnown'
  BY <1>1, <1>2 DEF IInv, Shapes, Owned, StaleIsKnown
<1>5. OwnedMessages' /\ BusyWithKnown'
  BY <1>1, <1>3 DEF IInv, Shapes, OwnedMessages, OwnedMessage, BusyWithKnown, Idle
<1>6. PeersDeletable' /\ MatchedDeletable'
  BY <1>1, <1>2, <1>3 DEF IInv, Shapes, PeersDeletable, MatchedDeletable
<1> QED
  BY <1>4, <1>5, <1>6 DEF IInv

LEMMA ReceiveSedpStep ==
  ASSUME IInv, NEW p \in Participants, NEW q \in Participants, NEW k \in Roles,
         ReceiveSedp(p, q, k)
  PROVE  IInv'
<1>1. PICK m \in net :
        /\ m.from = q
        /\ net' = net \ {m}
        /\ busy' = [busy EXCEPT ![p] = IF q \in db[p] THEN m ELSE Idle]
        /\ UNCHANGED <<db, stale, lost, updates, peers, matched, registered, notify, log>>
  BY DEF ReceiveSedp, KnownParticipant, endpointVars, dbVars, proxyVars
<1>2. \A r \in Participants : Deletable(r)' = Deletable(r)
  BY <1>1 DEF Deletable
<1>3. Shapes' /\ Owned' /\ StaleIsKnown'
  BY <1>1 DEF IInv, Shapes, Owned, StaleIsKnown
<1>4. OwnedMessages'
  BY <1>1 DEF IInv, Shapes, OwnedMessages, OwnedMessage, Idle
<1>5. BusyWithKnown'
  BY <1>1, <1>2 DEF IInv, Shapes, BusyWithKnown, Idle, Deletable
<1>6. PeersDeletable' /\ MatchedDeletable'
  BY <1>1, <1>2 DEF IInv, PeersDeletable, MatchedDeletable
<1> QED
  BY <1>3, <1>4, <1>5, <1>6 DEF IInv

LEMMA MatchEndpointStep ==
  ASSUME IInv, NEW p \in Participants, MatchEndpoint(p)
  PROVE  IInv'
<1> DEFINE e == busy[p].endpoint
<1>1. /\ busy[p].type = "SEDP"
      /\ busy' = [busy EXCEPT ![p] = Idle]
      /\ UNCHANGED <<db, stale, lost, updates, peers, registered, notify, log, net>>
  BY DEF MatchEndpoint, endpointVars, dbVars
<1>2. PICK L \in SUBSET registered : matched' = [matched EXCEPT ![p] = @ \cup {<<l, e>> : l \in L}]
  BY DEF MatchEndpoint, Visited, Candidates
<1>3. e \in Endpoints /\ Owner[e] = busy[p].from /\ Owner[e] \in Deletable(p)
  BY <1>1 DEF IInv, OwnedMessages, OwnedMessage, BusyWithKnown
<1>4. \A r \in Participants : Deletable(r)' = Deletable(r)
  BY <1>1 DEF Deletable
<1> HIDE DEF e
<1>5. Shapes'
  <2>1. L \subseteq Endpoints
    BY <1>2 DEF IInv, Owned
  <2> QED
    BY <1>1, <1>2, <1>3, <2>1 DEF IInv, Shapes
<1>6. Owned' /\ StaleIsKnown' /\ PeersDeletable'
  BY <1>1, <1>4 DEF IInv, Owned, StaleIsKnown, PeersDeletable
<1>7. OwnedMessages' /\ BusyWithKnown'
  BY <1>1, <1>4 DEF IInv, Shapes, OwnedMessages, OwnedMessage, BusyWithKnown, Idle
<1>8. MatchedDeletable'
  <2> SUFFICES ASSUME NEW r \in Participants, NEW m \in matched'[r]
               PROVE  Owner[m[2]] \in Deletable(r)
    BY <1>4 DEF MatchedDeletable
  <2>1. m \in matched[r] \/ (r = p /\ \E l \in L : m = <<l, e>>)
    BY <1>2 DEF IInv, Shapes
  <2> QED
    BY <1>3, <2>1 DEF IInv, MatchedDeletable
<1> QED
  BY <1>5, <1>6, <1>7, <1>8 DEF IInv

LEMMA LeaseStep ==
  ASSUME IInv, NEW p \in Participants,
         \/ \E q \in Participants : Silence(p, q) \/ SendDeleteParticipant(p, q)
         \/ CheckParticipantLiveliness(p)
  PROVE  IInv'
<1>1. UNCHANGED <<busy, peers, matched, registered, notify, log, net>>
  BY DEF Silence, SendDeleteParticipant, CheckParticipantLiveliness, endpointVars, proxyVars
<1>2. /\ \A f \in {db', stale', lost', updates'} : f \in [Participants -> SUBSET Participants]
      /\ \A r \in Participants : Deletable(r)' = Deletable(r) /\ stale'[r] \subseteq db'[r]
  <2>1. ASSUME NEW q \in Participants, Silence(p, q)
        PROVE  <1>2!1 /\ <1>2!2
    BY <2>1 DEF Silence, IInv, Shapes, StaleIsKnown, Deletable
  <2>2. ASSUME NEW q \in Participants, SendDeleteParticipant(p, q)
        PROVE  <1>2!1 /\ <1>2!2
    BY <2>2 DEF SendDeleteParticipant, IInv, Shapes, StaleIsKnown, Deletable
  <2>3. CASE CheckParticipantLiveliness(p)
    <3>1. /\ db' = [db EXCEPT ![p] = @ \ stale[p]]
          /\ lost' = [lost EXCEPT ![p] = stale[p]] /\ lost[p] = {}
          /\ stale' = [stale EXCEPT ![p] = {}]
          /\ updates' = updates
      BY <2>3 DEF CheckParticipantLiveliness
    <3>2. stale[p] \subseteq db[p]
      BY DEF IInv, StaleIsKnown
    <3> QED
      BY <3>1, <3>2 DEF IInv, Shapes, StaleIsKnown, Deletable
  <2> QED
    BY <2>1, <2>2, <2>3
<1>3. Shapes' /\ Owned' /\ OwnedMessages' /\ StaleIsKnown'
  BY <1>1, <1>2 DEF IInv, Shapes, Owned, OwnedMessages, OwnedMessage, StaleIsKnown
<1>4. BusyWithKnown' /\ PeersDeletable' /\ MatchedDeletable'
  BY <1>1, <1>2 DEF IInv, BusyWithKnown, PeersDeletable, MatchedDeletable
<1> QED
  BY <1>3, <1>4 DEF IInv

LEMMA RemoveParticipantsStep ==
  ASSUME IInv, NEW p \in Participants, RemoveParticipants(p)
  PROVE  IInv'
<1> DEFINE S == updates[p]
<1>1. /\ busy[p] = Idle
      /\ updates' = [updates EXCEPT ![p] = {}]
      /\ peers' = [peers EXCEPT ![p] = @ \ S]
      /\ matched' = [matched EXCEPT ![p] = Kept(p, S)]
      /\ UNCHANGED <<db, stale, lost, busy, registered, notify, log, net>>
  BY DEF RemoveParticipants, endpointVars
<1>2. /\ Deletable(p) \subseteq Deletable(p)' \cup S
      /\ \A r \in Participants \ {p} : Deletable(r)' = Deletable(r)
  BY <1>1 DEF IInv, Shapes, Deletable
<1>3. Shapes' /\ Owned' /\ OwnedMessages' /\ StaleIsKnown'
  BY <1>1 DEF IInv, Shapes, Owned, OwnedMessages, OwnedMessage, StaleIsKnown, Kept
<1>4. BusyWithKnown'
  BY <1>1, <1>2 DEF IInv, BusyWithKnown, Idle
<1>5. PeersDeletable'
  BY <1>1, <1>2 DEF IInv, Shapes, PeersDeletable
<1>6. MatchedDeletable'
  BY <1>1, <1>2 DEF IInv, Shapes, MatchedDeletable, Kept
<1> QED
  BY <1>3, <1>4, <1>5, <1>6 DEF IInv

-----------------------------------------------------------------------------

LEMMA Inductive == IInv /\ [Next]_vars => IInv'
<1> SUFFICES ASSUME IInv, [Next]_vars PROVE IInv'
  OBVIOUS
<1>1. CASE UNCHANGED vars
  <2>1. UNCHANGED dbVars /\ UNCHANGED <<peers, matched, busy, registered, notify, log, net>>
    BY <1>1 DEF vars, dbVars, proxyVars, endpointVars
  <2>2. Owned' /\ OwnedMessages'
    BY <2>1 DEF IInv, Owned, OwnedMessages, OwnedMessage
  <2> QED
    BY <2>1, <2>2, Untouched
<1>2. CASE \E e \in Endpoints : RegisterEndpoint(e)
  BY <1>2, RegisterEndpointStep
<1>3. ASSUME NEW p \in Participants, HandleMessage(p)
      PROVE  IInv'
  BY <1>3, ParticipantDiscoveryStep, MatchEndpointStep, RemoveParticipantsStep, ReceiveSpdpStep,
     ReceiveSedpStep, ReceiveReliableStep DEF HandleMessage
<1>4. ASSUME NEW p \in Participants, (\E k \in Roles : Announce(p, k)) \/ SendSpdp(p)
      PROVE  IInv'
  BY <1>4, SendStep
<1>5. ASSUME NEW p \in Participants, DiscoveryThread(p)
      PROVE  IInv'
  BY <1>5, AnnounceEndpointStep, LeaseStep DEF DiscoveryThread
<1>6. ASSUME NEW p \in Participants, \E q \in Participants : Silence(p, q)
      PROVE  IInv'
  BY <1>6, LeaseStep
<1>7. CASE (\E p \in Participants : Crash(p)) \/ (\E m \in net : Lose(m))
  BY <1>7, FailureStep
<1> QED
  BY <1>1, <1>2, <1>3, <1>4, <1>5, <1>6, <1>7 DEF Next

\* Whatever is lost, whoever crashes and however the event loop and the discovery
\* thread interleave, a participant that some proxy is for is in the discovery
\* database or about to be deleted (handle_spdp_data, handle_sedp_w_data,
\* handle_sedp_r_data, check_participant_liveliness, remove_discoverd_participant).
THEOREM ProxiesDeletable == Spec => []NoZombieProxies
<1>1. IInv => NoZombieProxies
  BY DEF IInv, NoZombieProxies, HasProxies, PeersDeletable, MatchedDeletable, Deletable
<1> QED
  BY <1>1, Initially, Inductive, PTL DEF Spec

-----------------------------------------------------------------------------
(* What the messages and the proxies hold *)

\* The endpoints of role k that p has registered.
Created(p, k) == {e \in registered : Owner[e] = p /\ Role[e] = k}

AnnouncedCreated ==
  \A p \in Participants, k \in Roles :
    log[p][k] \in Seq(Created(p, k)) /\ notify[p][k] \in Seq(Created(p, k))

\* A message is of what its sender has announced or, for an ACKNACK, its receiver.
GoodMessage(m) ==
  /\ m.from \in Participants /\ m.to \in Participants /\ m.from # m.to
  /\ m.type = "SEDP" => /\ m.role \in Roles
                        /\ m.n \in DOMAIN log[m.from][m.role]
                        /\ m.endpoint = log[m.from][m.role][m.n]
  /\ m.type = "HEARTBEAT" => m.role \in Roles /\ m.last \in DOMAIN log[m.from][m.role]
  /\ m.type = "ACKNACK" => /\ m.role \in Roles
                           /\ m.set \subseteq DOMAIN log[m.to][m.role]
                           /\ m.base \in 1..(Len(log[m.to][m.role]) + 1)

GoodMessages == /\ \A m \in net : GoodMessage(m)
                /\ \A p \in Participants : busy[p] # Idle => GoodMessage(busy[p]) /\ busy[p].to = p

\* No participant discovers itself.
OnlyOthers ==
  \A p \in Participants : p \notin db[p] \cup lost[p] \cup updates[p] \cup peers[p]

\* The entries of a proxy are numbers of announcements.
GoodReaderProxies ==
  /\ rp \in [Participants -> [Participants -> [Roles -> ReaderProxy]]]
  /\ \A p, q \in Participants, k \in Roles : Entries(rp[p][q][k]) \subseteq DOMAIN log[p][k]

Tracked(w) == {n \in SeqNum : w[n] # "None"}

GoodWriterProxies ==
  /\ wp \in [Participants -> [Participants -> [Roles -> WriterProxy]]]
  /\ \A p, q \in Participants, k \in Roles : Tracked(wp[p][q][k]) \subseteq DOMAIN log[q][k]

MatchedRegistered == \A p \in Participants : matched[p] \subseteq registered \X registered

TypeInv == /\ IInv
           /\ alive \subseteq Participants
           /\ AnnouncedCreated
           /\ GoodMessages
           /\ OnlyOthers
           /\ GoodReaderProxies
           /\ GoodWriterProxies
           /\ MatchedRegistered

LEMMA LeastNat ==
  ASSUME NEW T \in SUBSET Nat, T # {}
  PROVE  \E n \in T : \A m \in T : n <= m
<1>1. PICK n \in T : \A m \in T : ~(<<m, n>> \in OpToRel(<, Nat))
  BY NatLessThanWellFounded, WFMin
<1>2. \A m \in T : ~(m < n)
  BY <1>1 DEF OpToRel
<1> QED
  BY <1>2

LEMMA MinNat ==
  ASSUME NEW T \in SUBSET Nat, T # {}
  PROVE  Min(T) \in T /\ \A m \in T : Min(T) <= m
BY LeastNat DEF Min

LEMMA MaxNat ==
  ASSUME NEW T \in SUBSET Nat, T # {}, NEW b \in Nat, \A m \in T : m <= b
  PROVE  Max(T) \in T /\ \A m \in T : m <= Max(T)
<1> DEFINE U == {n \in Nat : \A m \in T : m <= n}
<1>1. U \in SUBSET Nat /\ U # {}
  OBVIOUS
<1> HIDE DEF U
<1>2. PICK n \in U : \A m \in U : n <= m
  BY <1>1, LeastNat
<1>3. n \in Nat /\ \A m \in T : m <= n
  BY <1>2 DEF U
<1>4. n \in T
  <2> SUFFICES ASSUME n \notin T PROVE FALSE
    OBVIOUS
  <2>1. \A m \in T : m \in Nat /\ m <= n - 1
    BY <1>3
  <2>2. PICK m \in T : TRUE
    OBVIOUS
  <2>3. n - 1 \in Nat
    BY <2>1, <2>2, <1>3
  <2>4. n - 1 \in U
    BY <2>1, <2>3 DEF U
  <2> QED
    BY <2>4, <1>2, <1>3
<1>5. \E x \in T : \A y \in T : x >= y
  BY <1>3, <1>4
<1> QED
  BY <1>5 DEF Max

-----------------------------------------------------------------------------
(* The operators on proxies *)

\* The status of each entry of q is that of p, or kind for the numbers in S.
Restates(q, p, S, kind) ==
  /\ q \in ReaderProxy
  /\ \A n \in SeqNum : q[n].status = IF n \in S THEN kind ELSE p[n].status

LEMMA StatusChange ==
  ASSUME NEW p \in ReaderProxy, NEW S, NEW kind \in ChangeForReaderStatusKind
  PROVE  Restates(WithStatus(p, S, kind), p, S, kind)
<1>1. \A n \in SeqNum : WithStatus(p, S, kind)[n] =
        IF n \in S THEN [status |-> kind, is_relevant |-> p[n].is_relevant] ELSE p[n]
  BY DEF WithStatus, UpdateCacheState
<1>2. WithStatus(p, S, kind) \in ReaderProxy
  BY DEF WithStatus, UpdateCacheState, ReaderProxy, ChangeForReader
<1> DEFINE q == WithStatus(p, S, kind)
<1> HIDE DEF q
<1>3. ASSUME NEW n \in SeqNum, n \in S
      PROVE  q[n].status = kind
  <2>1. q[n] = [status |-> kind, is_relevant |-> p[n].is_relevant]
    BY <1>1, <1>3, Zenon DEF q
  <2> QED
    BY <2>1
<1>4. ASSUME NEW n \in SeqNum, n \notin S
      PROVE  q[n] = p[n]
  BY <1>1, <1>4, Zenon DEF q
<1>5. Restates(q, p, S, kind)
  BY <1>2, <1>3, <1>4 DEF Restates, q
<1> QED
  BY <1>5 DEF q

LEMMA RequestChange ==
  ASSUME NEW p \in ReaderProxy, NEW S
  PROVE  Restates(RequestedChangesSet(p, S), p, S, "Requested")
<1> DEFINE q == RequestedChangesSet(p, S)
<1>1. ASSUME NEW n \in SeqNum
      PROVE  q[n] = IF n \in S THEN [status |-> "Requested",
                                     is_relevant |-> p[n].status = "None" \/ p[n].is_relevant]
                    ELSE p[n]
  BY DEF RequestedChangesSet, UpdateCacheState
<1>2. ASSUME NEW n \in SeqNum
      PROVE  [status |-> "Requested", is_relevant |-> p[n].status = "None" \/ p[n].is_relevant]
               \in ChangeForReader
  BY Zenon DEF ChangeForReader, ChangeForReaderStatusKind
<1>3. q \in ReaderProxy
  <2>1. \A n \in SeqNum : q[n] \in ChangeForReader
    BY <1>1, <1>2 DEF ReaderProxy
  <2>2. q = [n \in SeqNum |-> q[n]]
    BY DEF RequestedChangesSet, UpdateCacheState
  <2> HIDE DEF q
  <2> QED
    BY <2>1, <2>2 DEF ReaderProxy
<1> HIDE DEF q
<1>4. ASSUME NEW n \in SeqNum, n \in S
      PROVE  q[n].status = "Requested"
  <2>1. PICK b : q[n] = [status |-> "Requested", is_relevant |-> b]
    BY <1>1, <1>4, Zenon
  <2> QED
    BY <2>1
<1>5. ASSUME NEW n \in SeqNum, n \notin S
      PROVE  q[n] = p[n]
  BY <1>1, <1>5, Zenon
<1>6. Restates(q, p, S, "Requested")
  BY <1>3, <1>4, <1>5 DEF Restates
<1> QED
  BY <1>6 DEF q

LEMMA UnsentChange ==
  ASSUME NEW p \in ReaderProxy, NEW S
  PROVE  Restates(UpdateCacheState(p, S, LAMBDA n : TRUE, "Unsent"), p, S, "Unsent")
<1> DEFINE q == UpdateCacheState(p, S, LAMBDA n : TRUE, "Unsent")
<1>1. \A n \in SeqNum : q[n] = IF n \in S THEN [status |-> "Unsent", is_relevant |-> TRUE] ELSE p[n]
  BY DEF UpdateCacheState
<1>2. q \in ReaderProxy
  BY DEF UpdateCacheState, ReaderProxy, ChangeForReader, ChangeForReaderStatusKind
<1> QED
  BY <1>1, <1>2 DEF Restates

LEMMA EmptyProxies ==
  /\ EmptyReaderProxy \in ReaderProxy /\ Entries(EmptyReaderProxy) = {}
  /\ EmptyWriterProxy \in WriterProxy /\ Tracked(EmptyWriterProxy) = {}
BY DEF EmptyReaderProxy, ReaderProxy, ChangeForReader, NoChangeForReader, Entries,
       EmptyWriterProxy, WriterProxy, Tracked

LEMMA RestatedEntries ==
  ASSUME NEW p, NEW q, NEW S, NEW kind, Restates(q, p, S, kind)
  PROVE  Entries(q) \subseteq Entries(p) \cup S
BY DEF Restates, Entries

LEMMA MissingUpdate ==
  ASSUME NEW w \in WriterProxy, NEW last \in Nat
  PROVE  LET v == MissingChangesUpdate(w, 1, last)
         IN  /\ v \in WriterProxy
             /\ \A n \in SeqNum : v[n] = IF w[n] = "None" /\ n <= last THEN "Missing" ELSE w[n]
             /\ Tracked(v) \subseteq Tracked(w) \cup 1..last
<1> DEFINE v == MissingChangesUpdate(w, 1, last)
<1>1. \A n \in SeqNum : n \in Nat /\ 1 <= n
  BY SeqNumAssumption
<1>2. v \in WriterProxy
  BY DEF MissingChangesUpdate, WriterProxy, ChangeFromWriterStatusKind
<1>3. \A n \in SeqNum : v[n] = IF w[n] = "None" /\ n <= last THEN "Missing" ELSE w[n]
  BY <1>1 DEF MissingChangesUpdate
<1> HIDE DEF v
<1>4. Tracked(v) \subseteq Tracked(w) \cup 1..last
  BY <1>1, <1>3 DEF Tracked
<1> QED
  BY <1>2, <1>3, <1>4 DEF v

LEMMA ReceivedUpdate ==
  ASSUME NEW w \in WriterProxy, NEW n
  PROVE  /\ ReceivedChangeSet(w, n) \in WriterProxy
         /\ Tracked(ReceivedChangeSet(w, n)) \subseteq Tracked(w) \cup {n}
         /\ \A i \in SeqNum : ReceivedChangeSet(w, n)[i] = IF i = n THEN "Received" ELSE w[i]
BY DEF ReceivedChangeSet, WriterProxy, ChangeFromWriterStatusKind, Tracked

\* The base of an ACKNACK is at most one past the announcements.
LEMMA BaseRange ==
  ASSUME NEW w \in WriterProxy, NEW len \in Nat, Tracked(w) \subseteq 1..len
  PROVE  AckNackBase(w) \in 1..(len + 1)
<1>1. MissingChanges(w) \subseteq 1..len /\ AvailableChanges(w) \subseteq 1..len
  BY DEF MissingChanges, AvailableChanges, Tracked
<1>2. CASE MissingChanges(w) # {}
  <2>1. MissingChanges(w) \in SUBSET Nat
    BY <1>1
  <2>2. Min(MissingChanges(w)) \in MissingChanges(w)
    BY <1>2, <2>1, MinNat
  <2> QED
    BY <1>1, <1>2, <2>2 DEF AckNackBase
<1>3. CASE MissingChanges(w) = {} /\ AvailableChanges(w) = {}
  <2>1. AckNackBase(w) = 0 + 1
    BY <1>3 DEF AckNackBase, AvailableChangesMax, MaxOrZero
  <2> QED
    BY <2>1
<1>4. CASE MissingChanges(w) = {} /\ AvailableChanges(w) # {}
  <2>1. AvailableChanges(w) \in SUBSET Nat /\ \A m \in AvailableChanges(w) : m <= len
    BY <1>1
  <2>2. Max(AvailableChanges(w)) \in AvailableChanges(w)
    BY <1>4, <2>1, MaxNat
  <2>3. AckNackBase(w) = Max(AvailableChanges(w)) + 1
    BY <1>4 DEF AckNackBase, AvailableChangesMax, MaxOrZero
  <2> QED
    BY <1>1, <2>2, <2>3
<1> QED
  BY <1>2, <1>3, <1>4

(* Type correctness, conjunct by conjunct *)

LEMMA SeqGrows == ASSUME NEW S, NEW T, S \subseteq T PROVE Seq(S) \subseteq Seq(T)
OBVIOUS

\* A log is a sequence, so its numbers are 1..Len.
LEMMA LogNumbers ==
  ASSUME IInv, NEW p \in Participants, NEW k \in Roles
  PROVE  /\ log[p][k] \in Seq(Endpoints) /\ Len(log[p][k]) \in Nat
         /\ DOMAIN log[p][k] = 1..Len(log[p][k])
BY DEF IInv, Owned

LogGrows ==
  \A p \in Participants, k \in Roles :
    /\ Len(log[p][k]) <= Len(log'[p][k])
    /\ DOMAIN log[p][k] \subseteq DOMAIN log'[p][k]
    /\ \A n \in DOMAIN log[p][k] : log'[p][k][n] = log[p][k][n]

\* A log is only ever appended to.
LEMMA LogAppended == ASSUME IInv, IInv', [Next]_vars PROVE LogGrows
<1>1. CASE log' = log
  BY <1>1, LogNumbers DEF LogGrows
<1>2. ASSUME NEW p \in Participants, NEW k \in Roles, AnnounceEndpoint(p, k)
      PROVE  LogGrows
  <2>1. log' = [log EXCEPT ![p][k] = Append(@, Head(notify[p][k]))]
    BY <1>2 DEF AnnounceEndpoint
  <2>2. ASSUME NEW q \in Participants, NEW j \in Roles
        PROVE  /\ Len(log[q][j]) <= Len(log'[q][j])
               /\ DOMAIN log[q][j] \subseteq DOMAIN log'[q][j]
               /\ \A n \in DOMAIN log[q][j] : log'[q][j][n] = log[q][j][n]
    <3>1. CASE q = p /\ j = k
      <4>1. log'[q][j] = Append(log[q][j], Head(notify[p][k]))
        BY <2>1, <3>1 DEF IInv, Owned
      <4>2. log[q][j] \in Seq(Endpoints) /\ Len(log[q][j]) \in Nat
        BY LogNumbers
      <4>3. Head(notify[p][k]) \in Endpoints
        BY <1>2 DEF AnnounceEndpoint, IInv, Owned
      <4> QED
        BY <4>1, <4>2, <4>3
    <3>2. CASE ~(q = p /\ j = k)
      <4>1. log'[q][j] = log[q][j]
        BY <2>1, <3>2 DEF IInv, Owned
      <4> QED
        BY <4>1, LogNumbers
    <3> QED
      BY <3>1, <3>2
  <2> QED
    BY <2>2 DEF LogGrows
<1>3. CASE UNCHANGED vars
  BY <1>1, <1>3 DEF vars, endpointVars
<1>4. CASE \E e \in Endpoints : RegisterEndpoint(e)
  BY <1>1, <1>4 DEF RegisterEndpoint
<1>5. ASSUME NEW p \in Participants, HandleMessage(p)
      PROVE  log' = log
  <2>1. UNCHANGED endpointVars
    <3>1. CASE ParticipantDiscovery(p) \/ MatchEndpoint(p) \/ RemoveParticipants(p)
      BY <3>1 DEF ParticipantDiscovery, MatchEndpoint, RemoveParticipants
    <3>2. ASSUME NEW q \in Participants, ReceiveSpdp(p, q)
          PROVE  UNCHANGED endpointVars
      BY <3>2 DEF ReceiveSpdp
    <3>3. ASSUME NEW q \in Participants, NEW k \in Roles,
                 ReceiveSedp(p, q, k) \/ ReceiveHeartbeat(p, q, k) \/ ReceiveAckNack(p, q, k)
          PROVE  UNCHANGED endpointVars
      BY <3>3 DEF ReceiveSedp, ReceiveHeartbeat, ReceiveAckNack
    <3> QED
      BY <1>5, <3>1, <3>2, <3>3 DEF HandleMessage
  <2> QED
    BY <2>1 DEF endpointVars
<1>6. ASSUME NEW p \in Participants,
             \/ \E k \in Roles : Announce(p, k)
             \/ SendSpdp(p) \/ Crash(p)
             \/ CheckParticipantLiveliness(p)
             \/ \E q \in Participants : Silence(p, q) \/ SendDeleteParticipant(p, q)
      PROVE  log' = log
  BY <1>6 DEF Announce, SendAnnouncement, SendSedpHeartbeat, SendSpdp, Crash, Silence,
              CheckParticipantLiveliness, SendDeleteParticipant, endpointVars
<1>7. CASE \E m \in net : Lose(m)
  BY <1>1, <1>7 DEF Lose, endpointVars
<1> QED
  BY <1>1, <1>2, <1>3, <1>4, <1>5, <1>6, <1>7 DEF Next, DiscoveryThread

\* What holds of a message goes on to hold.
LEMMA GoodStays ==
  ASSUME IInv, IInv', LogGrows, NEW m, GoodMessage(m)
  PROVE  GoodMessage(m)'
<1>1. m.from \in Participants /\ m.to \in Participants /\ m.from # m.to
  BY DEF GoodMessage
<1>2. CASE m.type = "SEDP"
  BY <1>1, <1>2 DEF GoodMessage, LogGrows
<1>3. CASE m.type = "HEARTBEAT"
  BY <1>1, <1>3 DEF GoodMessage, LogGrows
<1>4. CASE m.type = "ACKNACK"
  <2>1. m.role \in Roles /\ m.set \subseteq DOMAIN log[m.to][m.role]
        /\ m.base \in 1..(Len(log[m.to][m.role]) + 1)
    BY <1>4 DEF GoodMessage
  <2>2. /\ Len(log[m.to][m.role]) <= Len(log'[m.to][m.role])
        /\ DOMAIN log[m.to][m.role] \subseteq DOMAIN log'[m.to][m.role]
    BY <1>1, <2>1 DEF LogGrows
  <2>3. Len(log[m.to][m.role]) \in Nat /\ Len(log'[m.to][m.role]) \in Nat
    <3>1. log[m.to][m.role] \in Seq(Endpoints)
      BY <1>1, <2>1 DEF IInv, Owned
    <3>2. log'[m.to][m.role] \in Seq(Endpoints)
      BY <1>1, <2>1 DEF IInv, Owned
    <3> QED
      BY <3>1, <3>2
  <2>4. m.base \in 1..(Len(log'[m.to][m.role]) + 1)
    <3> DEFINE a == Len(log[m.to][m.role])
               b == Len(log'[m.to][m.role])
    <3>1. a \in Nat /\ b \in Nat /\ a <= b /\ m.base \in 1..(a + 1)
      BY <2>1, <2>2, <2>3
    <3> HIDE DEF a, b
    <3>2. m.base \in 1..(b + 1)
      BY <3>1
    <3> QED
      BY <3>2 DEF b
  <2> QED
    BY <1>1, <1>4, <2>1, <2>2, <2>4 DEF GoodMessage
<1>5. CASE m.type \notin {"SEDP", "HEARTBEAT", "ACKNACK"}
  BY <1>1, <1>5 DEF GoodMessage
<1> QED
  BY <1>2, <1>3, <1>4, <1>5

\* The messages after a step: the old ones, some new ones and what the event loop
\* of p takes up or has done with.
LEMMA MessagesStay ==
  ASSUME IInv, IInv', GoodMessages, LogGrows,
         \A m \in net' \ net : GoodMessage(m)',
         \/ busy' = busy
         \/ \E p \in Participants : \E m \in net \cup {Idle} :
              /\ busy' = [busy EXCEPT ![p] = m]
              /\ m # Idle => m.to = p
  PROVE  GoodMessages'
<1>1. \A m \in net' : GoodMessage(m)'
  BY GoodStays DEF GoodMessages
<1>2. ASSUME NEW p \in Participants, NEW b, b = busy'[p], b # Idle
      PROVE  GoodMessage(b)' /\ b.to = p
  <2>1. CASE b = busy[p]
    BY <1>2, <2>1, GoodStays DEF GoodMessages
  <2>2. CASE b # busy[p]
    <3>1. b \in net /\ b.to = p
      BY <1>2, <2>2 DEF IInv, Shapes
    <3> QED
      BY <3>1, GoodStays DEF GoodMessages
  <2> QED
    BY <2>1, <2>2
<1> QED
  BY <1>1, <1>2 DEF GoodMessages

LEMMA ReaderProxiesStay ==
  ASSUME GoodReaderProxies, LogGrows, rp' = rp PROVE GoodReaderProxies'
BY DEF GoodReaderProxies, LogGrows

LEMMA WriterProxiesStay ==
  ASSUME GoodWriterProxies, LogGrows, wp' = wp PROVE GoodWriterProxies'
BY DEF GoodWriterProxies, LogGrows

LEMMA OthersStay ==
  ASSUME OnlyOthers, UNCHANGED <<db, lost, updates, peers>> PROVE OnlyOthers'
BY DEF OnlyOthers

LEMMA CreatedStay ==
  ASSUME AnnouncedCreated, UNCHANGED <<registered, notify, log>> PROVE AnnouncedCreated'
BY DEF AnnouncedCreated, Created

LEMMA MatchedStay ==
  ASSUME MatchedRegistered, registered \subseteq registered', matched' = matched
  PROVE  MatchedRegistered'
BY DEF MatchedRegistered

LEMMA RegisterEndpointTypes ==
  ASSUME TypeInv, IInv', LogGrows, NEW e \in Endpoints, RegisterEndpoint(e)
  PROVE  TypeInv'
<1>1. /\ registered' = registered \cup {e} /\ log' = log
      /\ notify' = [notify EXCEPT ![Owner[e]][Role[e]] = Append(@, e)]
      /\ UNCHANGED <<alive, busy, net, db, lost, updates, peers, rp, wp, matched>>
  BY DEF RegisterEndpoint, dbVars, proxyVars
<1>2. Owner[e] \in Participants /\ Role[e] \in Roles
  BY EndpointAssumption
<1>3. AnnouncedCreated'
  <2>1. ASSUME NEW p \in Participants, NEW k \in Roles
        PROVE  log'[p][k] \in Seq(Created(p, k)') /\ notify'[p][k] \in Seq(Created(p, k)')
    <3>1. Created(p, k) \subseteq Created(p, k)'
      BY <1>1 DEF Created
    <3>2. log[p][k] \in Seq(Created(p, k)') /\ notify[p][k] \in Seq(Created(p, k)')
      BY <3>1, SeqGrows DEF TypeInv, AnnouncedCreated
    <3>3. CASE p = Owner[e] /\ k = Role[e]
      <4>1. e \in Created(p, k)'
        BY <1>1, <3>3 DEF Created
      <4>2. notify'[p][k] = Append(notify[p][k], e)
        BY <1>1, <1>2, <3>3 DEF TypeInv, IInv, Owned
      <4> QED
        BY <1>1, <3>2, <4>1, <4>2
    <3>4. CASE ~(p = Owner[e] /\ k = Role[e])
      <4>1. notify'[p][k] = notify[p][k]
        BY <1>1, <1>2, <3>4 DEF TypeInv, IInv, Owned
      <4> QED
        BY <1>1, <3>2, <4>1
    <3> QED
      BY <3>3, <3>4
  <2> QED
    BY <2>1 DEF AnnouncedCreated
<1>4. GoodMessages'
  BY <1>1, MessagesStay DEF TypeInv
<1>5. OnlyOthers' /\ GoodReaderProxies' /\ GoodWriterProxies' /\ MatchedRegistered'
  BY <1>1, OthersStay, ReaderProxiesStay, WriterProxiesStay, MatchedStay DEF TypeInv
<1> QED
  BY <1>1, <1>3, <1>4, <1>5 DEF TypeInv

LEMMA AnnounceEndpointTypes ==
  ASSUME TypeInv, IInv', LogGrows, NEW p \in Participants, NEW k \in Roles, AnnounceEndpoint(p, k)
  PROVE  TypeInv'
<1>1. /\ notify[p][k] # << >>
      /\ log' = [log EXCEPT ![p][k] = Append(@, Head(notify[p][k]))]
      /\ notify' = [notify EXCEPT ![p][k] = Tail(@)]
      /\ UNCHANGED <<alive, registered, busy, net, db, lost, updates, peers, rp, wp, matched>>
  BY DEF AnnounceEndpoint, dbVars, proxyVars
<1>2. AnnouncedCreated'
  <2>1. ASSUME NEW q \in Participants, NEW j \in Roles
        PROVE  log'[q][j] \in Seq(Created(q, j)') /\ notify'[q][j] \in Seq(Created(q, j)')
    <3>1. Created(q, j)' = Created(q, j)
      BY <1>1 DEF Created
    <3>2. log[q][j] \in Seq(Created(q, j)) /\ notify[q][j] \in Seq(Created(q, j))
      BY DEF TypeInv, AnnouncedCreated
    <3>3. CASE q = p /\ j = k
      <4>1. /\ log'[q][j] = Append(log[q][j], Head(notify[q][j]))
            /\ notify'[q][j] = Tail(notify[q][j])
        BY <1>1, <3>3 DEF TypeInv, IInv, Owned
      <4>2. Head(notify[q][j]) \in Created(q, j) /\ Tail(notify[q][j]) \in Seq(Created(q, j))
        BY <1>1, <3>2, <3>3
      <4> QED
        BY <3>1, <3>2, <4>1, <4>2
    <3>4. CASE ~(q = p /\ j = k)
      <4>1. log'[q][j] = log[q][j] /\ notify'[q][j] = notify[q][j]
        BY <1>1, <3>4 DEF TypeInv, IInv, Owned
      <4> QED
        BY <3>1, <3>2, <4>1
    <3> QED
      BY <3>3, <3>4
  <2> QED
    BY <2>1 DEF AnnouncedCreated
<1>3. GoodMessages'
  BY <1>1, MessagesStay DEF TypeInv
<1>4. OnlyOthers' /\ GoodReaderProxies' /\ GoodWriterProxies' /\ MatchedRegistered'
  BY <1>1, OthersStay, ReaderProxiesStay, WriterProxiesStay, MatchedStay DEF TypeInv
<1> QED
  BY <1>1, <1>2, <1>3, <1>4 DEF TypeInv

\* An announcement that is sent is one of the sender's cache.
LEMMA GoodAnnouncements ==
  ASSUME IInv, NEW p \in Participants, NEW q \in Participants, p # q, NEW k \in Roles, NEW S,
         log' = log
  PROVE  \A m \in Announcements(p, q, k, S) : GoodMessage(m)'
<1> SUFFICES ASSUME NEW m \in Announcements(p, q, k, S) PROVE GoodMessage(m)'
  OBVIOUS
<1>1. PICK n \in DOMAIN log[p][k] : m = Sedp(p, q, k, n, log[p][k][n])
  BY DEF Announcements
<1> QED
  BY <1>1 DEF Sedp, GoodMessage

LEMMA SendAnnouncementTypes ==
  ASSUME TypeInv, IInv', LogGrows, NEW p \in Participants, NEW k \in Roles, SendAnnouncement(p, k)
  PROVE  TypeInv'
<1> DEFINE new    == {n \in DOMAIN log[p][k] : n > sent[p][k]}
           now(q) == UpdateCacheState(rp[p][q][k], new, LAMBDA n : TRUE, "Unsent")
           then(q) == WithStatus(now(q), UnsentChanges(now(q)), "Underway")
<1>1. /\ UNCHANGED <<alive, registered, notify, log, busy, peers, wp, matched, db, lost, updates>>
      /\ rp' = [rp EXCEPT ![p] = [q \in Participants |->
                  IF q \in peers[p] THEN [@[q] EXCEPT ![k] = then(q)] ELSE @[q]]]
      /\ net' = net \cup Arriving(UNION {Announcements(p, q, k, UnsentChanges(now(q))) :
                                         q \in peers[p]})
  BY DEF SendAnnouncement, dbVars
<1>2. ASSUME NEW q \in Participants
      PROVE  then(q) \in ReaderProxy /\ Entries(then(q)) \subseteq DOMAIN log[p][k]
  <2>1. rp[p][q][k] \in ReaderProxy /\ Entries(rp[p][q][k]) \subseteq DOMAIN log[p][k]
    BY DEF TypeInv, GoodReaderProxies
  <2>2. Restates(now(q), rp[p][q][k], new, "Unsent")
    BY <2>1, UnsentChange
  <2> HIDE DEF now
  <2>3. Entries(now(q)) \subseteq DOMAIN log[p][k] /\ now(q) \in ReaderProxy
    <3>1. Entries(now(q)) \subseteq Entries(rp[p][q][k]) \cup new
      BY <2>2, RestatedEntries
    <3>2. now(q) \in ReaderProxy
      BY <2>2 DEF Restates
    <3> QED
      BY <2>1, <3>1, <3>2
  <2>4. Restates(then(q), now(q), UnsentChanges(now(q)), "Underway")
    BY <2>3, StatusChange DEF ChangeForReaderStatusKind
  <2>5. UnsentChanges(now(q)) \subseteq Entries(now(q))
    BY DEF UnsentChanges, Entries
  <2>6. Entries(then(q)) \subseteq Entries(now(q)) \cup UnsentChanges(now(q))
    BY <2>4, RestatedEntries
  <2> QED
    BY <2>3, <2>4, <2>5, <2>6 DEF Restates
<1> HIDE DEF then, now, new
<1>3. GoodReaderProxies'
  <2>1. ASSUME NEW a \in Participants, NEW q \in Participants, NEW j \in Roles
        PROVE  /\ rp'[a][q][j] \in {rp[a][q][j], then(q)}
               /\ rp'[a][q][j] # rp[a][q][j] => a = p /\ j = k
    BY <1>1 DEF TypeInv, GoodReaderProxies
  <2>2. rp' \in [Participants -> [Participants -> [Roles -> ReaderProxy]]]
    <3>1. \A q \in Participants :
            (IF q \in peers[p] THEN [rp[p][q] EXCEPT ![k] = then(q)] ELSE rp[p][q])
               \in [Roles -> ReaderProxy]
      BY <1>2 DEF TypeInv, GoodReaderProxies
    <3> QED
      BY <1>1, <3>1 DEF TypeInv, GoodReaderProxies
  <2>3. ASSUME NEW a \in Participants, NEW q \in Participants, NEW j \in Roles
        PROVE  Entries(rp'[a][q][j]) \subseteq DOMAIN log[a][j]
    <3>1. Entries(rp[a][q][j]) \subseteq DOMAIN log[a][j]
      BY DEF TypeInv, GoodReaderProxies
    <3> QED
      BY <1>2, <2>1, <3>1
  <2> QED
    BY <1>1, <2>2, <2>3 DEF GoodReaderProxies
<1>4. GoodMessages'
  <2>1. ASSUME NEW m \in net' \ net
        PROVE  GoodMessage(m)'
    <3>1. PICK q \in peers[p] : m \in Announcements(p, q, k, UnsentChanges(now(q)))
      BY <1>1, <2>1 DEF Arriving
    <3>2. q \in Participants /\ q # p
      BY DEF TypeInv, IInv, Shapes, OnlyOthers
    <3> QED
      BY <1>1, <3>1, <3>2, GoodAnnouncements DEF TypeInv
  <2> QED
    BY <1>1, <2>1, MessagesStay DEF TypeInv
<1>5. AnnouncedCreated' /\ OnlyOthers' /\ GoodWriterProxies' /\ MatchedRegistered'
  BY <1>1, CreatedStay, OthersStay, WriterProxiesStay, MatchedStay DEF TypeInv
<1> QED
  BY <1>1, <1>3, <1>4, <1>5 DEF TypeInv

LEMMA PeriodicTypes ==
  ASSUME TypeInv, IInv', LogGrows, NEW p \in Participants,
         SendSpdp(p) \/ \E k \in Roles : SendSedpHeartbeat(p, k)
  PROVE  TypeInv'
<1>1. UNCHANGED <<alive, registered, notify, log, busy, peers, rp, wp, matched, db, lost, updates>>
  BY DEF SendSpdp, SendSedpHeartbeat, endpointVars, dbVars, proxyVars
<1>2. ASSUME NEW m \in net' \ net
      PROVE  GoodMessage(m)'
  <2>1. CASE SendSpdp(p)
    BY <1>2, <2>1 DEF SendSpdp, Arriving, Spdp, Others, GoodMessage
  <2>2. ASSUME NEW k \in Roles, SendSedpHeartbeat(p, k)
        PROVE  GoodMessage(m)'
    <3>1. PICK q \in peers[p] : m = Heartbeat(p, q, k, Len(log[p][k]))
      BY <1>2, <2>2 DEF SendSedpHeartbeat, Arriving
    <3>2. q \in Participants /\ q # p
      BY DEF TypeInv, IInv, Shapes, OnlyOthers
    <3>3. DOMAIN log[p][k] # {}
      BY <2>2 DEF SendSedpHeartbeat
    <3>4. Len(log[p][k]) \in DOMAIN log[p][k]
      BY <3>3, LogNumbers DEF TypeInv
    <3> QED
      BY <1>1, <3>1, <3>2, <3>4 DEF Heartbeat, GoodMessage
  <2> QED
    BY <2>1, <2>2
<1>3. GoodMessages'
  BY <1>1, <1>2, MessagesStay DEF TypeInv
<1>4. /\ AnnouncedCreated' /\ OnlyOthers' /\ GoodWriterProxies' /\ GoodReaderProxies'
      /\ MatchedRegistered'
  BY <1>1, CreatedStay, OthersStay, WriterProxiesStay, ReaderProxiesStay, MatchedStay DEF TypeInv
<1> QED
  BY <1>1, <1>3, <1>4 DEF TypeInv

LEMMA ReceiveSpdpTypes ==
  ASSUME TypeInv, IInv', LogGrows, NEW p \in Participants, NEW q \in Participants, ReceiveSpdp(p, q)
  PROVE  TypeInv'
<1>1. /\ Spdp(q, p) \in net
      /\ db' = [db EXCEPT ![p] = @ \cup {q}]
      /\ net' \subseteq net \cup {Spdp(p, q)}
      /\ busy' = [busy EXCEPT ![p] = Spdp(q, p)]
      /\ UNCHANGED <<alive, registered, notify, log, peers, rp, wp, matched, lost, updates>>
  BY DEF ReceiveSpdp, Arriving, endpointVars, proxyVars
<1>2. p # q
  <2>1. GoodMessage(Spdp(q, p))
    BY <1>1 DEF TypeInv, GoodMessages
  <2> QED
    BY <2>1 DEF GoodMessage, Spdp
<1>3. ASSUME NEW m \in net' \ net
      PROVE  GoodMessage(m)'
  <2>1. m = Spdp(p, q)
    BY <1>1, <1>3
  <2> QED
    BY <1>2, <2>1 DEF GoodMessage, Spdp
<1>4. GoodMessages'
  <2>1. Spdp(q, p).to = p
    BY DEF Spdp
  <2> QED
    BY <1>1, <1>3, <2>1, MessagesStay DEF TypeInv
<1>5. OnlyOthers'
  BY <1>1, <1>2 DEF TypeInv, OnlyOthers, IInv, Shapes
<1>6. AnnouncedCreated' /\ GoodWriterProxies' /\ GoodReaderProxies' /\ MatchedRegistered'
  BY <1>1, CreatedStay, WriterProxiesStay, ReaderProxiesStay, MatchedStay DEF TypeInv
<1> QED
  BY <1>1, <1>4, <1>5, <1>6 DEF TypeInv

\* One entry, or one proxy, of a table of proxies is replaced.
LEMMA TableRow ==
  ASSUME NEW X, NEW f \in [Participants -> [Participants -> [Roles -> X]]],
         NEW p \in Participants, NEW q \in Participants, NEW g \in [Roles -> X]
  PROVE  /\ [f EXCEPT ![p][q] = g] \in [Participants -> [Participants -> [Roles -> X]]]
         /\ \A a, b \in Participants :
              [f EXCEPT ![p][q] = g][a][b] = IF a = p /\ b = q THEN g ELSE f[a][b]
OBVIOUS

LEMMA TableEntry ==
  ASSUME NEW X, NEW f \in [Participants -> [Participants -> [Roles -> X]]],
         NEW p \in Participants, NEW q \in Participants, NEW k \in Roles, NEW x \in X
  PROVE  /\ [f EXCEPT ![p][q][k] = x] \in [Participants -> [Participants -> [Roles -> X]]]
         /\ \A a, b \in Participants, j \in Roles :
              [f EXCEPT ![p][q][k] = x][a][b][j] =
                IF a = p /\ b = q /\ j = k THEN x ELSE f[a][b][j]
OBVIOUS

\* The proxies a participant starts from.
LEMMA NewProxies ==
  ASSUME NEW p, NEW k
  PROVE  /\ NewSedpReaderProxy(p, k) \in ReaderProxy
         /\ Entries(NewSedpReaderProxy(p, k)) \subseteq DOMAIN log[p][k]
         /\ \A n \in SeqNum : NewSedpReaderProxy(p, k)[n].status # "Acknowledged"
<1> DEFINE r == NewSedpReaderProxy(p, k)
<1>1. Restates(r, EmptyReaderProxy, DOMAIN log[p][k], "Unsent")
  BY EmptyProxies, UnsentChange DEF NewSedpReaderProxy
<1> HIDE DEF r
<1>2. r \in ReaderProxy /\ Entries(r) \subseteq DOMAIN log[p][k]
  BY <1>1, EmptyProxies, RestatedEntries DEF Restates
<1>3. \A n \in SeqNum : EmptyReaderProxy[n].status = "None"
  BY DEF EmptyReaderProxy, NoChangeForReader
<1>4. \A n \in SeqNum : r[n].status # "Acknowledged"
  BY <1>1, <1>3 DEF Restates
<1> QED
  BY <1>2, <1>4 DEF r

LEMMA ParticipantDiscoveryTypes ==
  ASSUME TypeInv, IInv', LogGrows, NEW p \in Participants, ParticipantDiscovery(p)
  PROVE  TypeInv'
<1> DEFINE q == busy[p].from
<1>1. /\ busy[p].type = "SPDP"
      /\ busy' = [busy EXCEPT ![p] = Idle]
      /\ peers' = [peers EXCEPT ![p] = @ \cup {q}]
      /\ rp' \in {rp, [rp EXCEPT ![p][q] = [k \in Roles |-> NewSedpReaderProxy(p, k)]]}
      /\ wp' \in {wp, [wp EXCEPT ![p][q] = [k \in Roles |-> EmptyWriterProxy]]}
      /\ UNCHANGED <<alive, registered, notify, log, net, matched, db, lost, updates>>
  BY DEF ParticipantDiscovery, endpointVars, dbVars
<1>2. q \in Participants /\ q # p
  <2>1. busy[p] # Idle
    BY <1>1 DEF Idle
  <2> QED
    BY <2>1 DEF TypeInv, GoodMessages, GoodMessage
<1> HIDE DEF q
<1>3. GoodMessages'
  BY <1>1, MessagesStay DEF TypeInv
<1>4. OnlyOthers'
  BY <1>1, <1>2 DEF TypeInv, OnlyOthers, IInv, Shapes
<1>5. GoodReaderProxies'
  <2> DEFINE f == [k \in Roles |-> NewSedpReaderProxy(p, k)]
  <2>1. f \in [Roles -> ReaderProxy] /\ \A k \in Roles : Entries(f[k]) \subseteq DOMAIN log[p][k]
    BY NewProxies
  <2>2. rp' \in {rp, [rp EXCEPT ![p][q] = f]}
    BY <1>1
  <2> HIDE DEF f
  <2>3. CASE rp' = rp
    BY <2>3, ReaderProxiesStay DEF TypeInv
  <2>4. CASE rp' = [rp EXCEPT ![p][q] = f]
    <3>1. /\ rp' \in [Participants -> [Participants -> [Roles -> ReaderProxy]]]
          /\ \A a, b \in Participants : rp'[a][b] = IF a = p /\ b = q THEN f ELSE rp[a][b]
      BY <1>2, <2>1, <2>4, TableRow DEF TypeInv, GoodReaderProxies
    <3> QED
      BY <1>1, <2>1, <3>1 DEF TypeInv, GoodReaderProxies
  <2> QED
    BY <2>2, <2>3, <2>4
<1>6. GoodWriterProxies'
  <2> DEFINE f == [k \in Roles |-> EmptyWriterProxy]
  <2>1. f \in [Roles -> WriterProxy] /\ \A k \in Roles : Tracked(f[k]) = {}
    BY EmptyProxies
  <2>2. wp' \in {wp, [wp EXCEPT ![p][q] = f]}
    BY <1>1
  <2> HIDE DEF f
  <2>3. CASE wp' = wp
    BY <2>3, WriterProxiesStay DEF TypeInv
  <2>4. CASE wp' = [wp EXCEPT ![p][q] = f]
    <3>1. /\ wp' \in [Participants -> [Participants -> [Roles -> WriterProxy]]]
          /\ \A a, b \in Participants : wp'[a][b] = IF a = p /\ b = q THEN f ELSE wp[a][b]
      BY <1>2, <2>1, <2>4, TableRow DEF TypeInv, GoodWriterProxies
    <3> QED
      BY <1>1, <2>1, <3>1 DEF TypeInv, GoodWriterProxies
  <2> QED
    BY <2>2, <2>3, <2>4
<1>7. AnnouncedCreated' /\ MatchedRegistered'
  BY <1>1, CreatedStay, MatchedStay DEF TypeInv
<1> QED
  BY <1>1, <1>3, <1>4, <1>5, <1>6, <1>7 DEF TypeInv

LEMMA ReceiveSedpTypes ==
  ASSUME TypeInv, IInv', LogGrows, NEW p \in Participants, NEW q \in Participants, NEW k \in Roles,
         ReceiveSedp(p, q, k)
  PROVE  TypeInv'
<1>1. PICK m \in net :
        /\ m.to = p /\ net' = net \ {m}
        /\ \/ busy' = [busy EXCEPT ![p] = m]
           \/ busy' = [busy EXCEPT ![p] = Idle]
        /\ UNCHANGED <<alive, registered, notify, log, peers, rp, wp, matched, db, lost, updates>>
  BY DEF ReceiveSedp, endpointVars, dbVars, proxyVars
<1>2. GoodMessages'
  BY <1>1, MessagesStay DEF TypeInv
<1>3. /\ AnnouncedCreated' /\ OnlyOthers' /\ GoodWriterProxies' /\ GoodReaderProxies'
      /\ MatchedRegistered'
  BY <1>1, CreatedStay, OthersStay, WriterProxiesStay, ReaderProxiesStay, MatchedStay DEF TypeInv
<1> QED
  BY <1>1, <1>2, <1>3 DEF TypeInv

\* One WriterProxy is replaced, or one ReaderProxy.
LEMMA WriterEntry ==
  ASSUME GoodWriterProxies, log' = log, NEW p \in Participants, NEW q \in Participants,
         NEW k \in Roles, NEW v \in WriterProxy, Tracked(v) \subseteq DOMAIN log[q][k],
         wp' = [wp EXCEPT ![p][q][k] = v]
  PROVE  /\ GoodWriterProxies'
         /\ \A a, b \in Participants, j \in Roles :
              wp'[a][b][j] = IF a = p /\ b = q /\ j = k THEN v ELSE wp[a][b][j]
<1>1. wp \in [Participants -> [Participants -> [Roles -> WriterProxy]]]
  BY DEF GoodWriterProxies
<1>2. wp' \in [Participants -> [Participants -> [Roles -> WriterProxy]]]
  BY <1>1
<1>3. \A a, b \in Participants, j \in Roles :
        wp'[a][b][j] = IF a = p /\ b = q /\ j = k THEN v ELSE wp[a][b][j]
  BY <1>1
<1>4. ASSUME NEW a \in Participants, NEW b \in Participants, NEW j \in Roles
      PROVE  Tracked(wp'[a][b][j]) \subseteq DOMAIN log[b][j]
  <2>1. CASE a = p /\ b = q /\ j = k
    BY <1>3, <2>1
  <2>2. CASE ~(a = p /\ b = q /\ j = k)
    BY <1>3, <2>2 DEF GoodWriterProxies
  <2> QED
    BY <2>1, <2>2
<1> QED
  BY <1>2, <1>3, <1>4 DEF GoodWriterProxies, Tracked

LEMMA ReaderEntry ==
  ASSUME GoodReaderProxies, log' = log, NEW p \in Participants, NEW q \in Participants,
         NEW k \in Roles, NEW v \in ReaderProxy, Entries(v) \subseteq DOMAIN log[p][k],
         rp' = [rp EXCEPT ![p][q][k] = v]
  PROVE  /\ GoodReaderProxies'
         /\ \A a, b \in Participants, j \in Roles :
              rp'[a][b][j] = IF a = p /\ b = q /\ j = k THEN v ELSE rp[a][b][j]
<1>1. rp \in [Participants -> [Participants -> [Roles -> ReaderProxy]]]
  BY DEF GoodReaderProxies
<1>2. rp' \in [Participants -> [Participants -> [Roles -> ReaderProxy]]]
  BY <1>1
<1>3. \A a, b \in Participants, j \in Roles :
        rp'[a][b][j] = IF a = p /\ b = q /\ j = k THEN v ELSE rp[a][b][j]
  BY <1>1
<1>4. ASSUME NEW a \in Participants, NEW b \in Participants, NEW j \in Roles
      PROVE  Entries(rp'[a][b][j]) \subseteq DOMAIN log[a][j]
  <2>1. CASE a = p /\ b = q /\ j = k
    BY <1>3, <2>1
  <2>2. CASE ~(a = p /\ b = q /\ j = k)
    BY <1>3, <2>2 DEF GoodReaderProxies
  <2> QED
    BY <2>1, <2>2
<1> QED
  BY <1>2, <1>3, <1>4 DEF GoodReaderProxies, Entries

LEMMA MatchEndpointTypes ==
  ASSUME TypeInv, IInv', LogGrows, NEW p \in Participants, MatchEndpoint(p)
  PROVE  TypeInv'
<1> DEFINE m == busy[p]
           e == m.endpoint
<1>1. /\ m.type = "SEDP"
      /\ busy' = [busy EXCEPT ![p] = Idle]
      /\ matched' = [matched EXCEPT ![p] =
                       @ \cup {<<l, e>> : l \in {v \in Visited(p, e) : Accepts[<<v, e>>]}}]
      /\ wp' = Record(p, m.from, m.role, m.n, e)
      /\ UNCHANGED <<alive, registered, notify, log, net, peers, rp, db, lost, updates>>
  BY DEF MatchEndpoint, endpointVars, dbVars
<1>2. /\ m.from \in Participants /\ m.role \in Roles /\ m.n \in DOMAIN log[m.from][m.role]
      /\ e = log[m.from][m.role][m.n]
  <2>1. m # Idle
    BY <1>1 DEF Idle
  <2>2. GoodMessage(m)
    BY <2>1 DEF TypeInv, GoodMessages
  <2> QED
    BY <1>1, <2>2 DEF GoodMessage
<1>3. e \in registered
  <2>1. log[m.from][m.role] \in Seq(Created(m.from, m.role))
    BY <1>2 DEF TypeInv, AnnouncedCreated
  <2>2. e \in Created(m.from, m.role)
    BY <1>2, <2>1
  <2> QED
    BY <2>2 DEF Created
<1> HIDE DEF m, e
<1>4. GoodMessages'
  BY <1>1, MessagesStay DEF TypeInv
<1>5. MatchedRegistered'
  <2>1. Visited(p, e) \subseteq registered
    BY DEF Visited, Candidates
  <2> DEFINE V == {v \in Visited(p, e) : Accepts[<<v, e>>]}
             N == {<<l, e>> : l \in V}
  <2>2. N \subseteq registered \X registered
    <3>1. V \subseteq registered
      BY <2>1
    <3> HIDE DEF V
    <3>2. ASSUME NEW x \in N PROVE x \in registered \X registered
      <4>1. PICK l \in V : x = <<l, e>>
        OBVIOUS
      <4> QED
        BY <1>3, <3>1, <4>1
    <3> QED
      BY <3>2
  <2>3. matched' = [matched EXCEPT ![p] = @ \cup N] /\ DOMAIN matched = Participants
    BY <1>1 DEF TypeInv, IInv, Shapes
  <2> HIDE DEF N
  <2>4. ASSUME NEW r \in Participants PROVE matched'[r] \subseteq registered \X registered
    BY <2>2, <2>3 DEF TypeInv, MatchedRegistered
  <2> QED
    BY <1>1, <2>4 DEF MatchedRegistered
<1>6. GoodWriterProxies'
  <2>1. CASE wp' = wp
    BY <2>1, WriterProxiesStay DEF TypeInv
  <2>2. CASE wp' # wp
    <3> DEFINE w == wp[p][m.from][m.role]
               v == ReceivedChangeSet(w, m.n)
    <3>1. wp' = [wp EXCEPT ![p][m.from][m.role] = v]
      BY <1>1, <2>2 DEF Record
    <3>2. w \in WriterProxy /\ Tracked(w) \subseteq DOMAIN log[m.from][m.role]
      BY <1>2 DEF TypeInv, GoodWriterProxies
    <3>3. v \in WriterProxy /\ Tracked(v) \subseteq DOMAIN log[m.from][m.role]
      BY <1>2, <3>2, ReceivedUpdate
    <3> HIDE DEF v
    <3> QED
      BY <1>1, <1>2, <3>1, <3>3, WriterEntry DEF TypeInv
  <2> QED
    BY <2>1, <2>2
<1>7. AnnouncedCreated' /\ OnlyOthers' /\ GoodReaderProxies'
  BY <1>1, CreatedStay, OthersStay, ReaderProxiesStay DEF TypeInv
<1> QED
  BY <1>1, <1>4, <1>5, <1>6, <1>7 DEF TypeInv

\* The WriterProxy after a HEARTBEAT and the answer to it.
LEMMA HeartbeatAnswer ==
  ASSUME TypeInv, NEW p \in Participants, NEW q \in Participants, NEW k \in Roles,
         NEW last \in DOMAIN log[q][k], NEW w, w = MissingChangesUpdate(wp[p][q][k], 1, last)
  PROVE  /\ w \in WriterProxy /\ Tracked(w) \subseteq DOMAIN log[q][k]
         /\ MissingChanges(w) \subseteq DOMAIN log[q][k]
         /\ AckNackBase(w) \in 1..(Len(log[q][k]) + 1)
<1>1. DOMAIN log[q][k] = 1..Len(log[q][k]) /\ Len(log[q][k]) \in Nat
  BY LogNumbers DEF TypeInv
<1>2. wp[p][q][k] \in WriterProxy /\ Tracked(wp[p][q][k]) \subseteq DOMAIN log[q][k]
  BY DEF TypeInv, GoodWriterProxies
<1>3. last \in Nat /\ 1..last \subseteq DOMAIN log[q][k]
  BY <1>1
<1>4. w \in WriterProxy /\ Tracked(w) \subseteq Tracked(wp[p][q][k]) \cup 1..last
  BY <1>2, <1>3, MissingUpdate
<1>5. Tracked(w) \subseteq DOMAIN log[q][k]
  BY <1>2, <1>3, <1>4
<1>6. MissingChanges(w) \subseteq Tracked(w)
  BY DEF MissingChanges, Tracked
<1>7. AckNackBase(w) \in 1..(Len(log[q][k]) + 1)
  BY <1>1, <1>4, <1>5, BaseRange
<1> QED
  BY <1>4, <1>5, <1>6, <1>7

LEMMA ReceiveHeartbeatTypes ==
  ASSUME TypeInv, IInv', LogGrows, NEW p \in Participants, NEW q \in Participants, NEW k \in Roles,
         ReceiveHeartbeat(p, q, k)
  PROVE  TypeInv'
<1>1. PICK m \in net :
        /\ m.type = "HEARTBEAT" /\ m.from = q /\ m.role = k
        /\ IF q \in peers[p]
           THEN /\ wp' = [wp EXCEPT ![p][q][k] = MissingChangesUpdate(wp[p][q][k], 1, m.last)]
                /\ net' \subseteq net \cup
                     {AckNack(p, q, k, AckNackBase(MissingChangesUpdate(wp[p][q][k], 1, m.last)),
                              MissingChanges(MissingChangesUpdate(wp[p][q][k], 1, m.last)))}
           ELSE net' \subseteq net /\ wp' = wp
        /\ UNCHANGED <<alive, registered, notify, log, busy, peers, rp, matched, db, lost, updates>>
  BY DEF ReceiveHeartbeat, Arriving, endpointVars, dbVars
<1> DEFINE w == MissingChangesUpdate(wp[p][q][k], 1, m.last)
<1>2. m.last \in DOMAIN log[q][k]
  BY <1>1 DEF TypeInv, GoodMessages, GoodMessage
<1>3. /\ w \in WriterProxy /\ Tracked(w) \subseteq DOMAIN log[q][k]
      /\ MissingChanges(w) \subseteq DOMAIN log[q][k]
      /\ AckNackBase(w) \in 1..(Len(log[q][k]) + 1)
  BY <1>2, HeartbeatAnswer
<1>4. IF q \in peers[p]
      THEN /\ wp' = [wp EXCEPT ![p][q][k] = w]
           /\ net' \subseteq net \cup {AckNack(p, q, k, AckNackBase(w), MissingChanges(w))}
      ELSE net' \subseteq net /\ wp' = wp
  BY <1>1
<1> HIDE DEF w
<1>5. ASSUME NEW a \in net' \ net
      PROVE  GoodMessage(a)'
  <2>1. q \in peers[p] /\ a = AckNack(p, q, k, AckNackBase(w), MissingChanges(w))
    BY <1>4, <1>5
  <2>2. q # p
    BY <2>1 DEF TypeInv, OnlyOthers
  <2> QED
    BY <1>1, <1>3, <2>1, <2>2 DEF AckNack, GoodMessage
<1>6. GoodMessages'
  BY <1>1, <1>5, MessagesStay DEF TypeInv
<1>7. GoodWriterProxies'
  <2>1. CASE wp' = wp
    BY <2>1, WriterProxiesStay DEF TypeInv
  <2>2. CASE wp' = [wp EXCEPT ![p][q][k] = w]
    BY <1>1, <1>3, <2>2, WriterEntry DEF TypeInv
  <2> QED
    BY <1>4, <2>1, <2>2
<1>8. AnnouncedCreated' /\ OnlyOthers' /\ GoodReaderProxies' /\ MatchedRegistered'
  BY <1>1, CreatedStay, OthersStay, ReaderProxiesStay, MatchedStay DEF TypeInv
<1> QED
  BY <1>1, <1>6, <1>7, <1>8 DEF TypeInv

\* The ReaderProxy after an ACKNACK.
LEMMA AckNackUpdate ==
  ASSUME NEW r \in ReaderProxy, NEW len \in Nat, Entries(r) \subseteq 1..len, NEW base \in Nat,
         NEW set, set \subseteq 1..len,
         NEW s, s = RequestedChangesSet(AckedChangesSet(r, base - 1), set),
         NEW t, t = WithStatus(s, RequestedChanges(s), "Underway")
  PROVE  /\ t \in ReaderProxy /\ Entries(t) \subseteq 1..len
         /\ \A n \in SeqNum : t[n].status = "Acknowledged" =>
              r[n].status = "Acknowledged" \/ (n \in Entries(r) /\ n <= base - 1)
<1> DEFINE A == {n \in Entries(r) : n <= base - 1}
           a == AckedChangesSet(r, base - 1)
<1>1. Restates(a, r, A, "Acknowledged")
  BY StatusChange DEF AckedChangesSet, ChangeForReaderStatusKind
<1> HIDE DEF a, A
<1>2. Restates(s, a, set, "Requested")
  BY <1>1, RequestChange DEF Restates, a
<1>3. Restates(t, s, RequestedChanges(s), "Underway")
  BY <1>2, StatusChange DEF Restates, ChangeForReaderStatusKind
<1>4. Entries(a) \subseteq 1..len
  <2>1. Entries(a) \subseteq Entries(r) \cup A
    BY <1>1, RestatedEntries
  <2> QED
    BY <2>1 DEF A
<1>5. Entries(s) \subseteq 1..len
  BY <1>2, <1>4, RestatedEntries
<1>6. Entries(t) \subseteq 1..len
  <2>1. Entries(t) \subseteq Entries(s) \cup RequestedChanges(s)
    BY <1>3, RestatedEntries
  <2>2. RequestedChanges(s) \subseteq Entries(s)
    BY DEF RequestedChanges, Entries
  <2> QED
    BY <1>5, <2>1, <2>2
<1>7. ASSUME NEW n \in SeqNum, t[n].status = "Acknowledged"
      PROVE  r[n].status = "Acknowledged" \/ (n \in Entries(r) /\ n <= base - 1)
  <2>1. s[n].status = "Acknowledged"
    BY <1>3, <1>7 DEF Restates
  <2>2. a[n].status = "Acknowledged"
    BY <1>2, <2>1 DEF Restates
  <2>3. r[n].status = "Acknowledged" \/ n \in A
    BY <1>1, <2>2 DEF Restates
  <2> QED
    BY <2>3 DEF A
<1>8. t \in ReaderProxy
  BY <1>3 DEF Restates
<1> QED
  BY <1>6, <1>7, <1>8

LEMMA ReceiveAckNackTypes ==
  ASSUME TypeInv, IInv', LogGrows, NEW p \in Participants, NEW q \in Participants, NEW k \in Roles,
         ReceiveAckNack(p, q, k)
  PROVE  TypeInv'
<1> DEFINE s(m) == RequestedChangesSet(AckedChangesSet(rp[p][q][k], m.base - 1), m.set)
           t(m) == WithStatus(s(m), RequestedChanges(s(m)), "Underway")
<1>1. PICK m \in net :
        /\ m.type = "ACKNACK" /\ m.to = p /\ m.role = k
        /\ IF q \in peers[p]
           THEN /\ rp' = [rp EXCEPT ![p][q][k] = t(m)]
                /\ net' \subseteq net \cup Announcements(p, q, k, RequestedChanges(s(m)))
           ELSE net' \subseteq net /\ rp' = rp
        /\ UNCHANGED <<alive, registered, notify, log, busy, peers, wp, matched, db, lost, updates>>
  BY DEF ReceiveAckNack, Arriving, endpointVars, dbVars
<1>2. m.base \in 1..(Len(log[p][k]) + 1) /\ m.set \subseteq DOMAIN log[p][k]
  BY <1>1 DEF TypeInv, GoodMessages, GoodMessage
<1>3. t(m) \in ReaderProxy /\ Entries(t(m)) \subseteq DOMAIN log[p][k]
  <2>1. DOMAIN log[p][k] = 1..Len(log[p][k]) /\ Len(log[p][k]) \in Nat
    BY LogNumbers DEF TypeInv
  <2>2. rp[p][q][k] \in ReaderProxy /\ Entries(rp[p][q][k]) \subseteq DOMAIN log[p][k]
    BY DEF TypeInv, GoodReaderProxies
  <2>3. m.base \in Nat
    BY <1>2, <2>1
  <2> QED
    BY <1>2, <2>1, <2>2, <2>3, AckNackUpdate
<1> DEFINE v == t(m)
           R == RequestedChanges(s(m))
<1>4. /\ v \in ReaderProxy /\ Entries(v) \subseteq DOMAIN log[p][k]
      /\ IF q \in peers[p]
         THEN rp' = [rp EXCEPT ![p][q][k] = v] /\ net' \subseteq net \cup Announcements(p, q, k, R)
         ELSE net' \subseteq net /\ rp' = rp
  BY <1>1, <1>3
<1> HIDE DEF s, t, v, R
<1>5. ASSUME NEW a \in net' \ net
      PROVE  GoodMessage(a)'
  <2>1. q \in peers[p] /\ a \in Announcements(p, q, k, R)
    BY <1>4, <1>5
  <2>2. q # p
    BY <2>1 DEF TypeInv, OnlyOthers
  <2> QED
    BY <1>1, <2>1, <2>2, GoodAnnouncements DEF TypeInv
<1>6. GoodMessages'
  BY <1>1, <1>5, MessagesStay DEF TypeInv
<1>7. GoodReaderProxies'
  <2>1. CASE rp' = rp
    BY <2>1, ReaderProxiesStay DEF TypeInv
  <2>2. CASE rp' = [rp EXCEPT ![p][q][k] = v]
    BY <1>1, <1>4, <2>2, ReaderEntry DEF TypeInv
  <2> QED
    BY <1>4, <2>1, <2>2
<1>8. AnnouncedCreated' /\ OnlyOthers' /\ GoodWriterProxies' /\ MatchedRegistered'
  BY <1>1, CreatedStay, OthersStay, WriterProxiesStay, MatchedStay DEF TypeInv
<1> QED
  BY <1>1, <1>6, <1>7, <1>8 DEF TypeInv

LEMMA LeaseTypes ==
  ASSUME TypeInv, IInv', LogGrows, NEW p \in Participants,
         \/ \E q \in Participants : Silence(p, q) \/ SendDeleteParticipant(p, q)
         \/ CheckParticipantLiveliness(p)
  PROVE  TypeInv'
<1>1. UNCHANGED <<alive, registered, notify, log, net, busy, peers, rp, wp, matched>>
  BY DEF Silence, SendDeleteParticipant, CheckParticipantLiveliness, endpointVars, proxyVars
<1>2. \A q \in Participants : db'[q] \cup lost'[q] \cup updates'[q] \subseteq db[q] \cup lost[q] \cup updates[q]
  <2>1. stale[p] \subseteq db[p]
    BY DEF TypeInv, IInv, StaleIsKnown
  <2>2. CASE CheckParticipantLiveliness(p)
    BY <2>1, <2>2 DEF CheckParticipantLiveliness, TypeInv, IInv, Shapes
  <2>3. ASSUME NEW q \in Participants, Silence(p, q)
        PROVE  UNCHANGED <<db, lost, updates>>
    BY <2>3 DEF Silence
  <2>4. ASSUME NEW q \in Participants, SendDeleteParticipant(p, q)
        PROVE  <1>2
    BY <2>4 DEF SendDeleteParticipant, TypeInv, IInv, Shapes
  <2> QED
    BY <2>2, <2>3, <2>4
<1>3. OnlyOthers'
  BY <1>1, <1>2 DEF TypeInv, OnlyOthers
<1>4. GoodMessages'
  BY <1>1, MessagesStay DEF TypeInv
<1>5. AnnouncedCreated' /\ GoodReaderProxies' /\ GoodWriterProxies' /\ MatchedRegistered'
  BY <1>1, CreatedStay, ReaderProxiesStay, WriterProxiesStay, MatchedStay DEF TypeInv
<1> QED
  BY <1>1, <1>3, <1>4, <1>5 DEF TypeInv

LEMMA RemoveParticipantsTypes ==
  ASSUME TypeInv, IInv', LogGrows, NEW p \in Participants, RemoveParticipants(p)
  PROVE  TypeInv'
<1> DEFINE S == updates[p]
<1>1. /\ updates' = [updates EXCEPT ![p] = {}]
      /\ peers' = [peers EXCEPT ![p] = @ \ S]
      /\ rp' = [rp EXCEPT ![p] = [q \in Participants |->
                  IF q \in S THEN [k \in Roles |-> EmptyReaderProxy] ELSE @[q]]]
      /\ wp' = [wp EXCEPT ![p] = [q \in Participants |->
                  IF q \in S THEN [k \in Roles |-> EmptyWriterProxy] ELSE @[q]]]
      /\ matched' = [matched EXCEPT ![p] = Kept(p, S)]
      /\ UNCHANGED <<alive, registered, notify, log, net, busy, db, lost>>
  BY DEF RemoveParticipants, endpointVars
<1> HIDE DEF S
<1>2. OnlyOthers'
  BY <1>1 DEF TypeInv, OnlyOthers, IInv, Shapes
<1>3. MatchedRegistered'
  BY <1>1 DEF TypeInv, MatchedRegistered, IInv, Shapes, Kept
<1>4. GoodReaderProxies'
  <2> DEFINE f == [k \in Roles |-> EmptyReaderProxy]
             g == [q \in Participants |-> IF q \in S THEN f ELSE rp[p][q]]
  <2>1. f \in [Roles -> ReaderProxy] /\ \A k \in Roles : Entries(f[k]) = {}
    BY EmptyProxies
  <2>2. rp' = [rp EXCEPT ![p] = g]
    BY <1>1
  <2> HIDE DEF f
  <2>3. g \in [Participants -> [Roles -> ReaderProxy]]
    BY <2>1 DEF TypeInv, GoodReaderProxies
  <2>4. \A q \in Participants : g[q] \in {f, rp[p][q]}
    OBVIOUS
  <2> HIDE DEF g
  <2>5. rp' \in [Participants -> [Participants -> [Roles -> ReaderProxy]]]
    BY <2>2, <2>3 DEF TypeInv, GoodReaderProxies
  <2>6. \A a, q \in Participants : rp'[a][q] \in {f, rp[a][q]}
    BY <2>2, <2>4 DEF TypeInv, GoodReaderProxies
  <2> QED
    BY <1>1, <2>1, <2>5, <2>6 DEF TypeInv, GoodReaderProxies
<1>5. GoodWriterProxies'
  <2> DEFINE f == [k \in Roles |-> EmptyWriterProxy]
             g == [q \in Participants |-> IF q \in S THEN f ELSE wp[p][q]]
  <2>1. f \in [Roles -> WriterProxy] /\ \A k \in Roles : Tracked(f[k]) = {}
    BY EmptyProxies
  <2>2. wp' = [wp EXCEPT ![p] = g]
    BY <1>1
  <2> HIDE DEF f
  <2>3. g \in [Participants -> [Roles -> WriterProxy]]
    BY <2>1 DEF TypeInv, GoodWriterProxies
  <2>4. \A q \in Participants : g[q] \in {f, wp[p][q]}
    OBVIOUS
  <2> HIDE DEF g
  <2>5. wp' \in [Participants -> [Participants -> [Roles -> WriterProxy]]]
    BY <2>2, <2>3 DEF TypeInv, GoodWriterProxies
  <2>6. \A a, q \in Participants : wp'[a][q] \in {f, wp[a][q]}
    BY <2>2, <2>4 DEF TypeInv, GoodWriterProxies
  <2> QED
    BY <1>1, <2>1, <2>5, <2>6 DEF TypeInv, GoodWriterProxies
<1>6. GoodMessages'
  BY <1>1, MessagesStay DEF TypeInv
<1>7. AnnouncedCreated'
  BY <1>1, CreatedStay DEF TypeInv
<1> QED
  BY <1>1, <1>2, <1>3, <1>4, <1>5, <1>6, <1>7 DEF TypeInv

LEMMA FailureTypes ==
  ASSUME TypeInv, IInv', LogGrows,
         UNCHANGED vars \/ (\E p \in Participants : Crash(p)) \/ (\E m \in net : Lose(m))
  PROVE  TypeInv'
<1>1. /\ UNCHANGED <<registered, notify, log, busy, peers, rp, wp, matched, db, lost, updates>>
      /\ net' \subseteq net /\ alive' \subseteq alive
  BY DEF vars, Crash, Lose, endpointVars, dbVars, proxyVars
<1>2. GoodMessages'
  BY <1>1, MessagesStay DEF TypeInv
<1>3. /\ AnnouncedCreated' /\ OnlyOthers' /\ GoodReaderProxies' /\ GoodWriterProxies'
      /\ MatchedRegistered'
  BY <1>1, CreatedStay, OthersStay, ReaderProxiesStay, WriterProxiesStay, MatchedStay DEF TypeInv
<1> QED
  BY <1>1, <1>2, <1>3 DEF TypeInv

LEMMA TypesKept == ASSUME TypeInv, [Next]_vars PROVE TypeInv'
<1>1. IInv'
  BY Inductive DEF TypeInv
<1>2. LogGrows
  BY <1>1, LogAppended DEF TypeInv
<1>3. ASSUME NEW p \in Participants, HandleMessage(p)
      PROVE  TypeInv'
  BY <1>1, <1>2, <1>3, ParticipantDiscoveryTypes, MatchEndpointTypes, RemoveParticipantsTypes,
     ReceiveSpdpTypes, ReceiveSedpTypes, ReceiveHeartbeatTypes, ReceiveAckNackTypes DEF HandleMessage
<1>4. ASSUME NEW p \in Participants, (\E k \in Roles : Announce(p, k)) \/ SendSpdp(p)
      PROVE  TypeInv'
  BY <1>1, <1>2, <1>4, SendAnnouncementTypes, PeriodicTypes DEF Announce
<1>5. ASSUME NEW p \in Participants, DiscoveryThread(p) \/ \E q \in Participants : Silence(p, q)
      PROVE  TypeInv'
  BY <1>1, <1>2, <1>5, AnnounceEndpointTypes, LeaseTypes DEF DiscoveryThread
<1> QED
  BY <1>1, <1>2, <1>3, <1>4, <1>5, RegisterEndpointTypes, FailureTypes DEF Next

LEMMA TypesInitially == Init => TypeInv
<1> SUFFICES ASSUME Init PROVE TypeInv
  OBVIOUS
<1>1. IInv
  BY Initially
<1>2. GoodReaderProxies
  BY EmptyProxies DEF Init, GoodReaderProxies
<1>3. GoodWriterProxies
  BY EmptyProxies DEF Init, GoodWriterProxies
<1>4. AnnouncedCreated /\ GoodMessages /\ OnlyOthers /\ MatchedRegistered
  BY DEF Init, AnnouncedCreated, GoodMessages, OnlyOthers, MatchedRegistered
<1> QED
  BY <1>1, <1>2, <1>3, <1>4 DEF TypeInv, Init

\* The types hold for any participants and endpoints: no participant discovers
\* itself, only registered endpoints are matched, and a proxy of either side has
\* an entry only for an announcement that was written (update_cache_state,
\* missing_changes_update, requested_changes_set).
THEOREM TypeCorrect == Spec => []TypeOK
<1>1. TypeInv => TypeOK
  <2> SUFFICES ASSUME TypeInv PROVE TypeOK
    OBVIOUS
  <2>1. ASSUME NEW p \in Participants
        PROVE  /\ stale[p] \subseteq db[p] /\ db[p] \subseteq Others(p)
               /\ lost[p] \cup updates[p] \cup peers[p] \subseteq Others(p)
               /\ matched[p] \subseteq registered \X registered
    BY DEF TypeInv, IInv, Shapes, StaleIsKnown, OnlyOthers, Others, MatchedRegistered
  <2>2. ASSUME NEW p \in Participants, NEW q \in Participants, NEW k \in Roles
        PROVE  /\ rp[p][q][k] \in ReaderProxy
               /\ Entries(rp[p][q][k]) \subseteq DOMAIN log[p][k]
               /\ wp[p][q][k] \in WriterProxy
               /\ {n \in SeqNum : wp[p][q][k][n] # "None"} \subseteq DOMAIN log[q][k]
    BY DEF TypeInv, GoodReaderProxies, GoodWriterProxies, Tracked
  <2> QED
    BY <2>1, <2>2 DEF TypeOK, TypeInv, IInv, Owned
<1> QED
  BY <1>1, TypesInitially, TypesKept, PTL DEF Spec

-----------------------------------------------------------------------------
(* What is acknowledged has been acted on *)

\* Each endpoint is announced once.
Once(s, t) ==
  /\ \A i, j \in DOMAIN s : s[i] = s[j] => i = j
  /\ \A i, j \in DOMAIN t : t[i] = t[j] => i = j
  /\ \A i \in DOMAIN s, j \in DOMAIN t : s[i] # t[j]

AnnouncedOnce == \A p \in Participants, k \in Roles : Once(log[p][k], notify[p][k])

Expired(p, q) == <<p, q>> \in expired

\* A participant whose proxies are about to be deleted has expired.
DeletedExpired ==
  \A p, q \in Participants :
    /\ q \in lost[p] \cup updates[p] => Expired(p, q)
    /\ q \in peers[p] => q \in db[p] \/ Expired(p, q)
    /\ busy[p] # Idle /\ busy[p].type \in {"SPDP", "SEDP"} /\ busy[p].from = q => q \in db[p] \/ Expired(p, q)

Received(q, p, k, n) == wp[q][p][k][n] = "Received"

ActedOn(q, e) == \A l \in Candidates(q, e) : Accepts[<<l, e>>] => <<l, e>> \in matched[q]

\* What a detector has received it has acted on, for a participant it still
\* knows; nothing is Lost.
ReceivedActedOn ==
  \A p, q \in Participants, k \in Roles : \A n \in SeqNum :
    /\ wp[q][p][k][n] # "Lost"
    /\ Received(q, p, k, n) /\ ~Expired(q, p) => p \in peers[q] /\ ActedOn(q, log[p][k][n])

\* What is acknowledged has been received.
AckedReceived ==
  \A p, q \in Participants, k \in Roles : ~Expired(q, p) =>
    /\ \A n \in SeqNum : rp[p][q][k][n].status = "Acknowledged" => Received(q, p, k, n)
    /\ \A m \in net : m.type = "ACKNACK" /\ m.from = q /\ m.to = p /\ m.role = k =>
         \A n \in SeqNum : n \in DOMAIN log[p][k] /\ n < m.base => Received(q, p, k, n)

MatchInv == TypeInv /\ AnnouncedOnce /\ DeletedExpired /\ ReceivedActedOn /\ AckedReceived

\* A participant creates its endpoints before it discovers another one, and at
\* most two of each role; the numbers cover its announcements.
SmallParticipants ==
  /\ ~LateEndpoints
  /\ {1, 2} \subseteq SeqNum
  /\ \A e, f, g \in Endpoints :
       Owner[e] = Owner[f] /\ Owner[f] = Owner[g] /\ Role[e] = Role[f] /\ Role[f] = Role[g]
         => e = f \/ f = g \/ e = g

\* Everything below the base of an ACKNACK was received, if there are at most
\* two announcements and a HEARTBEAT has been seen.
LEMMA BaseReceived ==
  ASSUME NEW w \in WriterProxy, {1, 2} \subseteq SeqNum, NEW len \in {1, 2}, Tracked(w) \subseteq 1..len,
         w[1] # "None", \A i \in SeqNum : w[i] # "Lost",
         NEW n \in 1..len, n < AckNackBase(w)
  PROVE  w[n] = "Received"
<1>1. n \in SeqNum /\ w[n] \in {"Received", "Missing", "None"}
  BY DEF WriterProxy, ChangeFromWriterStatusKind
<1>2. MissingChanges(w) \subseteq 1..len /\ AvailableChanges(w) \subseteq 1..len
  BY DEF MissingChanges, AvailableChanges, Tracked
<1>3. CASE MissingChanges(w) # {}
  <2> DEFINE M == MissingChanges(w)
  <2>1. M \in SUBSET Nat /\ M # {}
    BY <1>2, <1>3
  <2> HIDE DEF M
  <2>2. Min(M) \in M /\ \A m \in M : Min(M) <= m
    BY <2>1, MinNat
  <2>3. n < Min(M)
    BY <1>3 DEF AckNackBase, M
  <2>4. Min(M) \in 1..len
    BY <1>2, <2>2 DEF M
  <2>5. n = 1
    BY <2>3, <2>4
  <2>6. n \notin M
    <3> SUFFICES ASSUME n \in M PROVE FALSE
      OBVIOUS
    <3>1. Min(M) <= n
      BY <2>2
    <3> QED
      BY <2>3, <2>4, <3>1
  <2> QED
    BY <1>1, <2>5, <2>6 DEF M, MissingChanges
<1>4. CASE MissingChanges(w) = {}
  <2>1. w[n] # "Missing"
    BY <1>1, <1>4 DEF MissingChanges
  <2>2. CASE n = 1
    BY <1>1, <2>1, <2>2
  <2>3. CASE n = 2
    <3> DEFINE A == AvailableChanges(w)
    <3>1. n < MaxOrZero(A) + 1
      BY <1>4 DEF AckNackBase, AvailableChangesMax
    <3> HIDE DEF A
    <3>2. A # {} /\ MaxOrZero(A) = Max(A)
      BY <2>3, <3>1 DEF MaxOrZero
    <3>3. A \in SUBSET Nat /\ len \in Nat /\ \A m \in A : m <= len
      BY <1>2 DEF A
    <3>4. Max(A) \in A
      BY <3>2, <3>3, MaxNat
    <3>5. Max(A) \in 1..len
      BY <1>2, <3>4 DEF A
    <3>6. Max(A) = 2
      BY <2>3, <3>1, <3>2, <3>5
    <3> QED
      BY <1>1, <2>3, <3>4, <3>6 DEF A, AvailableChanges
  <2> QED
    BY <2>2, <2>3
<1> QED
  BY <1>3, <1>4

\* A log holds at most two announcements.
LEMMA ShortLog ==
  ASSUME SmallParticipants, TypeInv, AnnouncedOnce, NEW p \in Participants, NEW k \in Roles
  PROVE  Len(log[p][k]) <= 2
<1>1. /\ DOMAIN log[p][k] = 1..Len(log[p][k]) /\ Len(log[p][k]) \in Nat
  BY LogNumbers DEF TypeInv
<1> SUFFICES ASSUME 3 <= Len(log[p][k]) PROVE FALSE
  BY <1>1
<1> DEFINE s == log[p][k]
<1>2. s \in Seq(Created(p, k)) /\ \A i, j \in DOMAIN s : s[i] = s[j] => i = j
  BY DEF TypeInv, AnnouncedCreated, AnnouncedOnce, Once
<1>3. 1 \in DOMAIN s /\ 2 \in DOMAIN s /\ 3 \in DOMAIN s
  BY <1>1
<1>4. \A i \in DOMAIN s : s[i] \in Created(p, k)
  BY <1>2
<1> HIDE DEF s
<1>5. \A i \in DOMAIN s : s[i] \in Endpoints /\ Owner[s[i]] = p /\ Role[s[i]] = k
  BY <1>4 DEF Created, TypeInv, IInv, Owned
<1>6. s[1] = s[2] \/ s[2] = s[3] \/ s[1] = s[3]
  BY <1>3, <1>5 DEF SmallParticipants
<1> QED
  BY <1>2, <1>3, <1>6

\* Moving the head of one sequence to the end of another keeps them distinct.
LEMMA OnceMoved ==
  ASSUME NEW S, NEW s \in Seq(S), NEW t \in Seq(S), t # << >>, Once(s, t)
  PROVE  Once(Append(s, Head(t)), Tail(t))
<1> DEFINE a == Append(s, Head(t))
           b == Tail(t)
<1>1. /\ Len(s) \in Nat /\ DOMAIN s = 1..Len(s) /\ Len(t) \in Nat /\ DOMAIN t = 1..Len(t)
      /\ Len(t) >= 1
  OBVIOUS
<1>2. /\ DOMAIN a = 1..(Len(s) + 1) /\ DOMAIN b = 1..(Len(t) - 1)
      /\ \A i \in DOMAIN s : a[i] = s[i]
      /\ a[Len(s) + 1] = t[1]
      /\ \A i \in DOMAIN b : b[i] = t[i + 1] /\ i + 1 \in DOMAIN t /\ i + 1 # 1
  BY <1>1
<1>3. 1 \in DOMAIN t
  BY <1>1
<1> HIDE DEF a, b
<1>4. \A i \in DOMAIN a : i \in DOMAIN s \/ i = Len(s) + 1
  BY <1>1, <1>2
<1>5. \A i, j \in DOMAIN a : a[i] = a[j] => i = j
  BY <1>2, <1>3, <1>4 DEF Once
<1>6. \A i, j \in DOMAIN b : b[i] = b[j] => i = j
  <2> TAKE i, j \in DOMAIN b
  <2> HAVE b[i] = b[j]
  <2>1. t[i + 1] = t[j + 1] /\ i + 1 \in DOMAIN t /\ j + 1 \in DOMAIN t
    BY <1>2
  <2>2. i + 1 = j + 1
    BY <2>1 DEF Once
  <2> QED
    BY <1>1, <1>2, <2>2
<1>7. \A i \in DOMAIN a, j \in DOMAIN b : a[i] # b[j]
  BY <1>2, <1>3, <1>4 DEF Once
<1> QED
  BY <1>5, <1>6, <1>7 DEF Once, a, b

LEMMA OnceAppended ==
  ASSUME NEW S, NEW s \in Seq(S), NEW t \in Seq(S), Once(s, t), NEW e, e \notin S
  PROVE  Once(s, Append(t, e))
<1> DEFINE b == Append(t, e)
<1>1. /\ DOMAIN b = DOMAIN t \cup {Len(t) + 1}
      /\ \A i \in DOMAIN t : b[i] = t[i] /\ t[i] \in S
      /\ \A i \in DOMAIN s : s[i] \in S
      /\ b[Len(t) + 1] = e
  OBVIOUS
<1> HIDE DEF b
<1> QED
  BY <1>1 DEF Once, b

\* Endpoints are created and announced by two actions only; the history of
\* expired leases only grows.
LEMMA StepCases ==
  ASSUME [Next]_vars
  PROVE  /\ \/ \E e \in Endpoints : RegisterEndpoint(e)
            \/ \E p \in Participants, k \in Roles : AnnounceEndpoint(p, k)
            \/ UNCHANGED <<registered, notify, log>>
         /\ expired \subseteq expired'
<1>1. CASE UNCHANGED vars
  BY <1>1 DEF vars, endpointVars, dbVars
<1>2. CASE \E e \in Endpoints : RegisterEndpoint(e)
  BY <1>2 DEF RegisterEndpoint, dbVars
<1>3. CASE \E p \in Participants, k \in Roles : AnnounceEndpoint(p, k)
  BY <1>3 DEF AnnounceEndpoint, dbVars
<1>4. CASE \E p \in Participants : ParticipantDiscovery(p) \/ MatchEndpoint(p) \/ RemoveParticipants(p)
  BY <1>4 DEF ParticipantDiscovery, MatchEndpoint, RemoveParticipants, endpointVars, dbVars
<1>5. CASE \E p, q \in Participants : ReceiveSpdp(p, q)
  BY <1>5 DEF ReceiveSpdp, endpointVars
<1>6. CASE \E p, q \in Participants, k \in Roles :
             ReceiveSedp(p, q, k) \/ ReceiveHeartbeat(p, q, k) \/ ReceiveAckNack(p, q, k)
  <2>1. UNCHANGED endpointVars /\ UNCHANGED dbVars
    <3>1. ASSUME NEW p, NEW q, NEW k, ReceiveSedp(p, q, k) \/ ReceiveHeartbeat(p, q, k)
          PROVE  <2>1
      BY <3>1 DEF ReceiveSedp, ReceiveHeartbeat
    <3>2. ASSUME NEW p, NEW q, NEW k, ReceiveAckNack(p, q, k)
          PROVE  <2>1
      BY <3>2 DEF ReceiveAckNack
    <3> QED
      BY <1>6, <3>1, <3>2
  <2> QED
    BY <2>1 DEF endpointVars, dbVars
<1>7. CASE \E p \in Participants : SendSpdp(p) \/ Crash(p) \/ \E k \in Roles : Announce(p, k)
  BY <1>7 DEF SendSpdp, Crash, Announce, SendAnnouncement, SendSedpHeartbeat, endpointVars, dbVars
<1>8. CASE \E p \in Participants :
             \/ CheckParticipantLiveliness(p)
             \/ \E q \in Participants : Silence(p, q) \/ SendDeleteParticipant(p, q)
  BY <1>8 DEF CheckParticipantLiveliness, Silence, SendDeleteParticipant, endpointVars
<1>9. CASE \E m \in net : Lose(m)
  BY <1>9 DEF Lose, endpointVars, dbVars
<1> QED
  BY <1>1, <1>2, <1>3, <1>4, <1>5, <1>6, <1>7, <1>8, <1>9 DEF Next, HandleMessage, DiscoveryThread

LEMMA OnceKept == ASSUME TypeInv, AnnouncedOnce, [Next]_vars PROVE AnnouncedOnce'
<1>1. CASE UNCHANGED <<log, notify>>
  BY <1>1 DEF AnnouncedOnce
<1>2. ASSUME NEW e \in Endpoints, RegisterEndpoint(e)
      PROVE  AnnouncedOnce'
  <2>1. /\ log' = log /\ notify' = [notify EXCEPT ![Owner[e]][Role[e]] = Append(@, e)]
        /\ e \notin registered
    BY <1>2 DEF RegisterEndpoint
  <2>2. ASSUME NEW p \in Participants, NEW k \in Roles
        PROVE  Once(log'[p][k], notify'[p][k])
    <3>1. /\ Once(log[p][k], notify[p][k])
          /\ log[p][k] \in Seq(Created(p, k)) /\ notify[p][k] \in Seq(Created(p, k))
      BY DEF TypeInv, AnnouncedOnce, AnnouncedCreated
    <3>2. e \notin Created(p, k)
      BY <2>1 DEF Created
    <3>3. notify'[p][k] \in {notify[p][k], Append(notify[p][k], e)}
      BY <2>1 DEF TypeInv, IInv, Owned
    <3>4. Once(log[p][k], Append(notify[p][k], e))
      BY <3>1, <3>2, OnceAppended
    <3> QED
      BY <2>1, <3>1, <3>3, <3>4
  <2> QED
    BY <2>2 DEF AnnouncedOnce, Once
<1>3. ASSUME NEW a \in Participants, NEW j \in Roles, AnnounceEndpoint(a, j)
      PROVE  AnnouncedOnce'
  <2>1. /\ notify[a][j] # << >>
        /\ log' = [log EXCEPT ![a][j] = Append(@, Head(notify[a][j]))]
        /\ notify' = [notify EXCEPT ![a][j] = Tail(@)]
    BY <1>3 DEF AnnounceEndpoint
  <2>2. ASSUME NEW p \in Participants, NEW k \in Roles
        PROVE  Once(log'[p][k], notify'[p][k])
    <3>1. /\ Once(log[p][k], notify[p][k])
          /\ log[p][k] \in Seq(Created(p, k)) /\ notify[p][k] \in Seq(Created(p, k))
      BY DEF TypeInv, AnnouncedOnce, AnnouncedCreated
    <3>2. CASE p = a /\ k = j
      <4>1. /\ log'[p][k] = Append(log[p][k], Head(notify[p][k]))
            /\ notify'[p][k] = Tail(notify[p][k])
        BY <2>1, <3>2 DEF TypeInv, IInv, Owned
      <4>2. notify[p][k] # << >>
        BY <2>1, <3>2
      <4>3. Once(Append(log[p][k], Head(notify[p][k])), Tail(notify[p][k]))
        BY <3>1, <4>2, OnceMoved
      <4> QED
        BY <4>1, <4>3
    <3>3. CASE ~(p = a /\ k = j)
      <4>1. log'[p][k] = log[p][k] /\ notify'[p][k] = notify[p][k]
        BY <2>1, <3>3 DEF TypeInv, IInv, Owned
      <4> QED
        BY <3>1, <4>1
    <3> QED
      BY <3>2, <3>3
  <2> QED
    BY <2>2 DEF AnnouncedOnce, Once
<1> QED
  BY <1>1, <1>2, <1>3, StepCases

LEMMA ExpiredStays ==
  ASSUME DeletedExpired, expired \subseteq expired', UNCHANGED <<db, lost, updates, peers, busy>>
  PROVE  DeletedExpired'
BY DEF DeletedExpired, Expired

LEMMA DeletedKept == ASSUME TypeInv, DeletedExpired, [Next]_vars PROVE DeletedExpired'
<1>1. expired \subseteq expired'
  BY StepCases
<1>2. /\ db \in [Participants -> SUBSET Participants] /\ lost \in [Participants -> SUBSET Participants]
      /\ updates \in [Participants -> SUBSET Participants]
      /\ peers \in [Participants -> SUBSET Participants]
      /\ DOMAIN busy = Participants
  BY DEF TypeInv, IInv, Shapes
<1>3. Idle.type \notin {"SPDP", "SEDP"}
  BY DEF Idle
<1>4. ASSUME NEW p \in Participants, CheckParticipantLiveliness(p)
      PROVE  DeletedExpired'
  <2>1. /\ db' = [db EXCEPT ![p] = @ \ stale[p]]
        /\ lost' = [lost EXCEPT ![p] = stale[p]]
        /\ expired' = expired \cup {<<p, q>> : q \in stale[p]}
        /\ UNCHANGED <<updates, peers, busy>>
    BY <1>4 DEF CheckParticipantLiveliness, proxyVars
  <2>2. \A q \in stale[p] : Expired(p, q)'
    BY <2>1 DEF Expired
  <2>3. \A r, q \in Participants : Expired(r, q) => Expired(r, q)'
    BY <1>1 DEF Expired
  <2> QED
    BY <1>2, <2>1, <2>2, <2>3 DEF DeletedExpired
<1>5. ASSUME NEW p \in Participants, NEW q \in Participants, SendDeleteParticipant(p, q)
      PROVE  DeletedExpired'
  <2>1. /\ lost' = [lost EXCEPT ![p] = @ \ {q}] /\ q \in lost[p]
        /\ updates' = [updates EXCEPT ![p] = @ \cup {q}]
        /\ UNCHANGED <<db, expired, peers, busy>>
    BY <1>5 DEF SendDeleteParticipant, proxyVars
  <2> QED
    BY <1>2, <2>1 DEF DeletedExpired, Expired
<1>6. ASSUME NEW p \in Participants, RemoveParticipants(p)
      PROVE  DeletedExpired'
  <2>1. /\ updates' = [updates EXCEPT ![p] = {}]
        /\ peers' = [peers EXCEPT ![p] = @ \ updates[p]]
        /\ UNCHANGED <<db, lost, expired, busy>>
    BY <1>6 DEF RemoveParticipants
  <2> QED
    BY <1>2, <2>1 DEF DeletedExpired, Expired
<1>7. ASSUME NEW p \in Participants, ParticipantDiscovery(p)
      PROVE  DeletedExpired'
  <2>1. /\ busy[p].type = "SPDP" /\ busy' = [busy EXCEPT ![p] = Idle]
        /\ peers' = [peers EXCEPT ![p] = @ \cup {busy[p].from}]
        /\ UNCHANGED <<db, lost, updates, expired>>
    BY <1>7 DEF ParticipantDiscovery, dbVars
  <2>2. busy[p] # Idle
    BY <1>3, <2>1
  <2>3. busy[p].from \in Participants
    BY <2>2 DEF TypeInv, GoodMessages, GoodMessage
  <2>4. busy[p].from \in db[p] \/ Expired(p, busy[p].from)
    BY <2>1, <2>2, <2>3 DEF DeletedExpired
  <2> QED
    BY <1>2, <2>1, <2>4 DEF DeletedExpired, Expired
<1>8. ASSUME NEW p \in Participants, MatchEndpoint(p)
      PROVE  DeletedExpired'
  <2>1. /\ busy' = [busy EXCEPT ![p] = Idle] /\ UNCHANGED <<db, lost, updates, expired, peers>>
    BY <1>8 DEF MatchEndpoint, dbVars
  <2> QED
    BY <1>2, <2>1 DEF DeletedExpired, Expired
<1>9. ASSUME NEW p \in Participants, NEW q \in Participants, ReceiveSpdp(p, q)
      PROVE  DeletedExpired'
  <2>1. /\ db' = [db EXCEPT ![p] = @ \cup {q}] /\ busy' = [busy EXCEPT ![p] = Spdp(q, p)]
        /\ UNCHANGED <<lost, updates, expired, peers>>
    BY <1>9 DEF ReceiveSpdp, proxyVars
  <2>2. Spdp(q, p).from = q
    BY DEF Spdp
  <2> QED
    BY <1>2, <2>1, <2>2 DEF DeletedExpired, Expired
<1>10. ASSUME NEW p \in Participants, NEW q \in Participants, NEW k \in Roles, ReceiveSedp(p, q, k)
       PROVE  DeletedExpired'
  <2>1. PICK m \in net :
          /\ m.from = q /\ busy' = [busy EXCEPT ![p] = IF q \in db[p] THEN m ELSE Idle]
          /\ UNCHANGED <<db, lost, updates, expired, peers>>
    BY <1>10 DEF ReceiveSedp, KnownParticipant, dbVars, proxyVars
  <2> QED
    BY <1>2, <2>1 DEF DeletedExpired, Expired
<1>11. CASE UNCHANGED <<db, lost, updates, peers, busy>>
  BY <1>1, <1>11, ExpiredStays
<1>12. ASSUME NEW p \in Participants, NEW q \in Participants, NEW k \in Roles,
              ReceiveHeartbeat(p, q, k) \/ ReceiveAckNack(p, q, k)
       PROVE  UNCHANGED <<db, lost, updates, peers, busy>>
  <2>1. UNCHANGED dbVars /\ UNCHANGED <<peers, busy>>
    BY <1>12 DEF ReceiveHeartbeat, ReceiveAckNack
  <2> QED
    BY <2>1 DEF dbVars
<1>13. ASSUME NEW p \in Participants,
              \/ SendSpdp(p) \/ Crash(p)
              \/ \E k \in Roles : Announce(p, k) \/ AnnounceEndpoint(p, k)
              \/ \E q \in Participants : Silence(p, q)
       PROVE  UNCHANGED <<db, lost, updates, peers, busy>>
  BY <1>13 DEF SendSpdp, Crash, Announce, SendAnnouncement, SendSedpHeartbeat, AnnounceEndpoint,
     Silence, dbVars, proxyVars
<1>14. CASE UNCHANGED vars \/ (\E e \in Endpoints : RegisterEndpoint(e)) \/ \E m \in net : Lose(m)
  <2>1. UNCHANGED <<db, lost, updates, peers, busy>>
    BY <1>14 DEF vars, RegisterEndpoint, Lose, dbVars, proxyVars
  <2> QED
    BY <1>11, <2>1
<1> QED
  BY <1>4, <1>5, <1>6, <1>7, <1>8, <1>9, <1>10, <1>11, <1>12, <1>13, <1>14
     DEF Next, HandleMessage, DiscoveryThread

-----------------------------------------------------------------------------

\* What is received stays received until the lease of its sender runs out.
ReceivedStays ==
  \A p, q \in Participants, k \in Roles : \A n \in SeqNum :
    Received(q, p, k, n) /\ ~Expired(q, p)' => Received(q, p, k, n)'

\* An ACKNACK acknowledges nothing that its sender has not received.
Truthful(m) ==
  \A n \in SeqNum : n \in DOMAIN log[m.to][m.role] /\ n < m.base /\ ~Expired(m.from, m.to)
                      => Received(m.from, m.to, m.role, n)

LEMMA AckedStay ==
  ASSUME MatchInv, LogGrows, expired \subseteq expired', ReceivedStays,
         \A p, q \in Participants, k \in Roles : \A n \in SeqNum :
           rp'[p][q][k][n].status = "Acknowledged" /\ ~Expired(q, p) =>
             rp[p][q][k][n].status = "Acknowledged" \/ Received(q, p, k, n),
         \A m \in net' \ net : m.type = "ACKNACK" => Truthful(m)'
  PROVE  AckedReceived'
<1> SUFFICES ASSUME NEW p \in Participants, NEW q \in Participants, NEW k \in Roles, ~Expired(q, p)'
             PROVE  /\ \A n \in SeqNum :
                         rp'[p][q][k][n].status = "Acknowledged" => Received(q, p, k, n)'
                    /\ \A m \in net' : m.type = "ACKNACK" /\ m.from = q /\ m.to = p /\ m.role = k =>
                         \A n \in SeqNum :
                           n \in DOMAIN log'[p][k] /\ n < m.base => Received(q, p, k, n)'
  BY DEF AckedReceived
<1>1. ~Expired(q, p)
  BY DEF Expired
<1>2. ASSUME NEW n \in SeqNum, rp'[p][q][k][n].status = "Acknowledged"
      PROVE  Received(q, p, k, n)'
  BY <1>1, <1>2 DEF MatchInv, AckedReceived, ReceivedStays
<1>3. ASSUME NEW m \in net', m.type = "ACKNACK", m.from = q, m.to = p, m.role = k,
             NEW n \in SeqNum, n \in DOMAIN log'[p][k], n < m.base
      PROVE  Received(q, p, k, n)'
  <2>1. CASE m \notin net
    BY <1>3, <2>1 DEF Truthful
  <2>2. CASE m \in net
    <3>1. m \in net /\ GoodMessage(m)
      BY <1>3, <2>2 DEF MatchInv, TypeInv, GoodMessages
    <3>2. m.base \in 1..(Len(log[p][k]) + 1)
      BY <1>3, <3>1 DEF GoodMessage
    <3>3. n \in DOMAIN log[p][k]
      <4>1. DOMAIN log[p][k] = 1..Len(log[p][k]) /\ Len(log[p][k]) \in Nat
        BY LogNumbers DEF MatchInv, TypeInv
      <4>2. n \in Nat \ {0}
        BY SeqNumAssumption
      <4> QED
        BY <1>3, <3>2, <4>1, <4>2
    <3>4. Received(q, p, k, n)
      BY <1>1, <1>3, <3>1, <3>3 DEF MatchInv, AckedReceived
    <3> QED
      BY <3>4 DEF ReceivedStays
  <2> QED
    BY <2>1, <2>2
<1> QED
  BY <1>2, <1>3

LEMMA AnnouncementType ==
  ASSUME NEW p, NEW q, NEW k, NEW S PROVE \A m \in Announcements(p, q, k, S) : m.type = "SEDP"
BY DEF Announcements, Sedp

LEMMA ActedOnStay ==
  ASSUME MatchInv, LogGrows, registered' = registered, expired \subseteq expired',
         \A p, q \in Participants, k \in Roles : \A n \in SeqNum :
           /\ wp'[q][p][k][n] # "Lost"
           /\ Received(q, p, k, n)' /\ ~Expired(q, p)' => Received(q, p, k, n) /\ p \in peers'[q],
         \A p, q \in Participants : ~Expired(q, p)' =>
           \A x \in matched[q] : Owner[x[2]] = p => x \in matched'[q]
  PROVE  ReceivedActedOn'
<1> SUFFICES ASSUME NEW p \in Participants, NEW q \in Participants, NEW k \in Roles, NEW n \in SeqNum,
                    Received(q, p, k, n)', ~Expired(q, p)'
             PROVE  ActedOn(q, log[p][k][n])'
  BY DEF ReceivedActedOn
<1>1. Received(q, p, k, n) /\ ~Expired(q, p)
  BY DEF Expired
<1>2. ActedOn(q, log[p][k][n])
  BY <1>1 DEF MatchInv, ReceivedActedOn
<1>3. n \in DOMAIN log[p][k]
  BY <1>1 DEF MatchInv, TypeInv, GoodWriterProxies, Tracked, Received
<1>4. log'[p][k][n] = log[p][k][n]
  BY <1>3 DEF LogGrows
<1>5. Owner[log[p][k][n]] = p
  <2>1. log[p][k] \in Seq(Created(p, k))
    BY DEF MatchInv, TypeInv, AnnouncedCreated
  <2>2. log[p][k][n] \in Created(p, k)
    BY <1>3, <2>1
  <2> QED
    BY <2>2 DEF Created
<1> PICK e : e = log[p][k][n]
  OBVIOUS
<1>6. Owner[e] = p /\ ActedOn(q, e)
  BY <1>2, <1>5
<1>7. ASSUME NEW l \in Candidates(q, e)', Accepts[<<l, e>>]
      PROVE  <<l, e>> \in matched'[q]
  <2>1. l \in Candidates(q, e)
    BY <1>7 DEF Candidates
  <2>2. <<l, e>> \in matched[q]
    BY <1>6, <1>7, <2>1 DEF ActedOn
  <2> QED
    BY <1>6, <2>2
<1>8. \A l \in Candidates(q, e)' : Accepts[<<l, e>>] => <<l, e>> \in matched'[q]
  BY <1>7
<1> QED
  BY <1>4, <1>8 DEF ActedOn, Candidates

\* The steps that touch none of the detector's side.
LEMMA ProxiesUntouched ==
  ASSUME MatchInv, LogGrows, registered' = registered, expired \subseteq expired',
         UNCHANGED <<wp, peers, matched>>
  PROVE  ReceivedActedOn' /\ ReceivedStays
<1>1. ReceivedStays
  BY DEF ReceivedStays, Received
<1>2. \A p, q \in Participants, k \in Roles : \A n \in SeqNum :
        /\ wp'[q][p][k][n] # "Lost"
        /\ Received(q, p, k, n)' /\ ~Expired(q, p)' => Received(q, p, k, n) /\ p \in peers'[q]
  BY DEF MatchInv, ReceivedActedOn, Received, Expired
<1>3. \A p, q \in Participants : ~Expired(q, p)' =>
        \A x \in matched[q] : Owner[x[2]] = p => x \in matched'[q]
  OBVIOUS
<1> QED
  BY <1>1, <1>2, <1>3, ActedOnStay

\* No endpoint is created late: nothing has been received that it could match.
LEMMA RegisterEndpointActs ==
  ASSUME SmallParticipants, MatchInv, LogGrows, NEW e \in Endpoints, RegisterEndpoint(e)
  PROVE  ReceivedActedOn' /\ AckedReceived'
<1>1. /\ Undisturbed(Owner[e]) /\ registered' = registered \cup {e}
      /\ UNCHANGED <<log, rp, wp, net, peers, matched, expired>>
  BY DEF RegisterEndpoint, SmallParticipants, dbVars, proxyVars
<1>2. AckedReceived'
  <2>1. ReceivedStays
    BY <1>1 DEF ReceivedStays, Received
  <2> QED
    BY <1>1, <2>1, AckedStay
<1>3. ASSUME NEW p \in Participants, NEW q \in Participants, NEW k \in Roles, NEW n \in SeqNum,
             Received(q, p, k, n), ~Expired(q, p)
      PROVE  p \in peers[q] /\ ActedOn(q, log[p][k][n]) /\ q # Owner[e]
  <2>1. p \in peers[q] /\ ActedOn(q, log[p][k][n])
    BY <1>3 DEF MatchInv, ReceivedActedOn
  <2>2. p \in db[q]
    BY <1>3, <2>1 DEF MatchInv, DeletedExpired
  <2> QED
    BY <1>1, <2>1, <2>2 DEF Undisturbed
<1>4. ASSUME NEW q \in Participants, q # Owner[e], NEW f
      PROVE  Candidates(q, f)' = Candidates(q, f)
  BY <1>1, <1>4 DEF Candidates
<1>5. ASSUME NEW p \in Participants, NEW q \in Participants, NEW k \in Roles, NEW n \in SeqNum
      PROVE  /\ wp[q][p][k][n] # "Lost"
             /\ Received(q, p, k, n) /\ ~Expired(q, p) => p \in peers[q] /\ ActedOn(q, log[p][k][n])'
  <2>1. wp[q][p][k][n] # "Lost"
    BY DEF MatchInv, ReceivedActedOn
  <2>2. ASSUME Received(q, p, k, n), ~Expired(q, p)
        PROVE  p \in peers[q] /\ ActedOn(q, log[p][k][n])'
    <3> DEFINE f == log[p][k][n]
    <3>1. p \in peers[q] /\ ActedOn(q, f) /\ Candidates(q, f)' = Candidates(q, f) /\ log' = log
      BY <1>1, <1>3, <1>4, <2>2
    <3> QED
      BY <1>1, <3>1 DEF ActedOn
  <2> QED
    BY <2>1, <2>2
<1>6. ReceivedActedOn'
  BY <1>1, <1>5 DEF ReceivedActedOn, Received, Expired
<1> QED
  BY <1>2, <1>6

LEMMA OtherActs ==
  ASSUME MatchInv, LogGrows, UNCHANGED <<registered, rp, wp, peers, matched>>,
         expired \subseteq expired', \A m \in net' \ net : m.type # "ACKNACK"
  PROVE  ReceivedActedOn' /\ AckedReceived'
<1>1. ReceivedActedOn' /\ ReceivedStays
  BY ProxiesUntouched
<1> QED
  BY <1>1, AckedStay

LEMMA SendAnnouncementActs ==
  ASSUME MatchInv, LogGrows, NEW p \in Participants, NEW k \in Roles, SendAnnouncement(p, k)
  PROVE  ReceivedActedOn' /\ AckedReceived'
<1> DEFINE new    == {n \in DOMAIN log[p][k] : n > sent[p][k]}
           now(q) == UpdateCacheState(rp[p][q][k], new, LAMBDA n : TRUE, "Unsent")
           then(q) == WithStatus(now(q), UnsentChanges(now(q)), "Underway")
<1>1. /\ UNCHANGED <<registered, peers, wp, matched, expired>>
      /\ rp' = [rp EXCEPT ![p] = [q \in Participants |->
                  IF q \in peers[p] THEN [@[q] EXCEPT ![k] = then(q)] ELSE @[q]]]
      /\ net' = net \cup Arriving(UNION {Announcements(p, q, k, UnsentChanges(now(q))) :
                                         q \in peers[p]})
  BY DEF SendAnnouncement, dbVars
<1>2. rp \in [Participants -> [Participants -> [Roles -> ReaderProxy]]]
  BY DEF MatchInv, TypeInv, GoodReaderProxies
<1>3. ASSUME NEW q \in Participants, NEW n \in SeqNum, then(q)[n].status = "Acknowledged"
      PROVE  rp[p][q][k][n].status = "Acknowledged"
  <2>1. rp[p][q][k] \in ReaderProxy
    BY <1>2
  <2>2. Restates(now(q), rp[p][q][k], new, "Unsent")
    BY <2>1, UnsentChange
  <2> HIDE DEF now
  <2>3. Restates(then(q), now(q), UnsentChanges(now(q)), "Underway")
    BY <2>2, StatusChange DEF Restates, ChangeForReaderStatusKind
  <2> HIDE DEF then, new
  <2>4. now(q)[n].status = "Acknowledged"
    BY <1>3, <2>3 DEF Restates
  <2> QED
    BY <2>2, <2>4 DEF Restates
<1>4. \A m \in net' \ net : m.type # "ACKNACK"
  <2> SUFFICES ASSUME NEW m \in net' \ net PROVE m.type # "ACKNACK"
    OBVIOUS
  <2>1. PICK q \in peers[p] : m \in Announcements(p, q, k, UnsentChanges(now(q)))
    BY <1>1 DEF Arriving
  <2> QED
    BY <2>1, AnnouncementType
<1> HIDE DEF then, now, new
<1>5. ASSUME NEW a \in Participants, NEW q \in Participants, NEW j \in Roles
      PROVE  /\ rp'[a][q][j] \in {rp[a][q][j], then(q)}
             /\ rp'[a][q][j] # rp[a][q][j] => a = p /\ j = k
  BY <1>1, <1>2
<1>6. \A a, q \in Participants, j \in Roles : \A n \in SeqNum :
        rp'[a][q][j][n].status = "Acknowledged" => rp[a][q][j][n].status = "Acknowledged"
  BY <1>3, <1>5
<1>7. ReceivedActedOn' /\ ReceivedStays
  BY <1>1, ProxiesUntouched
<1> QED
  BY <1>1, <1>4, <1>6, <1>7, AckedStay

LEMMA ParticipantDiscoveryActs ==
  ASSUME MatchInv, LogGrows, NEW p \in Participants, ParticipantDiscovery(p)
  PROVE  ReceivedActedOn' /\ AckedReceived'
<1> DEFINE q == busy[p].from
           f == [k \in Roles |-> NewSedpReaderProxy(p, k)]
           g == [k \in Roles |-> EmptyWriterProxy]
<1>1. /\ peers' = [peers EXCEPT ![p] = @ \cup {q}]
      /\ IF q \in peers[p] THEN rp' = rp /\ wp' = wp
         ELSE rp' = [rp EXCEPT ![p][q] = f] /\ wp' = [wp EXCEPT ![p][q] = g]
      /\ UNCHANGED <<registered, log, net, matched, expired>>
  BY DEF ParticipantDiscovery, endpointVars, dbVars
<1>2. q \in Participants
  <2>1. busy[p] # Idle
    BY DEF ParticipantDiscovery, Idle
  <2> QED
    BY <2>1 DEF MatchInv, TypeInv, GoodMessages, GoodMessage
<1>3. /\ \A k \in Roles : \A n \in SeqNum : f[k][n].status # "Acknowledged"
      /\ \A k \in Roles : \A n \in SeqNum : g[k][n] = "None"
  BY NewProxies DEF EmptyWriterProxy
<1>4. /\ rp \in [Participants -> [Participants -> [Roles -> ReaderProxy]]]
      /\ wp \in [Participants -> [Participants -> [Roles -> WriterProxy]]]
      /\ peers \in [Participants -> SUBSET Participants]
  BY DEF MatchInv, TypeInv, GoodReaderProxies, GoodWriterProxies, IInv, Shapes
<1> HIDE DEF f, g, q
<1>5. ASSUME NEW a \in Participants, NEW b \in Participants
      PROVE  /\ rp'[a][b] = rp[a][b] \/ (rp'[a][b] = f /\ wp'[a][b] = g)
             /\ wp'[a][b] = wp[a][b] \/ (wp'[a][b] = g /\ b \notin peers[a])
             /\ peers[a] \subseteq peers'[a]
  BY <1>1, <1>2, <1>4
<1>6. ReceivedStays
  <2> SUFFICES ASSUME NEW b \in Participants, NEW a \in Participants, NEW k \in Roles, NEW n \in SeqNum,
                      Received(a, b, k, n), ~Expired(a, b)'
               PROVE  Received(a, b, k, n)'
    BY DEF ReceivedStays
  <2>1. b \in peers[a]
    BY <1>1 DEF MatchInv, ReceivedActedOn, Expired
  <2> QED
    BY <1>5, <2>1 DEF Received
<1>7. ReceivedActedOn'
  <2>1. \A b, a \in Participants, k \in Roles : \A n \in SeqNum :
          /\ wp'[a][b][k][n] # "Lost"
          /\ Received(a, b, k, n)' /\ ~Expired(a, b)' => Received(a, b, k, n) /\ b \in peers'[a]
    <3> SUFFICES ASSUME NEW b \in Participants, NEW a \in Participants, NEW k \in Roles, NEW n \in SeqNum
                 PROVE  /\ wp'[a][b][k][n] # "Lost"
                        /\ Received(a, b, k, n)' /\ ~Expired(a, b)'
                             => Received(a, b, k, n) /\ b \in peers'[a]
      OBVIOUS
    <3>1. /\ wp[a][b][k][n] # "Lost"
          /\ Received(a, b, k, n) /\ ~Expired(a, b) => b \in peers[a]
      BY DEF MatchInv, ReceivedActedOn
    <3>2. CASE wp'[a][b] = wp[a][b]
      BY <1>1, <1>5, <3>1, <3>2 DEF Received, Expired
    <3>3. CASE wp'[a][b] = g
      BY <1>3, <3>3 DEF Received
    <3> QED
      BY <1>5, <3>2, <3>3
  <2> QED
    BY <1>1, <2>1, ActedOnStay
<1>8. \A b, a \in Participants, k \in Roles : \A n \in SeqNum :
        rp'[b][a][k][n].status = "Acknowledged" => rp[b][a][k][n].status = "Acknowledged"
  BY <1>3, <1>5
<1> QED
  BY <1>1, <1>6, <1>7, <1>8, AckedStay

LEMMA RemoveParticipantsActs ==
  ASSUME MatchInv, LogGrows, NEW p \in Participants, RemoveParticipants(p)
  PROVE  ReceivedActedOn' /\ AckedReceived'
<1> DEFINE S == updates[p]
           f == [k \in Roles |-> EmptyReaderProxy]
           g == [k \in Roles |-> EmptyWriterProxy]
<1>1. /\ peers' = [peers EXCEPT ![p] = @ \ S]
      /\ rp' = [rp EXCEPT ![p] = [q \in Participants |-> IF q \in S THEN f ELSE @[q]]]
      /\ wp' = [wp EXCEPT ![p] = [q \in Participants |-> IF q \in S THEN g ELSE @[q]]]
      /\ matched' = [matched EXCEPT ![p] = Kept(p, S)]
      /\ UNCHANGED <<registered, log, net, expired>>
  BY DEF RemoveParticipants, endpointVars
<1>2. \A q \in Participants : q \in S => Expired(p, q)
  BY DEF MatchInv, DeletedExpired
<1>3. /\ \A k \in Roles : \A n \in SeqNum : f[k][n].status # "Acknowledged"
      /\ \A k \in Roles : \A n \in SeqNum : g[k][n] = "None"
  BY DEF EmptyReaderProxy, NoChangeForReader, EmptyWriterProxy
<1>4. /\ rp \in [Participants -> [Participants -> [Roles -> ReaderProxy]]]
      /\ wp \in [Participants -> [Participants -> [Roles -> WriterProxy]]]
      /\ peers \in [Participants -> SUBSET Participants] /\ DOMAIN matched = Participants
  BY DEF MatchInv, TypeInv, GoodReaderProxies, GoodWriterProxies, IInv, Shapes
<1> HIDE DEF f, g, S
<1>5. ASSUME NEW a \in Participants, NEW b \in Participants
      PROVE  /\ rp'[a][b] \in {rp[a][b], f}
             /\ wp'[a][b] \in {wp[a][b], g}
             /\ ~(a = p /\ b \in S) => wp'[a][b] = wp[a][b]
             /\ ~(a = p /\ b \in S) /\ b \in peers[a] => b \in peers'[a]
             /\ \A x \in matched[a] : Owner[x[2]] = b /\ ~(a = p /\ b \in S) => x \in matched'[a]
  BY <1>1, <1>4 DEF Kept
<1>6. \A a, b \in Participants : ~Expired(a, b)' => ~Expired(a, b) /\ ~(a = p /\ b \in S)
  BY <1>1, <1>2 DEF Expired
<1>7. ReceivedStays
  BY <1>5, <1>6 DEF ReceivedStays, Received
<1>8. ReceivedActedOn'
  <2>1. \A b, a \in Participants, k \in Roles : \A n \in SeqNum :
          /\ wp'[a][b][k][n] # "Lost"
          /\ Received(a, b, k, n)' /\ ~Expired(a, b)' => Received(a, b, k, n) /\ b \in peers'[a]
    <3> SUFFICES ASSUME NEW b \in Participants, NEW a \in Participants, NEW k \in Roles, NEW n \in SeqNum
                 PROVE  /\ wp'[a][b][k][n] # "Lost"
                        /\ Received(a, b, k, n)' /\ ~Expired(a, b)'
                             => Received(a, b, k, n) /\ b \in peers'[a]
      OBVIOUS
    <3>1. /\ wp[a][b][k][n] # "Lost"
          /\ Received(a, b, k, n) /\ ~Expired(a, b) => b \in peers[a]
      BY DEF MatchInv, ReceivedActedOn
    <3>2. wp'[a][b][k][n] # "Lost"
      BY <1>3, <1>5, <3>1
    <3>3. ASSUME Received(a, b, k, n)', ~Expired(a, b)'
          PROVE  Received(a, b, k, n) /\ b \in peers'[a]
      BY <1>5, <1>6, <3>1, <3>3 DEF Received
    <3> QED
      BY <3>2, <3>3
  <2>2. \A b, a \in Participants : ~Expired(a, b)' =>
          \A x \in matched[a] : Owner[x[2]] = b => x \in matched'[a]
    BY <1>5, <1>6
  <2> QED
    BY <1>1, <2>1, <2>2, ActedOnStay
<1>9. \A b, a \in Participants, k \in Roles : \A n \in SeqNum :
        rp'[b][a][k][n].status = "Acknowledged" => rp[b][a][k][n].status = "Acknowledged"
  BY <1>3, <1>5
<1> QED
  BY <1>1, <1>7, <1>8, <1>9, AckedStay

LEMMA MatchEndpointActs ==
  ASSUME MatchInv, LogGrows, NEW p \in Participants, MatchEndpoint(p)
  PROVE  ReceivedActedOn' /\ AckedReceived'
<1>0. PICK m, e : m = busy[p] /\ e = m.endpoint
  OBVIOUS
<1> DEFINE V == {v \in Visited(p, e) : Accepts[<<v, e>>]}
           N == {<<l, e>> : l \in V}
<1>1. /\ m.type = "SEDP"
      /\ matched' = [matched EXCEPT ![p] = @ \cup N]
      /\ wp' = Record(p, m.from, m.role, m.n, e)
      /\ UNCHANGED <<registered, log, net, peers, rp, expired>>
  BY <1>0 DEF MatchEndpoint, endpointVars, dbVars
<1>2. /\ m.from \in Participants /\ m.role \in Roles /\ m.n \in DOMAIN log[m.from][m.role]
      /\ e = log[m.from][m.role][m.n]
  <2>1. m # Idle
    BY <1>1 DEF Idle
  <2>2. GoodMessage(m)
    BY <1>0, <2>1 DEF MatchInv, TypeInv, GoodMessages
  <2> QED
    BY <1>0, <1>1, <2>2 DEF GoodMessage
<1> DEFINE New(a, b, k, n) == /\ a = p /\ b = m.from /\ k = m.role /\ n = m.n
                              /\ Mismatch(p, e) = {} /\ m.from \in peers[p]
<1>3. ASSUME NEW a \in Participants, NEW b \in Participants, NEW k \in Roles, NEW n \in SeqNum
      PROVE  /\ New(a, b, k, n) => wp'[a][b][k][n] = "Received"
             /\ ~New(a, b, k, n) => wp'[a][b][k][n] = wp[a][b][k][n]
  <2>1. wp \in [Participants -> [Participants -> [Roles -> WriterProxy]]]
    BY DEF MatchInv, TypeInv, GoodWriterProxies
  <2>2. CASE Mismatch(p, e) = {} /\ m.from \in peers[p]
    <3> DEFINE v == ReceivedChangeSet(wp[p][m.from][m.role], m.n)
    <3>1. /\ v \in WriterProxy
          /\ \A i \in SeqNum : v[i] = IF i = m.n THEN "Received" ELSE wp[p][m.from][m.role][i]
      BY <1>2, <2>1, ReceivedUpdate
    <3>2. wp' = [wp EXCEPT ![p][m.from][m.role] = v]
      BY <1>1, <2>2 DEF Record
    <3> HIDE DEF v
    <3>3. wp'[a][b][k] = IF a = p /\ b = m.from /\ k = m.role THEN v ELSE wp[a][b][k]
      BY <1>2, <2>1, <3>2
    <3> QED
      BY <2>2, <3>1, <3>3
  <2>3. CASE ~(Mismatch(p, e) = {} /\ m.from \in peers[p])
    BY <1>1, <2>3 DEF Record
  <2> QED
    BY <2>2, <2>3
<1>4. ReceivedStays
  BY <1>3 DEF ReceivedStays, Received
<1>5. \A a \in Participants : matched[a] \subseteq matched'[a]
  BY <1>1 DEF MatchInv, TypeInv, IInv, Shapes
<1>6. ASSUME Mismatch(p, e) = {}, NEW l \in Candidates(p, e), Accepts[<<l, e>>]
      PROVE  <<l, e>> \in matched'[p]
  <2>1. l \in V
    BY <1>6 DEF Visited
  <2>2. <<l, e>> \in N
    BY <2>1
  <2>3. matched'[p] = matched[p] \cup N
    BY <1>1 DEF MatchInv, TypeInv, IInv, Shapes
  <2> QED
    BY <2>2, <2>3
<1>7. ASSUME NEW q \in Participants, NEW x
      PROVE  ActedOn(q, x) => \A l \in Candidates(q, x) : Accepts[<<l, x>>] => <<l, x>> \in matched'[q]
  BY <1>5 DEF ActedOn
<1> HIDE DEF V, N, New
<1>8. ASSUME NEW b \in Participants, NEW a \in Participants, NEW k \in Roles, NEW n \in SeqNum
      PROVE  /\ wp'[a][b][k][n] # "Lost"
             /\ wp'[a][b][k][n] = "Received" /\ ~Expired(a, b) =>
                  /\ b \in peers[a]
                  /\ \A l \in Candidates(a, log[b][k][n]) :
                       Accepts[<<l, log[b][k][n]>>] => <<l, log[b][k][n]>> \in matched'[a]
  <2>1. /\ wp[a][b][k][n] # "Lost"
        /\ wp[a][b][k][n] = "Received" /\ ~Expired(a, b) => b \in peers[a] /\ ActedOn(a, log[b][k][n])
    BY DEF MatchInv, ReceivedActedOn, Received
  <2>2. CASE New(a, b, k, n)
    <3>1. a = p /\ b \in peers[p] /\ Mismatch(p, e) = {} /\ log[b][k][n] = e
      BY <1>2, <2>2 DEF New
    <3> QED
      BY <1>3, <1>6, <2>2, <3>1
  <2>3. CASE ~New(a, b, k, n)
    BY <1>3, <1>7, <2>1, <2>3
  <2> QED
    BY <2>2, <2>3
<1>9. ReceivedActedOn'
  <2>1. ASSUME NEW b \in Participants, NEW a \in Participants, NEW k \in Roles, NEW n \in SeqNum,
               Received(a, b, k, n)', ~Expired(a, b)'
        PROVE  b \in peers'[a] /\ ActedOn(a, log[b][k][n])'
    <3> PICK x : x = log[b][k][n]
      OBVIOUS
    <3>1. /\ b \in peers[a]
          /\ \A l \in Candidates(a, x) : Accepts[<<l, x>>] => <<l, x>> \in matched'[a]
      BY <1>1, <1>8, <2>1 DEF Received, Expired
    <3>2. Candidates(a, x)' = Candidates(a, x)
      BY <1>1 DEF Candidates
    <3>3. ActedOn(a, x)'
      BY <3>1, <3>2 DEF ActedOn
    <3> QED
      BY <1>1, <3>1, <3>3 DEF ActedOn, Candidates
  <2> QED
    BY <1>8, <2>1 DEF ReceivedActedOn
<1> QED
  BY <1>1, <1>4, <1>9, AckedStay

\* Only a HEARTBEAT makes an acknowledgement, and never of what is missing.
LEMMA ReceiveHeartbeatActs ==
  ASSUME SmallParticipants, MatchInv, LogGrows, NEW p \in Participants, NEW q \in Participants,
         NEW k \in Roles, ReceiveHeartbeat(p, q, k)
  PROVE  ReceivedActedOn' /\ AckedReceived'
<1>1. PICK m \in net :
        /\ m.type = "HEARTBEAT" /\ m.from = q /\ m.role = k
        /\ IF q \in peers[p]
           THEN /\ wp' = [wp EXCEPT ![p][q][k] = MissingChangesUpdate(wp[p][q][k], 1, m.last)]
                /\ net' \subseteq net \cup
                     {AckNack(p, q, k, AckNackBase(MissingChangesUpdate(wp[p][q][k], 1, m.last)),
                              MissingChanges(MissingChangesUpdate(wp[p][q][k], 1, m.last)))}
           ELSE net' \subseteq net /\ wp' = wp
        /\ UNCHANGED <<registered, log, peers, rp, matched, expired>>
  BY DEF ReceiveHeartbeat, Arriving, endpointVars, dbVars
<1>2. PICK w : w = MissingChangesUpdate(wp[p][q][k], 1, m.last)
  OBVIOUS
<1>3. m.last \in DOMAIN log[q][k]
  BY <1>1 DEF MatchInv, TypeInv, GoodMessages, GoodMessage
<1>4. /\ DOMAIN log[q][k] = 1..Len(log[q][k]) /\ Len(log[q][k]) \in Nat
      /\ Len(log[q][k]) <= 2
  BY LogNumbers, ShortLog DEF MatchInv, TypeInv
<1>5. w \in WriterProxy /\ Tracked(w) \subseteq DOMAIN log[q][k]
  BY <1>2, <1>3, HeartbeatAnswer DEF MatchInv
<1>6. \A n \in SeqNum :
        w[n] = IF wp[p][q][k][n] = "None" /\ n <= m.last THEN "Missing" ELSE wp[p][q][k][n]
  <2>1. wp[p][q][k] \in WriterProxy /\ m.last \in Nat
    BY <1>3, <1>4 DEF MatchInv, TypeInv, GoodWriterProxies
  <2> QED
    BY <1>2, <2>1, MissingUpdate
<1>7. \A n \in SeqNum : w[n] # "Lost" /\ (w[n] = "Received" <=> Received(p, q, k, n))
  BY <1>6 DEF MatchInv, ReceivedActedOn, Received
<1>8. w[1] # "None"
  BY <1>3, <1>4, <1>6 DEF SmallParticipants
<1>9. ASSUME NEW n \in SeqNum, n \in DOMAIN log[q][k], n < AckNackBase(w)
      PROVE  w[n] = "Received"
  <2>1. PICK len : len = Len(log[q][k])
    OBVIOUS
  <2>2. len \in {1, 2} /\ n \in 1..len /\ Tracked(w) \subseteq 1..len
    <3>1. len \in Nat /\ len <= 2 /\ DOMAIN log[q][k] = 1..len
      BY <1>4, <2>1
    <3>2. 1 <= len
      BY <1>3, <3>1
    <3> QED
      BY <1>5, <1>9, <3>1, <3>2
  <2>3. {1, 2} \subseteq SeqNum /\ \A i \in SeqNum : w[i] # "Lost"
    BY <1>7 DEF SmallParticipants
  <2> QED
    BY <1>5, <1>8, <1>9, <2>2, <2>3, BaseReceived
<1>10. CASE wp' = wp /\ net' \subseteq net
  BY <1>1, <1>10, OtherActs
<1>11. CASE /\ wp' = [wp EXCEPT ![p][q][k] = w]
            /\ net' \subseteq net \cup {AckNack(p, q, k, AckNackBase(w), MissingChanges(w))}
  <2>1. \A a, b \in Participants, j \in Roles :
          wp'[a][b][j] = IF a = p /\ b = q /\ j = k THEN w ELSE wp[a][b][j]
    <3>1. wp \in [Participants -> [Participants -> [Roles -> WriterProxy]]]
      BY DEF MatchInv, TypeInv, GoodWriterProxies
    <3> QED
      BY <1>11, <3>1
  <2>2. \A b, a \in Participants, j \in Roles : \A n \in SeqNum :
          wp'[a][b][j][n] # "Lost" /\ (Received(a, b, j, n)' <=> Received(a, b, j, n))
    <3> SUFFICES ASSUME NEW b \in Participants, NEW a \in Participants, NEW j \in Roles, NEW n \in SeqNum
                 PROVE  wp'[a][b][j][n] # "Lost" /\ (Received(a, b, j, n)' <=> Received(a, b, j, n))
      OBVIOUS
    <3>1. CASE a = p /\ b = q /\ j = k
      BY <1>7, <2>1, <3>1 DEF Received
    <3>2. CASE ~(a = p /\ b = q /\ j = k)
      BY <2>1, <3>2 DEF Received, MatchInv, ReceivedActedOn
    <3> QED
      BY <3>1, <3>2
  <2>3. ReceivedStays
    BY <2>2 DEF ReceivedStays
  <2>4. ReceivedActedOn'
    <3>1. \A b, a \in Participants, j \in Roles : \A n \in SeqNum :
            /\ wp'[a][b][j][n] # "Lost"
            /\ Received(a, b, j, n)' /\ ~Expired(a, b)' => Received(a, b, j, n) /\ b \in peers'[a]
      BY <1>1, <2>2 DEF MatchInv, ReceivedActedOn, Expired
    <3> QED
      BY <1>1, <3>1, ActedOnStay
  <2>5. ASSUME NEW a \in net' \ net, a.type = "ACKNACK"
        PROVE  Truthful(a)'
    <3>1. a.from = p /\ a.to = q /\ a.role = k /\ a.base = AckNackBase(w)
      BY <1>11, <2>5 DEF AckNack
    <3>2. \A n \in SeqNum : n \in DOMAIN log'[q][k] /\ n < AckNackBase(w) => Received(p, q, k, n)'
      BY <1>1, <1>7, <1>9, <2>2
    <3> QED
      BY <3>1, <3>2 DEF Truthful
  <2> QED
    BY <1>1, <2>3, <2>4, <2>5, AckedStay
<1> QED
  BY <1>1, <1>2, <1>10, <1>11

LEMMA ReceiveAckNackActs ==
  ASSUME MatchInv, LogGrows, NEW p \in Participants, NEW q \in Participants, NEW k \in Roles,
         ReceiveAckNack(p, q, k)
  PROVE  ReceivedActedOn' /\ AckedReceived'
<1> DEFINE s(m) == RequestedChangesSet(AckedChangesSet(rp[p][q][k], m.base - 1), m.set)
           t(m) == WithStatus(s(m), RequestedChanges(s(m)), "Underway")
<1>1. PICK m \in net :
        /\ m.type = "ACKNACK" /\ m.from = q /\ m.to = p /\ m.role = k
        /\ IF q \in peers[p]
           THEN /\ rp' = [rp EXCEPT ![p][q][k] = t(m)]
                /\ net' \subseteq net \cup Announcements(p, q, k, RequestedChanges(s(m)))
           ELSE net' \subseteq net /\ rp' = rp
        /\ UNCHANGED <<registered, log, peers, wp, matched, expired>>
  BY DEF ReceiveAckNack, Arriving, endpointVars, dbVars
<1>2. m.base \in 1..(Len(log[p][k]) + 1) /\ m.set \subseteq DOMAIN log[p][k]
  BY <1>1 DEF MatchInv, TypeInv, GoodMessages, GoodMessage
<1>3. /\ DOMAIN log[p][k] = 1..Len(log[p][k]) /\ Len(log[p][k]) \in Nat
      /\ rp[p][q][k] \in ReaderProxy /\ Entries(rp[p][q][k]) \subseteq DOMAIN log[p][k]
      /\ m.base \in Nat
  <2>1. DOMAIN log[p][k] = 1..Len(log[p][k]) /\ Len(log[p][k]) \in Nat
    BY LogNumbers DEF MatchInv, TypeInv
  <2>2. m.base \in Nat
    BY <1>2, <2>1
  <2>3. rp[p][q][k] \in ReaderProxy /\ Entries(rp[p][q][k]) \subseteq DOMAIN log[p][k]
    BY DEF MatchInv, TypeInv, GoodReaderProxies
  <2> QED
    BY <2>1, <2>2, <2>3
<1> DEFINE v == t(m)
           R == RequestedChanges(s(m))
<1>4. /\ v \in ReaderProxy /\ Entries(v) \subseteq DOMAIN log[p][k]
      /\ \A n \in SeqNum : v[n].status = "Acknowledged" =>
           \/ rp[p][q][k][n].status = "Acknowledged"
           \/ n \in Entries(rp[p][q][k]) /\ n <= m.base - 1
  <2>1. PICK r, len : r = rp[p][q][k] /\ len = Len(log[p][k])
    OBVIOUS
  <2>2. /\ r \in ReaderProxy /\ len \in Nat /\ DOMAIN log[p][k] = 1..len
        /\ Entries(r) \subseteq 1..len /\ m.base \in Nat /\ m.set \subseteq 1..len
    BY <1>2, <1>3, <2>1
  <2>3. PICK x : x = RequestedChangesSet(AckedChangesSet(r, m.base - 1), m.set)
    OBVIOUS
  <2>4. PICK y : y = WithStatus(x, RequestedChanges(x), "Underway")
    OBVIOUS
  <2>5. /\ y \in ReaderProxy /\ Entries(y) \subseteq 1..len
        /\ \A n \in SeqNum : y[n].status = "Acknowledged" =>
             r[n].status = "Acknowledged" \/ (n \in Entries(r) /\ n <= m.base - 1)
    BY <2>2, <2>3, <2>4, AckNackUpdate
  <2>6. y = v
    BY <2>1, <2>3, <2>4
  <2> QED
    BY <2>1, <2>2, <2>5, <2>6
<1>5. IF q \in peers[p]
      THEN rp' = [rp EXCEPT ![p][q][k] = v] /\ net' \subseteq net \cup Announcements(p, q, k, R)
      ELSE net' \subseteq net /\ rp' = rp
  BY <1>1
<1> HIDE DEF s, t, v, R
<1>6. \A a \in net' \ net : a.type # "ACKNACK"
  BY <1>5, AnnouncementType
<1>7. ReceivedActedOn' /\ ReceivedStays
  BY <1>1, ProxiesUntouched
<1>8. ASSUME ~Expired(q, p), NEW n \in SeqNum, v[n].status = "Acknowledged"
      PROVE  rp[p][q][k][n].status = "Acknowledged" \/ Received(q, p, k, n)
  <2>1. ASSUME n \in Entries(rp[p][q][k]), n <= m.base - 1
        PROVE  Received(q, p, k, n)
    <3>1. n \in DOMAIN log[p][k] /\ n < m.base
      BY <1>3, <2>1
    <3> QED
      BY <1>1, <1>8, <3>1 DEF MatchInv, AckedReceived
  <2> QED
    BY <1>4, <1>8, <2>1
<1>9. \A a, b \in Participants, j \in Roles :
        rp'[a][b][j] = rp[a][b][j] \/ (rp'[a][b][j] = v /\ a = p /\ b = q /\ j = k)
  <2>1. CASE rp' = rp
    BY <2>1
  <2>2. CASE rp' = [rp EXCEPT ![p][q][k] = v]
    BY <1>1, <1>4, <2>2, ReaderEntry DEF MatchInv, TypeInv
  <2> QED
    BY <1>5, <2>1, <2>2
<1>10. \A a, b \in Participants, j \in Roles : \A n \in SeqNum :
         rp'[a][b][j][n].status = "Acknowledged" /\ ~Expired(b, a) =>
           rp[a][b][j][n].status = "Acknowledged" \/ Received(b, a, j, n)
  BY <1>8, <1>9
<1> QED
  BY <1>1, <1>6, <1>7, <1>10, AckedStay

LEMMA MatchKept == ASSUME SmallParticipants, MatchInv, [Next]_vars PROVE MatchInv'
<1>1. TypeInv' /\ AnnouncedOnce' /\ DeletedExpired'
  BY TypesKept, OnceKept, DeletedKept DEF MatchInv
<1>2. LogGrows
  BY <1>1, LogAppended DEF MatchInv, TypeInv
<1>3. expired \subseteq expired'
  BY StepCases
<1> DEFINE Acts == ReceivedActedOn' /\ AckedReceived'
<1>4. ASSUME UNCHANGED <<registered, rp, wp, peers, matched>>, \A m \in net' \ net : m.type # "ACKNACK"
      PROVE  Acts
  BY <1>2, <1>3, <1>4, OtherActs
<1>5. ASSUME NEW p \in Participants, HandleMessage(p)
      PROVE  Acts
  <2>1. ASSUME NEW q \in Participants, ReceiveSpdp(p, q)
        PROVE  Acts
    <3>1. /\ UNCHANGED <<registered, rp, wp, peers, matched>>
          /\ net' \subseteq net \cup {Spdp(p, q)}
      BY <2>1 DEF ReceiveSpdp, Arriving, endpointVars, proxyVars
    <3>2. Spdp(p, q).type # "ACKNACK"
      BY DEF Spdp
    <3> QED
      BY <1>4, <3>1, <3>2
  <2>2. ASSUME NEW q \in Participants, NEW k \in Roles, ReceiveSedp(p, q, k)
        PROVE  Acts
    <3>1. UNCHANGED endpointVars /\ UNCHANGED proxyVars /\ net' \subseteq net
      BY <2>2 DEF ReceiveSedp
    <3> QED
      BY <1>4, <3>1 DEF endpointVars, proxyVars
  <2> QED
    BY <1>2, <1>5, <2>1, <2>2, ParticipantDiscoveryActs, MatchEndpointActs, RemoveParticipantsActs,
       ReceiveHeartbeatActs, ReceiveAckNackActs DEF HandleMessage
<1>6. ASSUME NEW p \in Participants, NEW k \in Roles, Announce(p, k) \/ AnnounceEndpoint(p, k)
      PROVE  Acts
  <2>1. CASE SendAnnouncement(p, k)
    BY <1>2, <2>1, SendAnnouncementActs
  <2>2. CASE AnnounceEndpoint(p, k)
    <3>1. UNCHANGED <<registered, rp, wp, peers, matched, net>>
      BY <2>2 DEF AnnounceEndpoint, proxyVars
    <3> QED
      BY <1>4, <3>1
  <2>3. CASE SendSedpHeartbeat(p, k)
    <3>1. /\ UNCHANGED endpointVars /\ UNCHANGED proxyVars
          /\ net' = net \cup Arriving({Heartbeat(p, q, k, Len(log[p][k])) : q \in peers[p]})
      BY <2>3 DEF SendSedpHeartbeat
    <3>2. \A m \in net' \ net : m.type # "ACKNACK"
      BY <3>1 DEF Arriving, Heartbeat
    <3> QED
      BY <1>4, <3>1, <3>2 DEF endpointVars, proxyVars
  <2> QED
    BY <1>6, <2>1, <2>2, <2>3 DEF Announce
<1>7. ASSUME NEW p \in Participants, SendSpdp(p)
      PROVE  Acts
  <2>1. /\ UNCHANGED endpointVars /\ UNCHANGED proxyVars
        /\ net' = net \cup Arriving({Spdp(p, q) : q \in Others(p)})
    BY <1>7 DEF SendSpdp
  <2>2. \A m \in net' \ net : m.type # "ACKNACK"
    BY <2>1 DEF Arriving, Spdp
  <2> QED
    BY <1>4, <2>1, <2>2 DEF endpointVars, proxyVars
<1>8. ASSUME NEW p \in Participants,
             \/ CheckParticipantLiveliness(p) \/ Crash(p)
             \/ \E q \in Participants : Silence(p, q) \/ SendDeleteParticipant(p, q)
      PROVE  Acts
  <2>1. UNCHANGED endpointVars /\ UNCHANGED proxyVars /\ net' \subseteq net
    BY <1>8 DEF CheckParticipantLiveliness, Crash, Silence, SendDeleteParticipant
  <2> QED
    BY <1>4, <2>1 DEF endpointVars, proxyVars
<1>9. ASSUME UNCHANGED vars \/ \E m \in net : Lose(m)
      PROVE  Acts
  <2>1. UNCHANGED endpointVars /\ UNCHANGED proxyVars /\ net' \subseteq net
    BY <1>9 DEF vars, Lose
  <2> QED
    BY <1>4, <2>1 DEF endpointVars, proxyVars
<1>10. ASSUME NEW e \in Endpoints, RegisterEndpoint(e)
       PROVE  Acts
  BY <1>2, <1>10, RegisterEndpointActs
<1>11. Acts
  BY <1>5, <1>6, <1>7, <1>8, <1>9, <1>10 DEF Next, DiscoveryThread
<1> QED
  BY <1>1, <1>11 DEF MatchInv

LEMMA MatchInitially == Init => MatchInv
<1> SUFFICES ASSUME Init PROVE MatchInv
  OBVIOUS
<1>1. TypeInv
  BY TypesInitially
<1>2. AnnouncedOnce /\ DeletedExpired
  BY DEF Init, AnnouncedOnce, Once, DeletedExpired
<1>3. ReceivedActedOn
  BY DEF Init, ReceivedActedOn, Received, EmptyWriterProxy
<1>4. AckedReceived
  BY DEF Init, AckedReceived, EmptyReaderProxy, NoChangeForReader
<1> QED
  BY <1>1, <1>2, <1>3, <1>4 DEF MatchInv

\* What an SEDP announcer has been acknowledged was acted on
\* (handle_sedp_w_data, handle_sedp_r_data, handle_heartbeat, handle_acknack),
\* whatever is lost, late or reordered, if no participant has more than two
\* endpoints of a role or creates one after it has discovered another
\* participant.  With a third endpoint available_changes_max acknowledges a
\* number that the HEARTBEAT did not announce; a late one matches nothing that
\* was received before.
THEOREM AckedKept == ASSUME SmallParticipants PROVE Spec => []AckedIsMatched
<1>1. MatchInv => AckedIsMatched
  <2> SUFFICES ASSUME MatchInv, NEW p \in Participants, NEW q \in Participants, NEW k \in Roles,
                      NEW n \in DOMAIN log[p][k],
                      rp[p][q][k][n].status = "Acknowledged", <<q, p>> \notin expired
               PROVE  \A l \in Candidates(q, log[p][k][n]) :
                        Accepts[<<l, log[p][k][n]>>] => <<l, log[p][k][n]>> \in matched[q]
    BY DEF AckedIsMatched
  <2>1. n \in SeqNum
    BY LogNumbers, ShortLog DEF SmallParticipants, MatchInv, TypeInv
  <2>2. Received(q, p, k, n) /\ ~Expired(q, p)
    BY <2>1 DEF MatchInv, AckedReceived, Expired
  <2> QED
    BY <2>1, <2>2 DEF MatchInv, ReceivedActedOn, ActedOn
<1> QED
  BY <1>1, MatchInitially, MatchKept, PTL DEF Spec
=============================================================================
