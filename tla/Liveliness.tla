----------------------------- MODULE Liveliness -----------------------------
(***************************************************************************)
(* The Writer Liveliness Protocol: the Writers of one participant assert   *)
(* that they live, the Readers of another one watch them (event_loop.rs,   *)
(* writer.rs, reader.rs, discovery_db.rs, message_receiver.rs).            *)
(*                                                                         *)
(* Both participants know each other and hold their endpoints when the     *)
(* model starts; SEDP is about to tell them of the other's.  Time passes   *)
(* in ticks, ages are counted from the moment a timestamp was stored and   *)
(* stop at a bound beyond every comparison.  Both event loops handle what  *)
(* is due before the next tick, so that a late reaction is the protocol's. *)
(* Writers are reliable and Volatile.                                      *)
(***************************************************************************)
EXTENDS DiscoveryData, FiniteSetsExt

CONSTANTS
  Writers,           \* of one participant
  Readers,           \* of another one, all of the Writers' topic
  Kind,              \* Kind[w]: the LivelinessQosKind w offers
  Lease,             \* Lease[w]: in whole seconds, MaxSeconds for Duration::INFINITE
  Requested,         \* Requested[r]: the LivelinessQosKind r requests, with no lease
  AssertPeriod,      \* ASSERT_LIVELINESS_PERIOD
  IdlePeriod,        \* how often a Reader checks that matched no leased Writer
  Lossy,             \* may datagrams be lost?
  EarlyAssertions,   \* does the application assert a Writer the Readers have not
                     \* discovered?
  MaxUnderWay        \* the application and the heartbeat timer wait while so many
                     \* commands and datagrams are under way

ASSUME LivelinessAssumption ==
  /\ IsFiniteSet(Writers) /\ IsFiniteSet(Readers)
  /\ Kind \in [Writers -> DOMAIN LivelinessRank]
  /\ Lease \in [Writers -> 2..MaxSeconds]
  /\ Requested \in [Readers -> DOMAIN LivelinessRank]
  /\ AssertPeriod \in Nat \ {0} /\ IdlePeriod \in Nat \ {0}
  /\ Lossy \in BOOLEAN /\ EarlyAssertions \in BOOLEAN
  /\ MaxUnderWay \in Nat

Leased == {w \in Writers : Lease[w] # MaxSeconds}
Manual == {w \in Writers : Kind[w] # "Automatic"}

Half(lease) == lease \div 2

\* check_liveliness_timer: the shortest half lease of the Writers in it.
CheckPeriod == Min({Half(Lease[w]) : w \in Manual \cap Leased})

\* The longest timeout a Reader ever sets.
LongestPeriod == Max({IdlePeriod} \cup {Lease[w] : w \in Leased})

\* Where an age stops: just beyond what it is compared with.
LeaseOver(w)    == IF w \in Leased THEN Lease[w] + 1 ELSE 0
HalfLeaseOver(w) == IF w \in Leased \ Manual THEN Half(Lease[w]) + 1 ELSE 0
ReportOverdue(w) == IF w \in Leased \cap Manual THEN Lease[w] + CheckPeriod + 1 ELSE 0
LongSilence     == 2 * LongestPeriod + 1
Older(age, bound) == IF age < bound THEN age + 1 ELSE age

Off == -1

\* The kind the Readers' side keeps of w.
KindRead(w) == DecodeLiveliness(LivelinessRank[Kind[w]])

\* is_compatible on either side, the other policies being equal.
ReaderTakes(r, w) == LivelinessRank[KindRead(w)] >= LivelinessRank[Requested[r]]
WriterTakes(w, r) ==
  LivelinessRank[Kind[w]] >= LivelinessRank[DecodeLiveliness(LivelinessRank[Requested[r]])]

VARIABLES
  running,       \* the Writers' process runs
  last_added,    \* last_added[w]: age of the last write, in the cache
  local_writer,  \* local_writer[w]: age of w's entry in local_writer_data
  is_alive,      \* is_alive[w]: Writer::is_alive
  commands,      \* commands[w]: what waits in the WriterCmd channel
  proxies,       \* proxies[w]: the Readers w has matched
  sent,          \* sent[w]: the Readers that w has sent a sample
  assert_timer,  \* ticks left
  check_timer,   \* ticks left, Off without a leased manual Writer
  net,           \* the datagrams under way
  remote_writer, \* remote_writer[w]: w's entry in the Readers' remote_writer_data
  matched,       \* matched[r]: matched_writers
  unmatched,     \* unmatched[r]: unmatched_writers
  wlp_timer,     \* wlp_timer[r]: ticks left, Off before the first match
  set_wlp,       \* the Readers in the wlp_timer channel
  panicked,      \* the Readers' event loop is gone
  asserted,      \* history: asserted[w]: age of the last write or assertion
  heard,         \* history: heard[w]: age of the last assertion of w received
  silent         \* history: age of the last datagram received from the Writers

writerVars  == <<running, last_added, local_writer, is_alive, commands, proxies,
                 sent, assert_timer, check_timer, asserted>>
readerVars  == <<remote_writer, matched, unmatched, wlp_timer, set_wlp, panicked>>
historyVars == <<heard, silent>>
vars == <<writerVars, readerVars, historyVars, net>>

-----------------------------------------------------------------------------
(* Datagrams of a Writer.  DATA and HEARTBEAT name a Reader, a HEARTBEAT has  *)
(* its Liveliness flag set or not; DATA(m) is for the participant.            *)

Data(w, r)            == [type |-> "DATA", writer |-> w, reader |-> r]
Heartbeat(w, r, flag) == [type |-> "HEARTBEAT", writer |-> w, reader |-> r, liveliness |-> flag]
Message               == [type |-> "DATA(m)"]

Datagrams == {Data(w, r) : w \in Writers, r \in Readers}
             \cup {Heartbeat(w, r, f) : w \in Writers, r \in Readers, f \in BOOLEAN}
             \cup {Message}

EntryOf(state, age) == [state |-> state, age |-> age]
Unknown        == EntryOf("Unknown", 0)
LivelinessLost == EntryOf("LivelinessLost", 0)
Live           == EntryOf("Live", 0)

TypeOK ==
  /\ running \in BOOLEAN /\ panicked \in BOOLEAN
  /\ \A w \in Writers : /\ last_added[w] \in 0..LeaseOver(w)
                        /\ local_writer[w] \in 0..HalfLeaseOver(w)
                        /\ asserted[w] \in 0..ReportOverdue(w)
                        /\ heard[w] \in 0..LeaseOver(w)
                        /\ remote_writer[w] \in {Unknown, LivelinessLost} \cup
                                               {EntryOf("Live", a) : a \in 0..LeaseOver(w)}
  /\ is_alive \in [Writers -> BOOLEAN]
  /\ commands \in [Writers -> SUBSET {"WriteData", "AssertLiveliness"}]
  /\ proxies \in [Writers -> SUBSET Readers]
  /\ \A w \in Writers : sent[w] \subseteq proxies[w]
  /\ assert_timer \in 0..AssertPeriod
  /\ check_timer \in {Off} \cup 0..LongestPeriod
  /\ net \subseteq Datagrams
  /\ matched \in [Readers -> SUBSET Writers]
  /\ unmatched \in [Readers -> SUBSET Writers]
  /\ wlp_timer \in [Readers -> {Off} \cup 0..LongestPeriod]
  /\ set_wlp \subseteq Readers
  /\ silent \in 0..LongSilence

\* register_writer: Writer::new adds an empty change, is_alive, and local_writer
\* is written.
Init ==
  /\ running = TRUE
  /\ last_added = [w \in Writers |-> 0]
  /\ local_writer = [w \in Writers |-> 0]
  /\ is_alive = [w \in Writers |-> TRUE]
  /\ commands = [w \in Writers |-> {}]
  /\ proxies = [w \in Writers |-> {}]
  /\ sent = [w \in Writers |-> {}]
  /\ assert_timer = AssertPeriod
  /\ check_timer = IF Manual \cap Leased = {} THEN Off ELSE CheckPeriod
  /\ net = {}
  /\ remote_writer = [w \in Writers |-> Unknown]
  /\ matched = [r \in Readers |-> {}]
  /\ unmatched = [r \in Readers |-> {}]
  /\ wlp_timer = [r \in Readers |-> Off]
  /\ set_wlp = {}
  /\ panicked = FALSE
  /\ asserted = [w \in Writers |-> 0]
  /\ heard = [w \in Writers |-> 0]
  /\ silent = 0

-----------------------------------------------------------------------------
(* The Writers' side *)

\* SEDP(r) reaches the Writers: matched_reader_add.  What a Volatile Writer holds
\* is not relevant for r.
ReceiveSedpReader(r) ==
  /\ running
  /\ proxies' = [w \in Writers |-> IF WriterTakes(w, r) THEN proxies[w] \cup {r} ELSE proxies[w]]
  /\ UNCHANGED <<running, last_added, local_writer, is_alive, commands, sent, assert_timer,
                 check_timer, asserted, readerVars, historyVars, net>>

\* Bound on what is under way.
Quiet == Cardinality(net) + Cardinality({w \in Writers : commands[w] # {}}) < MaxUnderWay

\* DataWriter::write, up to the WriteData command.
Write(w) ==
  /\ running /\ Quiet
  /\ last_added' = [last_added EXCEPT ![w] = 0]
  /\ commands' = [commands EXCEPT ![w] = @ \cup {"WriteData"}]
  /\ UNCHANGED <<running, local_writer, is_alive, proxies, sent, assert_timer, check_timer,
                 asserted, readerVars, historyVars, net>>

\* DataWriter::assert_liveliness
AssertLiveliness(w) ==
  /\ running /\ Quiet
  /\ w \in Manual
  /\ EarlyAssertions \/ \A r \in proxies[w] : w \in matched[r] \cup unmatched[r]
  /\ commands' = [commands EXCEPT ![w] = @ \cup {"AssertLiveliness"}]
  /\ UNCHANGED <<running, last_added, local_writer, is_alive, proxies, sent, assert_timer,
                 check_timer, asserted, readerVars, historyVars, net>>

\* A Writer's token: write_local_writer, handle_writer_cmd.  send_heart_beat(true)
\* drops what all have acknowledged and then sends nothing if no processed sample
\* is left.  Which Readers have not acknowledged what they were sent (unacked) is
\* the subject of ReliableProtocol and any choice here.
HandleWriterCmd(w) ==
  /\ running
  /\ commands[w] # {}
  /\ local_writer' = [local_writer EXCEPT ![w] = 0]
  /\ is_alive' = [is_alive EXCEPT ![w] = TRUE]
  /\ asserted' = [asserted EXCEPT ![w] = 0]
  /\ sent' = [sent EXCEPT ![w] = IF "WriteData" \in commands[w] THEN proxies[w] ELSE @]
  /\ \E unacked \in SUBSET sent'[w] :
       net' = net \cup (IF "WriteData" \in commands[w] THEN {Data(w, r) : r \in proxies[w]} ELSE {})
                  \cup (IF "AssertLiveliness" \in commands[w] /\ unacked # {}
                        THEN {Heartbeat(w, r, TRUE) : r \in proxies[w]} ELSE {})
  /\ commands' = [commands EXCEPT ![w] = {}]
  /\ UNCHANGED <<running, last_added, proxies, assert_timer, check_timer, readerVars,
                 historyVars>>

\* The heartbeat timer, when a Reader has not acknowledged what it was sent.
SendHeartbeat(w) ==
  /\ running /\ Quiet
  /\ sent[w] # {}
  /\ net' = net \cup {Heartbeat(w, r, FALSE) : r \in proxies[w]}
  /\ UNCHANGED <<writerVars, readerVars, historyVars>>

\* ASSERT_AUTOMATIC_LIVELINESS_TIMER
Asserting == {w \in Leased \ Manual : local_writer[w] > Half(Lease[w])}

AssertAutomaticLiveliness ==
  /\ running
  /\ assert_timer = 0
  /\ is_alive' = [w \in Writers |-> w \in Asserting \/ is_alive[w]]
  /\ local_writer' = [w \in Writers |-> IF w \in Asserting THEN 0 ELSE local_writer[w]]
  /\ net' = IF \E w \in Asserting : last_added[w] > Lease[w] THEN net \cup {Message} ELSE net
  /\ assert_timer' = AssertPeriod
  /\ UNCHANGED <<running, last_added, commands, proxies, sent, check_timer, asserted, readerVars,
                 historyVars>>

\* Mutant of CheckManualLiveliness: the timer is not set again.
CheckManualLivelinessOnce ==
  /\ running
  /\ check_timer = 0
  /\ is_alive' = [w \in Writers |->
                    is_alive[w] /\ ~(w \in Manual \cap Leased /\ last_added[w] > Lease[w])]
  /\ check_timer' = Off
  /\ UNCHANGED <<running, last_added, local_writer, commands, proxies, sent, assert_timer,
                 asserted, readerVars, historyVars, net>>

\* CHECK_MANUAL_LIVELINESS_TIMER: Writer::check_liveliness
CheckManualLiveliness ==
  /\ running
  /\ check_timer = 0
  /\ is_alive' = [w \in Writers |->
                    is_alive[w] /\ ~(w \in Manual \cap Leased /\ last_added[w] > Lease[w])]
  /\ check_timer' = CheckPeriod
  /\ UNCHANGED <<running, last_added, local_writer, commands, proxies, sent, assert_timer,
                 asserted, readerVars, historyVars, net>>

\* The process ends, and with it the Writers' state.
Stop ==
  /\ running
  /\ running' = FALSE
  /\ last_added' = [w \in Writers |-> 0]
  /\ local_writer' = [w \in Writers |-> 0]
  /\ is_alive' = [w \in Writers |-> FALSE]
  /\ commands' = [w \in Writers |-> {}]
  /\ proxies' = [w \in Writers |-> {}]
  /\ sent' = [w \in Writers |-> {}]
  /\ assert_timer' = AssertPeriod
  /\ check_timer' = Off
  /\ asserted' = [w \in Writers |-> 0]
  /\ UNCHANGED <<readerVars, historyVars, net>>

-----------------------------------------------------------------------------
(* The Readers' side *)

\* write_remote_writer
WriteRemoteWriter(w) ==
  [v \in Writers |->
     IF v = w \/ (KindRead(w) = "ManualByParticipant" /\ remote_writer[v] # Unknown)
     THEN Live ELSE remote_writer[v]]

\* The Writers an assertion of w speaks for.
SpeaksFor(w) == IF Kind[w] = "ManualByParticipant" THEN Writers ELSE {w}
HeardOf(S)   == heard' = [w \in Writers |-> IF w \in S THEN 0 ELSE heard[w]]

\* SEDP(w): write_remote_writer, matched_writer_add, SET_WLP_TIMER.
ReceiveSedpWriter(w) ==
  /\ ~panicked
  /\ running
  /\ remote_writer' = WriteRemoteWriter(w)
  /\ matched' = [r \in Readers |-> IF ReaderTakes(r, w) THEN matched[r] \cup {w} ELSE matched[r]]
  /\ set_wlp' = Readers
  /\ HeardOf({w})
  /\ silent' = 0
  /\ UNCHANGED <<writerVars, unmatched, wlp_timer, panicked, net>>

\* add_change and handle_heartbeat match an unmatched Writer again.
Rematch(r, w) ==
  IF w \in unmatched[r]
  THEN /\ unmatched' = [unmatched EXCEPT ![r] = @ \ {w}]
       /\ matched' = [matched EXCEPT ![r] = @ \cup {w}]
  ELSE UNCHANGED <<matched, unmatched>>

\* is_contain_writer
Contains(r, w) == w \in matched[r] \cup unmatched[r]

ReceiveData(w, r) ==
  /\ ~panicked
  /\ Data(w, r) \in net
  /\ net' = net \ {Data(w, r)}
  /\ silent' = 0
  /\ IF Contains(r, w)
     THEN /\ Rematch(r, w)
          /\ remote_writer' = WriteRemoteWriter(w)
          /\ HeardOf(SpeaksFor(w))
     ELSE UNCHANGED <<matched, unmatched, remote_writer, heard>>
  /\ UNCHANGED <<writerVars, wlp_timer, set_wlp, panicked>>

\* get_matched_writer_qos panics for a Writer the Reader does not contain.
ReceiveHeartbeat(w, r, flag) ==
  /\ ~panicked
  /\ Heartbeat(w, r, flag) \in net
  /\ net' = net \ {Heartbeat(w, r, flag)}
  /\ silent' = 0
  /\ Rematch(r, w)
  /\ IF flag /\ Contains(r, w)
     THEN remote_writer' = WriteRemoteWriter(w) /\ HeardOf(SpeaksFor(w))
     ELSE UNCHANGED <<remote_writer, heard>>
  /\ panicked' = (flag /\ ~Contains(r, w))
  /\ UNCHANGED <<writerVars, wlp_timer, set_wlp>>

\* handle_participant_message: update_liveliness_with_guid_prefix
ReceiveMessage ==
  /\ ~panicked
  /\ Message \in net
  /\ net' = net \ {Message}
  /\ silent' = 0
  /\ LET S == {w \in Writers : remote_writer[w] # Unknown /\ KindRead(w) = "Automatic"}
     IN  /\ remote_writer' = [w \in Writers |-> IF w \in S THEN Live ELSE remote_writer[w]]
         /\ HeardOf(S)
  /\ UNCHANGED <<writerVars, matched, unmatched, wlp_timer, set_wlp, panicked>>

Lose ==
  /\ Lossy
  /\ \E m \in net : net' = net \ {m}
  /\ UNCHANGED <<writerVars, readerVars, historyVars>>

\* Mutant of Lost: the lease is over a moment too soon.
LostWithLease(r) ==
  {w \in matched[r] \cap Leased :
     \/ remote_writer[w] = LivelinessLost
     \/ remote_writer[w].state = "Live" /\ remote_writer[w].age >= Lease[w]}

\* Reader::check_liveliness
Lost(r) ==
  {w \in matched[r] \cap Leased :
     \/ remote_writer[w] = LivelinessLost
     \/ remote_writer[w].state = "Live" /\ remote_writer[w].age > Lease[w]}

CheckLiveliness(r, S) ==
  /\ remote_writer' = [w \in Writers |-> IF w \in S THEN LivelinessLost ELSE remote_writer[w]]
  /\ matched' = [matched EXCEPT ![r] = @ \ S]
  /\ unmatched' = [unmatched EXCEPT ![r] = @ \cup S]

\* Mutant of MinLease: INFINITE is a timeout as any other.
MinLeaseInfinite(S) == Min({MaxSeconds} \cup {Lease[w] : w \in S})

\* get_min_remote_writer_lease_duration
MinLease(S) == IF S \cap Leased = {} THEN IdlePeriod ELSE Min({Lease[w] : w \in S \cap Leased})

\* SET_WLP_TIMER: the timeout is computed before the check.
SetWlpTimer(r) ==
  /\ ~panicked
  /\ r \in set_wlp
  /\ set_wlp' = set_wlp \ {r}
  /\ CheckLiveliness(r, IF wlp_timer[r] # Off THEN Lost(r) ELSE {})
  /\ wlp_timer' = [wlp_timer EXCEPT ![r] = MinLease(matched[r])]
  /\ UNCHANGED <<writerVars, panicked, historyVars, net>>

\* Mutant of WlpTimer: the timer is set again only while a leased Writer is matched.
WlpTimerOnce(r) ==
  /\ ~panicked
  /\ wlp_timer[r] = 0
  /\ CheckLiveliness(r, Lost(r))
  /\ wlp_timer' = [wlp_timer EXCEPT ![r] = IF matched[r] \cap Leased = Lost(r) THEN Off
                                           ELSE MinLease(matched[r] \ Lost(r))]
  /\ UNCHANGED <<writerVars, set_wlp, panicked, historyVars, net>>

\* WRITER_LIVELINESS_CHECK_TIMER: the timeout is computed after the check.
WlpTimer(r) ==
  /\ ~panicked
  /\ wlp_timer[r] = 0
  /\ CheckLiveliness(r, Lost(r))
  /\ wlp_timer' = [wlp_timer EXCEPT ![r] = MinLease(matched[r] \ Lost(r))]
  /\ UNCHANGED <<writerVars, set_wlp, panicked, historyVars, net>>

-----------------------------------------------------------------------------
(* Time *)

Due ==
  \/ running /\ (assert_timer = 0 \/ check_timer = 0 \/ \E w \in Writers : commands[w] # {})
  \/ ~panicked /\ (set_wlp # {} \/ net # {} \/ \E r \in Readers : wlp_timer[r] = 0)

CountDown(t) == IF t > 0 THEN t - 1 ELSE t

Tick ==
  /\ ~Due
  /\ IF running
     THEN /\ last_added' = [w \in Writers |-> Older(last_added[w], LeaseOver(w))]
          /\ local_writer' = [w \in Writers |-> Older(local_writer[w], HalfLeaseOver(w))]
          /\ asserted' = [w \in Writers |-> Older(asserted[w], ReportOverdue(w))]
          /\ assert_timer' = CountDown(assert_timer)
          /\ check_timer' = CountDown(check_timer)
     ELSE UNCHANGED <<last_added, local_writer, asserted, assert_timer, check_timer>>
  /\ heard' = [w \in Writers |-> Older(heard[w], LeaseOver(w))]
  /\ silent' = Older(silent, LongSilence)
  /\ remote_writer' = [w \in Writers |->
                         IF remote_writer[w].state = "Live"
                         THEN EntryOf("Live", Older(remote_writer[w].age, LeaseOver(w)))
                         ELSE remote_writer[w]]
  /\ wlp_timer' = [r \in Readers |-> CountDown(wlp_timer[r])]
  /\ UNCHANGED <<running, is_alive, commands, proxies, sent, net, matched, unmatched,
                 set_wlp, panicked>>

Next ==
  \/ \E w \in Writers : \/ Write(w)
                        \/ AssertLiveliness(w)
                        \/ HandleWriterCmd(w)
                        \/ SendHeartbeat(w)
                        \/ ReceiveSedpWriter(w)
  \/ \E r \in Readers : ReceiveSedpReader(r)
  \/ AssertAutomaticLiveliness
  \/ CheckManualLiveliness
  \/ Stop
  \/ \E w \in Writers, r \in Readers : \/ ReceiveData(w, r)
                                       \/ \E f \in BOOLEAN : ReceiveHeartbeat(w, r, f)
  \/ ReceiveMessage
  \/ Lose
  \/ \E r \in Readers : SetWlpTimer(r) \/ WlpTimer(r)
  \/ Tick

Spec == Init /\ [][Next]_vars

-----------------------------------------------------------------------------
(* Properties *)

\* A Reader gives up a Writer only when, for the Writer's lease, it received
\* nothing that asserts it: no DATA of it, no flagged HEARTBEAT, no DATA(m) of
\* its kind.  (With a ManualByParticipant Writer, which MCLiveliness and theorem
\* LeaseRespected leave out, it fails: read_from takes that kind for
\* ManualByTopic, and an assertion no longer counts for the other Writers.)
LostOnlyAfterLease ==
  [][\A r \in Readers, w \in Writers :
       w \in matched[r] /\ w \notin matched'[r] => heard[w] > Lease[w]]_vars

\* A Reader does not keep a leased Writer of a participant that fell silent for
\* longer than the lease and one timeout of the Reader, whatever is matched and
\* whatever the timer was set for.
DetectedInTime ==
  ~panicked => \A r \in Readers : \A w \in matched[r] \cap Leased :
                 silent <= Lease[w] + LongestPeriod

\* A manual Writer that is neither written nor asserted is told so within its
\* lease and one period of the check.
ReportedInTime ==
  running => \A w \in Manual \cap Leased : is_alive[w] => asserted[w] <= Lease[w] + CheckPeriod

\* A HEARTBEAT with the Liveliness flag never reaches a Reader that does not
\* contain its Writer: get_matched_writer_qos holds such a call impossible.
NoPanic == ~panicked
=============================================================================
