-------------------------- MODULE LivelinessProofs --------------------------
(***************************************************************************)
(* The liveliness protocol for any Writers, Readers, leases and periods.   *)
(* A Reader gives up no Writer within its lease, as long as no Writer is   *)
(* ManualByParticipant (read_from takes that kind for ManualByTopic, so    *)
(* that its assertions are not counted for the other Writers); it gives up *)
(* a silent one in time; a manual Writer learns in time that it lapsed.    *)
(***************************************************************************)
EXTENDS Liveliness, NaturalsInduction, WellFoundedInduction, TLAPS

NoneByParticipant == \A w \in Writers : Kind[w] # "ManualByParticipant"

Entries == [state : {"Unknown", "LivelinessLost", "Live"}, age : Nat]

\* What the Readers' side is made of.
ReaderTypes ==
  /\ heard \in [Writers -> Nat]
  /\ remote_writer \in [Writers -> Entries]
  /\ matched \in [Readers -> SUBSET Writers]

\* The entry of a Writer is never older than its last assertion, and it is
\* LivelinessLost only once the lease is over.
EntryFollows(e, age, lease) ==
  /\ e.state = "Live" => e.age <= age
  /\ e.state = "LivelinessLost" => age > lease

LeaseInv == ReaderTypes /\ \A w \in Writers : EntryFollows(remote_writer[w], heard[w], Lease[w])

LEMMA LeaseNat == \A w \in Writers : Lease[w] \in Nat
BY LivelinessAssumption, DurationAssumption

LEMMA EntryTypes == Unknown \in Entries /\ LivelinessLost \in Entries /\ Live \in Entries
BY DEF Unknown, LivelinessLost, Live, EntryOf, Entries

\* The bounds at which ages stop are natural numbers.
LEMMA LeaseOverNat == \A w \in Writers : LeaseOver(w) \in Nat
BY LeaseNat DEF LeaseOver, Leased

LEMMA OlderGrows ==
  \A a, b, n \in Nat : /\ Older(a, n) \in Nat
                       /\ a <= Older(a, n)
                       /\ a <= b => Older(a, n) <= Older(b, n)
BY DEF Older

\* Storing an assertion of S as Live, and counting it for S, keeps the invariant.
LEMMA Heard ==
  ASSUME NEW S, LeaseInv, HeardOf(S), matched' \in [Readers -> SUBSET Writers],
         remote_writer' \in [Writers -> Entries],
         \A w \in Writers : IF w \in S THEN remote_writer'[w] = Live
                            ELSE remote_writer'[w] \in {remote_writer[w], Live}
  PROVE  LeaseInv'
<1>1. heard' \in [Writers -> Nat] BY DEF HeardOf, LeaseInv, ReaderTypes
<1>2. ASSUME NEW w \in Writers PROVE EntryFollows(remote_writer'[w], heard'[w], Lease[w])
  <2>1. heard'[w] \in Nat BY <1>1
  <2>2. CASE remote_writer'[w] = Live
        BY <2>1, <2>2 DEF EntryFollows, Live, EntryOf
  <2>3. CASE remote_writer'[w] # Live
    <3>1. w \notin S /\ remote_writer'[w] = remote_writer[w] BY <2>3
    <3>2. heard'[w] = heard[w] BY <3>1 DEF HeardOf
    <3>3. EntryFollows(remote_writer[w], heard[w], Lease[w]) BY DEF LeaseInv
    <3> QED BY <3>1, <3>2, <3>3
  <2> QED BY <2>2, <2>3
<1> QED BY <1>1, <1>2 DEF LeaseInv, ReaderTypes

\* write_remote_writer makes the Writer's own entry Live and no entry stale.
LEMMA Written ==
  ASSUME NEW w \in Writers, ReaderTypes
  PROVE  /\ WriteRemoteWriter(w) \in [Writers -> Entries]
         /\ WriteRemoteWriter(w)[w] = Live
         /\ \A v \in Writers : WriteRemoteWriter(w)[v] \in {remote_writer[v], Live}
BY EntryTypes DEF WriteRemoteWriter, ReaderTypes

\* check_liveliness gives up only Writers whose lease is over.
LEMMA LostIsOver ==
  ASSUME LeaseInv, NEW r \in Readers, NEW w \in Lost(r)
  PROVE  w \in Writers /\ heard[w] > Lease[w]
<1>1. w \in Writers BY DEF Lost, LeaseInv, ReaderTypes
<1>2. EntryFollows(remote_writer[w], heard[w], Lease[w]) /\ heard[w] \in Nat
      /\ remote_writer[w] \in Entries /\ Lease[w] \in Nat
      BY <1>1, LeaseNat DEF LeaseInv, ReaderTypes
<1>3. CASE remote_writer[w] = LivelinessLost
      BY <1>1, <1>2, <1>3 DEF EntryFollows, LivelinessLost, EntryOf
<1>4. CASE remote_writer[w].state = "Live" /\ remote_writer[w].age > Lease[w]
  <2>1. remote_writer[w].age \in Nat BY <1>2 DEF Entries
  <2> QED BY <1>1, <1>2, <1>4, <2>1 DEF EntryFollows
<1> QED BY <1>3, <1>4 DEF Lost

LEMMA Checked ==
  ASSUME LeaseInv, NEW r \in Readers, NEW S, S \subseteq Lost(r), CheckLiveliness(r, S),
         heard' = heard
  PROVE  LeaseInv'
<1>1. \A w \in S : w \in Writers /\ heard[w] > Lease[w] BY LostIsOver
<1>2. matched' \in [Readers -> SUBSET Writers] BY DEF CheckLiveliness, LeaseInv, ReaderTypes
<1>3. remote_writer' \in [Writers -> Entries]
      BY EntryTypes DEF CheckLiveliness, LeaseInv, ReaderTypes
<1>4. ASSUME NEW w \in Writers PROVE EntryFollows(remote_writer'[w], heard'[w], Lease[w])
  <2>1. CASE w \in S
    <3>1. remote_writer'[w] = LivelinessLost BY <2>1 DEF CheckLiveliness
    <3> QED BY <1>1, <2>1, <3>1 DEF EntryFollows, LivelinessLost, EntryOf
  <2>2. CASE w \notin S
    <3>1. remote_writer'[w] = remote_writer[w] BY <2>2 DEF CheckLiveliness
    <3> QED BY <3>1 DEF LeaseInv
  <2> QED BY <2>1, <2>2
<1> QED BY <1>2, <1>3, <1>4 DEF LeaseInv, ReaderTypes

LEMMA Ticked == ASSUME LeaseInv, Tick PROVE LeaseInv'
<1>1. \A w \in Writers : /\ heard[w] \in Nat /\ remote_writer[w] \in Entries
                         /\ remote_writer[w].age \in Nat
                         /\ EntryFollows(remote_writer[w], heard[w], Lease[w])
      BY DEF LeaseInv, ReaderTypes, Entries
<1>2. heard' \in [Writers -> Nat] BY <1>1, LeaseOverNat, OlderGrows DEF Tick
<1>3. remote_writer' \in [Writers -> Entries]
      BY <1>1, LeaseOverNat, OlderGrows DEF Tick, EntryOf, Entries
<1>4. ASSUME NEW w \in Writers PROVE EntryFollows(remote_writer'[w], heard'[w], Lease[w])
  <2>1. heard'[w] = Older(heard[w], LeaseOver(w)) /\ LeaseOver(w) \in Nat /\ Lease[w] \in Nat
        BY LeaseOverNat, LeaseNat DEF Tick
  <2>2. heard'[w] \in Nat /\ heard[w] <= heard'[w] BY <2>1, <1>1, OlderGrows
  <2>3. CASE remote_writer[w].state = "Live"
    <3>1. remote_writer'[w] = EntryOf("Live", Older(remote_writer[w].age, LeaseOver(w)))
          BY <2>3 DEF Tick
    <3>2. Older(remote_writer[w].age, LeaseOver(w)) <= heard'[w]
      <4>1. remote_writer[w].age <= heard[w] /\ remote_writer[w].age \in Nat /\ heard[w] \in Nat
            BY <1>1, <2>3 DEF EntryFollows
      <4>2. Older(remote_writer[w].age, LeaseOver(w)) <= Older(heard[w], LeaseOver(w))
            BY <2>1, <4>1, OlderGrows
      <4> QED BY <2>1, <4>2
    <3> QED BY <3>1, <3>2 DEF EntryFollows, EntryOf
  <2>4. CASE remote_writer[w].state # "Live"
    <3>1. remote_writer'[w] = remote_writer[w] BY <2>4 DEF Tick
    <3> QED BY <3>1, <2>1, <2>2, <2>4, <1>1 DEF EntryFollows
  <2> QED BY <2>3, <2>4
<1>5. matched' = matched BY DEF Tick
<1> QED BY <1>2, <1>3, <1>4, <1>5 DEF LeaseInv, ReaderTypes

LEMMA Initially == Init => LeaseInv
BY EntryTypes DEF Init, LeaseInv, ReaderTypes, EntryFollows, Unknown, EntryOf

\* An assertion speaks for its own Writer alone.
LEMMA ForItself == ASSUME NoneByParticipant, NEW w \in Writers PROVE SpeaksFor(w) = {w}
BY DEF SpeaksFor, NoneByParticipant

LEMMA RematchTypes ==
  ASSUME ReaderTypes, NEW r \in Readers, NEW w \in Writers, Rematch(r, w)
  PROVE  matched' \in [Readers -> SUBSET Writers]
BY DEF Rematch, ReaderTypes

LEMMA Inductive == ASSUME NoneByParticipant, LeaseInv, [Next]_vars PROVE LeaseInv'
<1> USE DEF LeaseInv
<1> DEFINE Same == UNCHANGED <<heard, remote_writer, matched>>
<1>1. CASE Same BY <1>1 DEF ReaderTypes
<1>2. CASE UNCHANGED vars
  <2>1. Same BY <1>2 DEF vars, readerVars, historyVars
  <2> QED BY <1>1, <2>1
<1>3. ASSUME NEW w \in Writers,
             Write(w) \/ AssertLiveliness(w) \/ HandleWriterCmd(w) \/ SendHeartbeat(w)
      PROVE  LeaseInv'
  <2>1. Same
        BY <1>3 DEF Write, AssertLiveliness, HandleWriterCmd, SendHeartbeat, readerVars, historyVars
  <2> QED BY <1>1, <2>1
<1>4. ASSUME NEW w \in Writers, ReceiveSedpWriter(w) PROVE LeaseInv'
  <2>1. matched' \in [Readers -> SUBSET Writers] BY <1>4 DEF ReceiveSedpWriter, ReaderTypes
  <2> QED BY <1>4, <2>1, Written, Heard DEF ReceiveSedpWriter
<1>5. ASSUME NEW w \in Writers, NEW r \in Readers, ReceiveData(w, r) PROVE LeaseInv'
  <2>1. CASE Contains(r, w)
    <3>1. Rematch(r, w) /\ remote_writer' = WriteRemoteWriter(w) /\ HeardOf(SpeaksFor(w))
          BY <1>5, <2>1 DEF ReceiveData
    <3> QED BY <3>1, ForItself, Written, Heard, RematchTypes
  <2>2. CASE ~Contains(r, w)
    <3>1. Same BY <1>5, <2>2 DEF ReceiveData
    <3> QED BY <1>1, <3>1
  <2> QED BY <2>1, <2>2
<1>6. ASSUME NEW w \in Writers, NEW r \in Readers, NEW f \in BOOLEAN, ReceiveHeartbeat(w, r, f)
      PROVE  LeaseInv'
  <2>1. matched' \in [Readers -> SUBSET Writers] BY <1>6, RematchTypes DEF ReceiveHeartbeat
  <2>2. CASE f /\ Contains(r, w)
    <3>1. remote_writer' = WriteRemoteWriter(w) /\ HeardOf(SpeaksFor(w))
          BY <1>6, <2>2 DEF ReceiveHeartbeat
    <3> QED BY <2>1, <3>1, ForItself, Written, Heard
  <2>3. CASE ~(f /\ Contains(r, w))
    <3>1. UNCHANGED <<heard, remote_writer>> BY <1>6, <2>3 DEF ReceiveHeartbeat
    <3> QED BY <2>1, <3>1 DEF ReaderTypes
  <2> QED BY <2>2, <2>3
<1>7. ASSUME ReceiveMessage PROVE LeaseInv'
  <2> DEFINE S == {w \in Writers : remote_writer[w] # Unknown /\ KindRead(w) = "Automatic"}
  <2>1. /\ remote_writer' = [w \in Writers |-> IF w \in S THEN Live ELSE remote_writer[w]]
        /\ HeardOf(S) /\ matched' = matched
        BY <1>7 DEF ReceiveMessage
  <2> HIDE DEF S
  <2>2. remote_writer' \in [Writers -> Entries] BY <2>1, EntryTypes DEF ReaderTypes
  <2> QED BY <2>1, <2>2, Heard DEF ReaderTypes
<1>8. ASSUME NEW r \in Readers, SetWlpTimer(r) \/ WlpTimer(r) PROVE LeaseInv'
  <2>1. PICK S : S \subseteq Lost(r) /\ CheckLiveliness(r, S) /\ heard' = heard
        BY <1>8 DEF SetWlpTimer, WlpTimer, historyVars
  <2> QED BY <2>1, Checked
<1>9. ASSUME \/ \E r \in Readers : ReceiveSedpReader(r)
             \/ AssertAutomaticLiveliness \/ CheckManualLiveliness \/ Stop \/ Lose
      PROVE  LeaseInv'
  <2>1. Same BY <1>9 DEF ReceiveSedpReader, AssertAutomaticLiveliness, CheckManualLiveliness,
                         Stop, Lose, readerVars, historyVars
  <2> QED BY <1>1, <2>1
<1> QED BY <1>2, <1>3, <1>4, <1>5, <1>6, <1>7, <1>8, <1>9, Ticked DEF Next

\* Only check_liveliness takes a Writer out of matched_writers.
LEMMA OnlyChecked ==
  ASSUME LeaseInv, [Next]_vars, NEW r \in Readers, NEW w \in Writers,
         w \in matched[r], w \notin matched'[r]
  PROVE  w \in Lost(r)
<1>0. matched \in [Readers -> SUBSET Writers] BY DEF LeaseInv, ReaderTypes
<1>1. matched' # matched OBVIOUS
<1>2. CASE \E v \in Writers : ReceiveSedpWriter(v)
      BY <1>2 DEF ReceiveSedpWriter
<1>3. ASSUME NEW v \in Writers, NEW q \in Readers, Rematch(q, v) PROVE FALSE
      BY <1>0, <1>3 DEF Rematch
<1>4. ASSUME NEW q \in Readers, SetWlpTimer(q) \/ WlpTimer(q) PROVE w \in Lost(r)
  <2>1. PICK S : S \subseteq Lost(q) /\ CheckLiveliness(q, S)
        BY <1>4 DEF SetWlpTimer, WlpTimer
  <2> QED BY <1>0, <2>1 DEF CheckLiveliness
<1>5. CASE UNCHANGED vars BY <1>1, <1>5 DEF vars, readerVars
<1>6. CASE \/ \E v \in Writers : \/ Write(v) \/ AssertLiveliness(v) \/ HandleWriterCmd(v)
                                 \/ SendHeartbeat(v)
           \/ \E q \in Readers : ReceiveSedpReader(q)
           \/ AssertAutomaticLiveliness \/ CheckManualLiveliness \/ Stop \/ Lose
           \/ ReceiveMessage \/ Tick
      BY <1>1, <1>6 DEF Write, AssertLiveliness, HandleWriterCmd, SendHeartbeat,
         ReceiveSedpReader, AssertAutomaticLiveliness, CheckManualLiveliness, Stop, Lose,
         ReceiveMessage, Tick, readerVars
<1>7. ASSUME NEW v \in Writers, NEW q \in Readers,
             ReceiveData(v, q) \/ \E f \in BOOLEAN : ReceiveHeartbeat(v, q, f)
      PROVE  FALSE
  <2>1. Rematch(q, v) \/ matched' = matched BY <1>7 DEF ReceiveData, ReceiveHeartbeat
  <2> QED BY <1>1, <1>3, <2>1
<1> QED BY <1>2, <1>4, <1>5, <1>6, <1>7 DEF Next

\* Where no Writer is ManualByParticipant, Reader::check_liveliness gives up a
\* Writer only when nothing that asserts it came for its lease.
THEOREM LeaseRespected == NoneByParticipant => (Spec => LostOnlyAfterLease)
<1> SUFFICES ASSUME NoneByParticipant PROVE Spec => LostOnlyAfterLease
    OBVIOUS
<1>1. LeaseInv /\ [Next]_vars => LeaseInv' BY Inductive
<1>2. LeaseInv /\ [Next]_vars =>
        [\A r \in Readers, w \in Writers :
           w \in matched[r] /\ w \notin matched'[r] => heard[w] > Lease[w]]_vars
      BY OnlyChecked, LostIsOver
<1> QED BY Initially, <1>1, <1>2, PTL DEF Spec, LostOnlyAfterLease

-----------------------------------------------------------------------------
(* Minima, maxima and the periods the timers are set to *)

LEMMA LeastNat ==
  ASSUME NEW T \in SUBSET Nat, T # {}
  PROVE  \E n \in T : \A m \in T : n <= m
<1>1. PICK n \in T : \A m \in T : ~(<<m, n>> \in OpToRel(<, Nat))
  BY NatLessThanWellFounded, WFMin
<1>2. \A m \in T : ~(m < n)
  BY <1>1 DEF OpToRel
<1> QED BY <1>2

LEMMA MinNat ==
  ASSUME NEW T \in SUBSET Nat, T # {}
  PROVE  Min(T) \in T /\ \A m \in T : Min(T) <= m
BY LeastNat DEF Min

LEMMA MaxNat ==
  ASSUME NEW T \in SUBSET Nat, T # {}, NEW b \in Nat, \A m \in T : m <= b
  PROVE  Max(T) \in T /\ \A m \in T : m <= Max(T)
<1> DEFINE U == {n \in Nat : \A m \in T : m <= n}
<1>1. U \in SUBSET Nat /\ U # {} OBVIOUS
<1> HIDE DEF U
<1>2. PICK n \in U : \A m \in U : n <= m BY <1>1, LeastNat
<1>3. n \in Nat /\ \A m \in T : m <= n BY <1>2 DEF U
<1>4. n \in T
  <2> SUFFICES ASSUME n \notin T PROVE FALSE OBVIOUS
  <2>1. \A m \in T : m \in Nat /\ m <= n - 1 BY <1>3
  <2>2. PICK m \in T : TRUE OBVIOUS
  <2>3. n - 1 \in Nat BY <2>1, <2>2, <1>3
  <2>4. n - 1 \in U BY <2>1, <2>3 DEF U
  <2> QED BY <2>4, <1>2, <1>3
<1>5. \E x \in T : \A y \in T : x >= y BY <1>3, <1>4
<1> QED BY <1>5 DEF Max

\* No timeout a Reader sets is longer than LongestPeriod, in particular none is
\* Duration::INFINITE.
LEMMA Periods ==
  /\ LongestPeriod \in Nat /\ IdlePeriod <= LongestPeriod
  /\ \A w \in Leased : Lease[w] <= LongestPeriod
<1> DEFINE T == {IdlePeriod} \cup {Lease[w] : w \in Leased}
           b == IdlePeriod + MaxSeconds
<1>1. /\ IdlePeriod \in Nat /\ MaxSeconds \in Nat
      /\ \A w \in Writers : Lease[w] \in Nat /\ Lease[w] <= MaxSeconds
      BY LivelinessAssumption, DurationAssumption
<1>2. T \in SUBSET Nat /\ T # {} /\ b \in Nat /\ \A m \in T : m <= b BY <1>1 DEF Leased
<1>3. IdlePeriod \in T /\ \A w \in Leased : Lease[w] \in T OBVIOUS
<1> HIDE DEF T, b
<1>4. Max(T) \in T /\ \A m \in T : m <= Max(T) BY <1>2, MaxNat
<1>5. LongestPeriod = Max(T) BY DEF LongestPeriod, T
<1> QED BY <1>2, <1>3, <1>4, <1>5

LEMMA MinLeasePeriod ==
  ASSUME NEW S \in SUBSET Writers PROVE MinLease(S) \in 0..LongestPeriod
<1>1. CASE S \cap Leased = {}
      BY <1>1, Periods, LivelinessAssumption DEF MinLease
<1>2. CASE S \cap Leased # {}
  <2> DEFINE T == {Lease[w] : w \in S \cap Leased}
  <2>1. T \in SUBSET Nat /\ T # {} BY <1>2, LeaseNat
  <2>2. \A m \in T : m <= LongestPeriod BY Periods
  <2>3. MinLease(S) = Min(T) BY <1>2 DEF MinLease
  <2> HIDE DEF T
  <2>4. Min(T) \in T BY <2>1, MinNat
  <2>5. Min(T) \in Nat /\ Min(T) <= LongestPeriod BY <2>1, <2>2, <2>4
  <2>6. LongestPeriod \in Nat BY Periods
  <2> QED BY <2>3, <2>5, <2>6
<1> QED BY <1>1, <1>2

LEMMA CheckPeriods ==
  ASSUME Manual \cap Leased # {}
  PROVE  CheckPeriod \in 0..LongestPeriod /\ CheckPeriod \in Nat
<1> DEFINE T == {Half(Lease[w]) : w \in Manual \cap Leased}
<1>1. \A n \in Nat : Half(n) \in Nat /\ Half(n) <= n BY DEF Half
<1>2. \A w \in Manual \cap Leased : Half(Lease[w]) \in Nat /\ Half(Lease[w]) <= LongestPeriod
  <2> TAKE w \in Manual \cap Leased
  <2>1. Lease[w] \in Nat /\ Lease[w] <= LongestPeriod BY LeaseNat, Periods DEF Leased
  <2>2. Half(Lease[w]) \in Nat /\ Half(Lease[w]) <= Lease[w] BY <1>1, <2>1
  <2> QED BY <2>1, <2>2, Periods
<1>3. T \in SUBSET Nat /\ T # {} /\ \A m \in T : m <= LongestPeriod BY <1>2
<1>4. CheckPeriod = Min(T) BY DEF CheckPeriod
<1> HIDE DEF T
<1>5. Min(T) \in T BY <1>3, MinNat
<1>6. Min(T) \in Nat /\ Min(T) <= LongestPeriod BY <1>3, <1>5
<1>7. LongestPeriod \in Nat BY Periods
<1> QED BY <1>4, <1>6, <1>7

\* The bounds at which ages stop are natural numbers.
LEMMA Bounds ==
  /\ \A w \in Writers : /\ LeaseOver(w) \in Nat /\ HalfLeaseOver(w) \in Nat
                        /\ ReportOverdue(w) \in Nat
  /\ LongSilence \in Nat
<1>1. \A n \in Nat : Half(n) \in Nat BY DEF Half
<1>2. ASSUME NEW w \in Writers PROVE HalfLeaseOver(w) \in Nat
      BY <1>1, LeaseNat DEF HalfLeaseOver, Leased
<1>3. ASSUME NEW w \in Writers PROVE ReportOverdue(w) \in Nat
  <2>1. CASE w \in Leased \cap Manual BY <2>1, LeaseNat, CheckPeriods DEF ReportOverdue
  <2>2. CASE w \notin Leased \cap Manual BY <2>2 DEF ReportOverdue
  <2> QED BY <2>1, <2>2
<1> QED BY <1>2, <1>3, LeaseOverNat, Periods DEF LongSilence

LEMMA OlderBounded == \A n \in Nat : \A a \in 0..n : Older(a, n) \in 0..n
BY DEF Older

-----------------------------------------------------------------------------
(* Type correctness *)

\* TypeOK by the parts that the actions change together.
AgeTypes ==
  /\ \A f \in {last_added, local_writer, asserted} : DOMAIN f = Writers
  /\ \A w \in Writers : /\ last_added[w] \in 0..LeaseOver(w)
                        /\ local_writer[w] \in 0..HalfLeaseOver(w)
                        /\ asserted[w] \in 0..ReportOverdue(w)

AssertTypes ==
  /\ is_alive \in [Writers -> BOOLEAN]
  /\ commands \in [Writers -> SUBSET {"WriteData", "AssertLiveliness"}]
  /\ proxies \in [Writers -> SUBSET Readers]
  /\ sent \in [Writers -> SUBSET Readers]
  /\ \A w \in Writers : sent[w] \subseteq proxies[w]

TimerTypes == /\ assert_timer \in 0..AssertPeriod
              /\ check_timer = Off \/ (Manual \cap Leased # {} /\ check_timer \in 0..CheckPeriod)

KnownEntries(w) == {Unknown, LivelinessLost} \cup {EntryOf("Live", a) : a \in 0..LeaseOver(w)}

HeardTypes == /\ DOMAIN heard = Writers
              /\ \A w \in Writers : heard[w] \in 0..LeaseOver(w)
              /\ silent \in 0..LongSilence

EntriesTyped == /\ DOMAIN remote_writer = Writers
                /\ \A w \in Writers : remote_writer[w] \in KnownEntries(w)

MatchTypes == matched \in [Readers -> SUBSET Writers] /\ unmatched \in [Readers -> SUBSET Writers]

WlpTypes == /\ wlp_timer \in [Readers -> {Off} \cup 0..LongestPeriod]
            /\ set_wlp \subseteq Readers

TypeInv == /\ running \in BOOLEAN /\ panicked \in BOOLEAN
           /\ AgeTypes /\ AssertTypes /\ TimerTypes /\ net \subseteq Datagrams
           /\ HeardTypes /\ EntriesTyped /\ MatchTypes /\ WlpTypes

LEMMA TypeInvIsTypeOK == TypeInv => TypeOK
<1> SUFFICES ASSUME TypeInv PROVE TypeOK OBVIOUS
<1>1. check_timer \in {Off} \cup 0..LongestPeriod
  <2>1. CASE check_timer = Off BY <2>1
  <2>2. CASE check_timer # Off
    <3>1. Manual \cap Leased # {} /\ check_timer \in 0..CheckPeriod
          BY <2>2 DEF TypeInv, TimerTypes
    <3>2. CheckPeriod \in 0..LongestPeriod /\ LongestPeriod \in Nat BY <3>1, CheckPeriods, Periods
    <3> QED BY <3>1, <3>2
  <2> QED BY <2>1, <2>2
<1> QED BY <1>1 DEF TypeInv, TypeOK, AgeTypes, AssertTypes, TimerTypes, HeardTypes, EntriesTyped,
                    MatchTypes, WlpTypes, KnownEntries

LEMMA LiveKnown == \A w \in Writers : {Live, LivelinessLost, Unknown} \subseteq KnownEntries(w)
BY LeaseOverNat DEF KnownEntries, Live

LEMMA TypesInitially == Init => TypeInv
<1> SUFFICES ASSUME Init PROVE TypeInv OBVIOUS
<1>1. AgeTypes /\ HeardTypes BY Bounds DEF Init, AgeTypes, HeardTypes
<1>2. AssertTypes BY DEF Init, AssertTypes
<1>3. TimerTypes
  <2>1. assert_timer \in 0..AssertPeriod BY LivelinessAssumption DEF Init
  <2>2. CASE Manual \cap Leased = {}
    <3>1. check_timer = Off BY <2>2 DEF Init
    <3> QED BY <2>1, <3>1 DEF TimerTypes
  <2>3. CASE Manual \cap Leased # {}
    <3>1. check_timer = CheckPeriod /\ CheckPeriod \in Nat BY <2>3, CheckPeriods DEF Init
    <3> QED BY <2>1, <2>3, <3>1 DEF TimerTypes
  <2> QED BY <2>2, <2>3
<1>4. EntriesTyped BY LiveKnown DEF Init, EntriesTyped
<1>5. MatchTypes /\ WlpTypes BY DEF Init, MatchTypes, WlpTypes
<1>6. running \in BOOLEAN /\ panicked \in BOOLEAN /\ net \subseteq Datagrams BY DEF Init
<1> QED BY <1>1, <1>2, <1>3, <1>4, <1>5, <1>6 DEF TypeInv

\* What a step of one side leaves alone on the other.
LEMMA ReaderSideKept ==
  ASSUME TypeInv, UNCHANGED readerVars, UNCHANGED historyVars
  PROVE  panicked' \in BOOLEAN /\ HeardTypes' /\ EntriesTyped' /\ MatchTypes' /\ WlpTypes'
BY DEF TypeInv, readerVars, historyVars, HeardTypes, EntriesTyped, MatchTypes, WlpTypes

LEMMA WriterSideKept ==
  ASSUME TypeInv, UNCHANGED writerVars
  PROVE  running' \in BOOLEAN /\ AgeTypes' /\ AssertTypes' /\ TimerTypes'
BY DEF TypeInv, writerVars, AgeTypes, AssertTypes, TimerTypes

LEMMA WriterStepTypes ==
  ASSUME TypeInv, NEW w \in Writers,
         Write(w) \/ AssertLiveliness(w) \/ HandleWriterCmd(w) \/ SendHeartbeat(w)
  PROVE  TypeInv'
<1>1. panicked' \in BOOLEAN /\ HeardTypes' /\ EntriesTyped' /\ MatchTypes' /\ WlpTypes'
  <2>1. UNCHANGED readerVars /\ UNCHANGED historyVars
        BY DEF Write, AssertLiveliness, HandleWriterCmd, SendHeartbeat
  <2> QED BY <2>1, ReaderSideKept
<1>2. UNCHANGED <<running, assert_timer, check_timer, proxies>>
      BY DEF Write, AssertLiveliness, HandleWriterCmd, SendHeartbeat, writerVars
<1>3. /\ last_added' \in {last_added, [last_added EXCEPT ![w] = 0]}
      /\ local_writer' \in {local_writer, [local_writer EXCEPT ![w] = 0]}
      /\ asserted' \in {asserted, [asserted EXCEPT ![w] = 0]}
      BY DEF Write, AssertLiveliness, HandleWriterCmd, SendHeartbeat, writerVars
<1>4. AgeTypes' BY <1>3, Bounds DEF TypeInv, AgeTypes
<1>5. AssertTypes'
  <2>1. commands' \in [Writers -> SUBSET {"WriteData", "AssertLiveliness"}]
    <3>1. \/ commands' = commands
          \/ \E c \in {{}, commands[w] \cup {"WriteData"}, commands[w] \cup {"AssertLiveliness"}} :
               commands' = [commands EXCEPT ![w] = c]
          BY DEF Write, AssertLiveliness, HandleWriterCmd, SendHeartbeat, writerVars
    <3> QED BY <3>1 DEF TypeInv, AssertTypes
  <2>2. is_alive' \in [Writers -> BOOLEAN]
    <3>1. is_alive' = is_alive \/ is_alive' = [is_alive EXCEPT ![w] = TRUE]
          BY DEF Write, AssertLiveliness, HandleWriterCmd, SendHeartbeat, writerVars
    <3> QED BY <3>1 DEF TypeInv, AssertTypes
  <2>3. sent' = sent \/ sent' = [sent EXCEPT ![w] = proxies[w]]
    <3>1. CASE HandleWriterCmd(w)
      <4>1. sent' = [sent EXCEPT ![w] = IF "WriteData" \in commands[w] THEN proxies[w] ELSE @]
            BY <3>1 DEF HandleWriterCmd
      <4> QED BY <4>1 DEF TypeInv, AssertTypes
    <3>2. CASE ~HandleWriterCmd(w)
          BY <3>2 DEF Write, AssertLiveliness, SendHeartbeat, writerVars
    <3> QED BY <3>1, <3>2
  <2> QED BY <1>2, <2>1, <2>2, <2>3 DEF TypeInv, AssertTypes
<1>6. net' \subseteq Datagrams
  <2>1. proxies[w] \subseteq Readers BY DEF TypeInv, AssertTypes
  <2>2. /\ {Data(w, r) : r \in proxies[w]} \subseteq Datagrams
        /\ {Heartbeat(w, r, TRUE) : r \in proxies[w]} \subseteq Datagrams
        /\ {Heartbeat(w, r, FALSE) : r \in proxies[w]} \subseteq Datagrams
    <3>1. ASSUME NEW r \in Readers, NEW f \in BOOLEAN
          PROVE  Data(w, r) \in Datagrams /\ Heartbeat(w, r, f) \in Datagrams
      <4>1. Data(w, r) \in {Data(v, q) : v \in Writers, q \in Readers} OBVIOUS
      <4>2. Heartbeat(w, r, f) \in {Heartbeat(v, q, g) : v \in Writers, q \in Readers, g \in BOOLEAN}
            OBVIOUS
      <4> QED BY <4>1, <4>2 DEF Datagrams
    <3> QED BY <2>1, <3>1
  <2>3. net \subseteq Datagrams BY DEF TypeInv
  <2> QED BY <2>2, <2>3 DEF Write, AssertLiveliness, HandleWriterCmd, SendHeartbeat
<1>7. running' \in BOOLEAN /\ TimerTypes' BY <1>2 DEF TypeInv, TimerTypes
<1> QED BY <1>1, <1>4, <1>5, <1>6, <1>7 DEF TypeInv

LEMMA WriterTimerTypes ==
  ASSUME TypeInv, \/ \E r \in Readers : ReceiveSedpReader(r)
                  \/ AssertAutomaticLiveliness \/ CheckManualLiveliness \/ Stop
  PROVE  TypeInv'
<1>1. panicked' \in BOOLEAN /\ HeardTypes' /\ EntriesTyped' /\ MatchTypes' /\ WlpTypes'
  <2>1. UNCHANGED readerVars /\ UNCHANGED historyVars
        BY DEF ReceiveSedpReader, AssertAutomaticLiveliness, CheckManualLiveliness, Stop
  <2> QED BY <2>1, ReaderSideKept
<1>2. running' \in BOOLEAN
      BY DEF TypeInv, ReceiveSedpReader, AssertAutomaticLiveliness, CheckManualLiveliness, Stop
<1>3. net' \subseteq Datagrams
      BY DEF TypeInv, ReceiveSedpReader, AssertAutomaticLiveliness, CheckManualLiveliness, Stop,
             Datagrams
<1>4. AgeTypes'
      BY Bounds DEF TypeInv, ReceiveSedpReader, AssertAutomaticLiveliness, CheckManualLiveliness,
                    Stop, AgeTypes
<1>5. AssertTypes'
  <2>1. /\ commands' \in [Writers -> SUBSET {"WriteData", "AssertLiveliness"}]
        /\ proxies' \in [Writers -> SUBSET Readers] /\ sent' \in [Writers -> SUBSET Readers]
        /\ \A w \in Writers : sent'[w] \subseteq proxies'[w]
        BY DEF TypeInv, ReceiveSedpReader, AssertAutomaticLiveliness, CheckManualLiveliness, Stop,
               AssertTypes
  <2>2. CASE is_alive' = is_alive \/ Stop
    <3>1. is_alive' \in [Writers -> BOOLEAN] BY <2>2 DEF TypeInv, AssertTypes, Stop
    <3> QED BY <2>1, <3>1 DEF AssertTypes
  <2>3. CASE AssertAutomaticLiveliness
    <3>1. is_alive' = [w \in Writers |-> w \in Asserting \/ is_alive[w]]
          BY <2>3 DEF AssertAutomaticLiveliness
    <3>2. is_alive' \in [Writers -> BOOLEAN] BY <3>1, Zenon
    <3> QED BY <2>1, <3>2 DEF AssertTypes
  <2>4. CASE CheckManualLiveliness
    <3>1. is_alive' = [w \in Writers |->
                         is_alive[w] /\ ~(w \in Manual \cap Leased /\ last_added[w] > Lease[w])]
          BY <2>4 DEF CheckManualLiveliness
    <3>2. is_alive' \in [Writers -> BOOLEAN] BY <3>1, Zenon
    <3> QED BY <2>1, <3>2 DEF AssertTypes
  <2> QED BY <2>2, <2>3, <2>4 DEF ReceiveSedpReader
<1>6. TimerTypes'
  <2>1. AssertPeriod \in 0..AssertPeriod BY LivelinessAssumption
  <2>2. CASE CheckManualLiveliness
    <3>1. check_timer = 0 /\ check_timer' = CheckPeriod /\ assert_timer' = assert_timer
          BY <2>2 DEF CheckManualLiveliness
    <3>2. Manual \cap Leased # {} BY <3>1 DEF TypeInv, TimerTypes, Off
    <3>3. CheckPeriod \in Nat BY <3>2, CheckPeriods
    <3> QED BY <3>1, <3>2, <3>3 DEF TypeInv, TimerTypes
  <2>3. CASE ~CheckManualLiveliness
    <3>1. /\ assert_timer' \in {assert_timer, AssertPeriod}
          /\ check_timer' \in {check_timer, Off}
          BY <2>3 DEF ReceiveSedpReader, AssertAutomaticLiveliness, Stop
    <3> QED BY <2>1, <3>1 DEF TypeInv, TimerTypes
  <2> QED BY <2>2, <2>3
<1> QED BY <1>1, <1>2, <1>3, <1>4, <1>5, <1>6 DEF TypeInv

LEMMA HeardStays ==
  ASSUME HeardTypes, NEW S, HeardOf(S), silent' \in 0..LongSilence PROVE HeardTypes'
BY Bounds DEF HeardTypes, HeardOf

LEMMA WrittenTypes ==
  ASSUME EntriesTyped, NEW w \in Writers, remote_writer' = WriteRemoteWriter(w)
  PROVE  EntriesTyped'
BY LiveKnown DEF EntriesTyped, WriteRemoteWriter

LEMMA RematchedTypes ==
  ASSUME MatchTypes, NEW r \in Readers, NEW w \in Writers, Rematch(r, w)
  PROVE  MatchTypes'
BY DEF MatchTypes, Rematch

LEMMA CheckedTypes ==
  ASSUME MatchTypes, EntriesTyped, NEW r \in Readers, NEW S \in SUBSET Writers,
         CheckLiveliness(r, S)
  PROVE  MatchTypes' /\ EntriesTyped'
BY LiveKnown DEF MatchTypes, EntriesTyped, CheckLiveliness

LEMMA ReceiveTypes ==
  ASSUME TypeInv,
         \/ \E w \in Writers : ReceiveSedpWriter(w)
         \/ \E w \in Writers, r \in Readers :
              ReceiveData(w, r) \/ \E f \in BOOLEAN : ReceiveHeartbeat(w, r, f)
         \/ ReceiveMessage
  PROVE  TypeInv'
<1>1. running' \in BOOLEAN /\ AgeTypes' /\ AssertTypes' /\ TimerTypes'
  <2>1. UNCHANGED writerVars
        BY DEF ReceiveSedpWriter, ReceiveData, ReceiveHeartbeat, ReceiveMessage
  <2> QED BY <2>1, WriterSideKept
<1>2. net' \subseteq Datagrams /\ silent' \in 0..LongSilence
  <2>1. net' \subseteq net /\ silent' = 0
        BY DEF ReceiveSedpWriter, ReceiveData, ReceiveHeartbeat, ReceiveMessage
  <2> QED BY <2>1, Bounds DEF TypeInv
<1>3. panicked' \in BOOLEAN
      BY DEF TypeInv, ReceiveSedpWriter, ReceiveData, ReceiveHeartbeat, ReceiveMessage
<1>4. HeardTypes'
  <2>1. UNCHANGED heard \/ \E S : HeardOf(S)
        BY DEF ReceiveSedpWriter, ReceiveData, ReceiveHeartbeat, ReceiveMessage
  <2>2. CASE UNCHANGED heard BY <1>2, <2>2 DEF TypeInv, HeardTypes
  <2>3. CASE \E S : HeardOf(S) BY <1>2, <2>3, HeardStays DEF TypeInv
  <2> QED BY <2>1, <2>2, <2>3
<1>5. EntriesTyped'
  <2>1. CASE ReceiveMessage
        BY <2>1, LiveKnown DEF ReceiveMessage, TypeInv, EntriesTyped
  <2>2. CASE ~ReceiveMessage
    <3>1. UNCHANGED remote_writer \/ \E w \in Writers : remote_writer' = WriteRemoteWriter(w)
          BY <2>2 DEF ReceiveSedpWriter, ReceiveData, ReceiveHeartbeat
    <3>2. CASE UNCHANGED remote_writer BY <3>2 DEF TypeInv, EntriesTyped
    <3> QED BY <3>1, <3>2, WrittenTypes DEF TypeInv
  <2> QED BY <2>1, <2>2
<1>6. MatchTypes'
  <2>1. CASE \E w \in Writers : ReceiveSedpWriter(w)
        BY <2>1 DEF ReceiveSedpWriter, TypeInv, MatchTypes
  <2>2. CASE ~\E w \in Writers : ReceiveSedpWriter(w)
    <3>1. UNCHANGED <<matched, unmatched>> \/ \E r \in Readers, w \in Writers : Rematch(r, w)
          BY <2>2 DEF ReceiveData, ReceiveHeartbeat, ReceiveMessage
    <3>2. CASE UNCHANGED <<matched, unmatched>> BY <3>2 DEF TypeInv, MatchTypes
    <3> QED BY <3>1, <3>2, RematchedTypes DEF TypeInv
  <2> QED BY <2>1, <2>2
<1>7. WlpTypes'
  <2>1. UNCHANGED wlp_timer /\ set_wlp' \in {set_wlp, Readers}
        BY DEF ReceiveSedpWriter, ReceiveData, ReceiveHeartbeat, ReceiveMessage
  <2> QED BY <2>1 DEF TypeInv, WlpTypes
<1> QED BY <1>1, <1>2, <1>3, <1>4, <1>5, <1>6, <1>7 DEF TypeInv

LEMMA ReaderTimerTypes ==
  ASSUME TypeInv, NEW r \in Readers, SetWlpTimer(r) \/ WlpTimer(r) PROVE TypeInv'
<1>1. PICK S \in SUBSET Lost(r) : CheckLiveliness(r, S)
      BY DEF SetWlpTimer, WlpTimer
<1>2. Lost(r) \subseteq Writers /\ matched[r] \subseteq Writers
      BY DEF Lost, TypeInv, MatchTypes
<1>3. MatchTypes' /\ EntriesTyped' BY <1>1, <1>2, CheckedTypes DEF TypeInv
<1>4. PICK T \in SUBSET Writers : wlp_timer' = [wlp_timer EXCEPT ![r] = MinLease(T)]
  <2>1. matched[r] \in SUBSET Writers /\ (matched[r] \ Lost(r)) \in SUBSET Writers BY <1>2
  <2> QED BY <2>1 DEF SetWlpTimer, WlpTimer
<1>5. WlpTypes'
  <2>1. MinLease(T) \in 0..LongestPeriod BY <1>4, MinLeasePeriod
  <2>2. set_wlp' \subseteq set_wlp BY DEF SetWlpTimer, WlpTimer
  <2> QED BY <1>4, <2>1, <2>2 DEF TypeInv, WlpTypes
<1>6. UNCHANGED <<writerVars, panicked, historyVars, net>> BY DEF SetWlpTimer, WlpTimer
<1>7. running' \in BOOLEAN /\ AgeTypes' /\ AssertTypes' /\ TimerTypes' BY <1>6, WriterSideKept
<1>8. panicked' \in BOOLEAN /\ HeardTypes' /\ net' \subseteq Datagrams
      BY <1>6 DEF TypeInv, HeardTypes, historyVars
<1> QED BY <1>3, <1>5, <1>7, <1>8 DEF TypeInv

LEMMA CountDownTypes ==
  /\ CountDown(Off) = Off
  /\ \A b \in Nat : \A t \in 0..b : CountDown(t) \in 0..b
BY DEF CountDown, Off

LEMMA TickTypes == ASSUME TypeInv, Tick PROVE TypeInv'
<1>1. UNCHANGED <<running, is_alive, commands, proxies, sent, net, matched, unmatched, set_wlp,
                 panicked>>
      BY DEF Tick
<1>2. /\ running' \in BOOLEAN /\ panicked' \in BOOLEAN /\ net' \subseteq Datagrams
      /\ AssertTypes' /\ MatchTypes'
      BY <1>1 DEF TypeInv, AssertTypes, MatchTypes
<1>3. AgeTypes'
  <2>1. CASE running
    <3>1. /\ last_added' = [w \in Writers |-> Older(last_added[w], LeaseOver(w))]
          /\ local_writer' = [w \in Writers |-> Older(local_writer[w], HalfLeaseOver(w))]
          /\ asserted' = [w \in Writers |-> Older(asserted[w], ReportOverdue(w))]
          BY <2>1 DEF Tick
    <3> QED BY <3>1, Bounds, OlderBounded DEF TypeInv, AgeTypes
  <2>2. CASE ~running
    <3>1. UNCHANGED <<last_added, local_writer, asserted>> BY <2>2 DEF Tick
    <3> QED BY <3>1 DEF TypeInv, AgeTypes
  <2> QED BY <2>1, <2>2
<1>4. HeardTypes' BY Bounds, OlderBounded DEF Tick, TypeInv, HeardTypes
<1>5. EntriesTyped'
  <2>1. remote_writer' = [w \in Writers |->
                            IF remote_writer[w].state = "Live"
                            THEN EntryOf("Live", Older(remote_writer[w].age, LeaseOver(w)))
                            ELSE remote_writer[w]]
        BY DEF Tick
  <2>2. ASSUME NEW w \in Writers PROVE remote_writer'[w] \in KnownEntries(w)
    <3>1. remote_writer[w] \in KnownEntries(w) BY DEF TypeInv, EntriesTyped
    <3>2. CASE remote_writer[w].state # "Live" BY <2>1, <3>1, <3>2
    <3>3. CASE remote_writer[w].state = "Live"
      <4>1. PICK a \in 0..LeaseOver(w) : remote_writer[w] = EntryOf("Live", a)
            BY <3>1, <3>3 DEF KnownEntries, Unknown, LivelinessLost, EntryOf
      <4>2. remote_writer[w].age = a BY <4>1 DEF EntryOf
      <4>3. Older(a, LeaseOver(w)) \in 0..LeaseOver(w) BY OlderBounded, LeaseOverNat
      <4>4. remote_writer'[w] = EntryOf("Live", Older(a, LeaseOver(w))) BY <2>1, <3>3, <4>2
      <4> QED BY <4>3, <4>4 DEF KnownEntries
    <3> QED BY <3>2, <3>3
  <2> QED BY <2>1, <2>2 DEF EntriesTyped
<1>6. TimerTypes'
  <2>1. CASE running
    <3>1. assert_timer' = CountDown(assert_timer) /\ check_timer' = CountDown(check_timer)
          BY <2>1 DEF Tick
    <3>2. assert_timer' \in 0..AssertPeriod
          BY <3>1, CountDownTypes, LivelinessAssumption DEF TypeInv, TimerTypes
    <3>3. CASE check_timer = Off BY <3>1, <3>2, <3>3, CountDownTypes DEF TimerTypes
    <3>4. CASE check_timer # Off
      <4>1. Manual \cap Leased # {} /\ check_timer \in 0..CheckPeriod
            BY <3>4 DEF TypeInv, TimerTypes
      <4>2. CheckPeriod \in Nat BY <4>1, CheckPeriods
      <4>3. check_timer' \in 0..CheckPeriod BY <3>1, <4>1, <4>2, CountDownTypes
      <4> QED BY <3>2, <4>1, <4>3 DEF TimerTypes
    <3> QED BY <3>3, <3>4
  <2>2. CASE ~running
    <3>1. UNCHANGED <<assert_timer, check_timer>> BY <2>2 DEF Tick
    <3> QED BY <3>1 DEF TypeInv, TimerTypes
  <2> QED BY <2>1, <2>2
<1>7. WlpTypes'
  <2>1. wlp_timer' = [r \in Readers |-> CountDown(wlp_timer[r])] BY DEF Tick
  <2>2. \A r \in Readers : CountDown(wlp_timer[r]) \in {Off} \cup 0..LongestPeriod
        BY CountDownTypes, Periods DEF TypeInv, WlpTypes
  <2> QED BY <1>1, <2>1, <2>2 DEF TypeInv, WlpTypes
<1> QED BY <1>2, <1>3, <1>4, <1>5, <1>6, <1>7 DEF TypeInv

LEMMA TypesKept == ASSUME TypeInv, [Next]_vars PROVE TypeInv'
<1>1. CASE UNCHANGED vars
  <2>1. UNCHANGED writerVars /\ UNCHANGED readerVars /\ UNCHANGED historyVars /\ UNCHANGED net
        BY <1>1 DEF vars
  <2> QED BY <2>1, ReaderSideKept, WriterSideKept DEF TypeInv
<1>2. CASE Lose
  <2>1. UNCHANGED writerVars /\ UNCHANGED readerVars /\ UNCHANGED historyVars /\ net' \subseteq net
        BY <1>2 DEF Lose
  <2> QED BY <2>1, ReaderSideKept, WriterSideKept DEF TypeInv
<1> QED BY <1>1, <1>2, WriterStepTypes, WriterTimerTypes, ReceiveTypes, ReaderTimerTypes,
           TickTypes DEF Next

\* Every age, timer, entry and datagram of the liveliness protocol keeps its type
\* for any Writers, Readers, leases and periods; in particular no age passes the
\* bound where it stops and no timer is set to Duration::INFINITE.
THEOREM TypeCorrect == Spec => []TypeOK
BY TypesInitially, TypesKept, TypeInvIsTypeOK, PTL DEF Spec

-----------------------------------------------------------------------------
(* A silent participant is detected *)

\* A Writer that a Reader contains has an entry, whose age is no less than the
\* silence of the participant unless it has stopped growing.
Aged(w) ==
  \/ remote_writer[w] = LivelinessLost
  \/ /\ remote_writer[w].state = "Live"
     /\ \/ remote_writer[w].age = LeaseOver(w)
        \/ silent <= remote_writer[w].age

\* A Reader that contains a Writer watches: SET_WLP_TIMER waits, and then a
\* datagram has just been received, or the timer runs, and its timeout and the
\* silence so far do not exceed a lease and the longest timeout.
Watches(r) ==
  \/ r \in set_wlp /\ silent = 0
  \/ /\ wlp_timer[r] # Off
     /\ \A w \in matched[r] \cap Leased : silent + wlp_timer[r] <= Lease[w] + LongestPeriod

WatchInv ==
  /\ TypeInv
  /\ ~panicked => /\ set_wlp # {} => silent = 0
                  /\ \A r \in Readers : \A w \in matched[r] \cup unmatched[r] : Aged(w) /\ Watches(r)

LEMMA WatchInvDetects == WatchInv => DetectedInTime
<1> SUFFICES ASSUME WatchInv, ~panicked, NEW r \in Readers, NEW w \in matched[r] \cap Leased
             PROVE  silent <= Lease[w] + LongestPeriod
    BY DEF DetectedInTime
<1>1. Watches(r) BY DEF WatchInv
<1>2. w \in Writers /\ Lease[w] \in Nat /\ LongestPeriod \in Nat /\ silent \in Nat
      BY LeaseNat, Periods, Bounds DEF WatchInv, TypeInv, MatchTypes, HeardTypes
<1>3. CASE silent = 0 BY <1>2, <1>3
<1>4. CASE /\ wlp_timer[r] # Off
           /\ \A v \in matched[r] \cap Leased : silent + wlp_timer[r] <= Lease[v] + LongestPeriod
  <2>1. wlp_timer[r] \in Nat BY <1>4, Periods DEF WatchInv, TypeInv, WlpTypes
  <2> QED BY <1>2, <1>4, <2>1
<1> QED BY <1>1, <1>3, <1>4 DEF Watches

LEMMA WatchInitially == Init => WatchInv
BY TypesInitially DEF Init, WatchInv

\* A step that leaves what the Readers keep alone.
LEMMA WatchUntouched ==
  ASSUME WatchInv, TypeInv', UNCHANGED readerVars, UNCHANGED silent PROVE WatchInv'
BY DEF WatchInv, readerVars, Aged, Watches

\* With a datagram just received every running timer is soon enough, whatever
\* is matched.
LEMMA FreshWatches ==
  ASSUME WatchInv, ~panicked, silent' = 0, TypeInv', UNCHANGED <<wlp_timer>>,
         NEW r \in Readers, matched[r] \cup unmatched[r] # {} \/ r \in set_wlp',
         set_wlp \subseteq set_wlp'
  PROVE  Watches(r)'
<1>1. CASE r \in set_wlp' BY <1>1 DEF Watches
<1>2. CASE r \notin set_wlp'
  <2>1. Watches(r) /\ r \notin set_wlp BY <1>2 DEF WatchInv
  <2>2. wlp_timer[r] # Off BY <2>1 DEF Watches
  <2>3. wlp_timer[r] \in 0..LongestPeriod /\ LongestPeriod \in Nat
        BY <2>2, Periods DEF WatchInv, TypeInv, WlpTypes
  <2>4. \A w \in matched'[r] : Lease[w] \in Nat BY LeaseNat DEF TypeInv, MatchTypes
  <2> QED BY <2>2, <2>3, <2>4 DEF Watches
<1> QED BY <1>1, <1>2

\* ... and every entry is old enough.
LEMMA FreshAged ==
  ASSUME TypeInv', silent' = 0, NEW w \in Writers, remote_writer'[w] # Unknown
  PROVE  Aged(w)'
<1>1. remote_writer'[w] \in KnownEntries(w) BY DEF TypeInv, EntriesTyped
<1>2. CASE remote_writer'[w] = LivelinessLost BY <1>2 DEF Aged
<1>3. ASSUME NEW a \in 0..LeaseOver(w), remote_writer'[w] = EntryOf("Live", a) PROVE Aged(w)'
      BY <1>3, LeaseOverNat DEF Aged, EntryOf
<1> QED BY <1>1, <1>2, <1>3 DEF KnownEntries

LEMMA AgedKnown == ASSUME NEW w, Aged(w) PROVE remote_writer[w] # Unknown
BY DEF Aged, Unknown, LivelinessLost, EntryOf

LEMMA WatchReceive ==
  ASSUME WatchInv, TypeInv',
         \/ \E w \in Writers : ReceiveSedpWriter(w)
         \/ \E w \in Writers, r \in Readers :
              ReceiveData(w, r) \/ \E f \in BOOLEAN : ReceiveHeartbeat(w, r, f)
         \/ ReceiveMessage
  PROVE  WatchInv'
<1>1. ~panicked /\ silent' = 0 /\ UNCHANGED wlp_timer
      BY DEF ReceiveSedpWriter, ReceiveData, ReceiveHeartbeat, ReceiveMessage
<1>2. set_wlp \subseteq set_wlp'
      BY DEF ReceiveSedpWriter, ReceiveData, ReceiveHeartbeat, ReceiveMessage, WatchInv, TypeInv,
             WlpTypes
<1>3. \A w \in Writers : Live # Unknown BY DEF Live, Unknown, EntryOf
<1>4. ASSUME NEW w \in Writers, remote_writer[w] # Unknown PROVE remote_writer'[w] # Unknown
      BY <1>3, <1>4 DEF ReceiveSedpWriter, ReceiveData, ReceiveHeartbeat, ReceiveMessage,
                        WriteRemoteWriter
<1>5. ASSUME NEW r \in Readers, NEW w \in matched'[r] \cup unmatched'[r]
      PROVE  /\ w \in Writers /\ remote_writer'[w] # Unknown
             /\ matched[r] \cup unmatched[r] # {} \/ r \in set_wlp'
  <2>1. w \in Writers BY <1>5 DEF TypeInv, MatchTypes
  <2>2. CASE w \in matched[r] \cup unmatched[r]
    <3>1. Aged(w) BY <1>1, <2>2 DEF WatchInv
    <3> QED BY <1>4, <2>1, <2>2, <3>1, AgedKnown
  <2>3. CASE w \notin matched[r] \cup unmatched[r]
    <3>1. ReceiveSedpWriter(w)
      <4>1. \A v \in Writers, q \in Readers :
              Rematch(q, v) => matched'[r] \cup unmatched'[r] \subseteq matched[r] \cup unmatched[r]
            BY DEF Rematch, WatchInv, TypeInv, MatchTypes
      <4>2. ~(\E v \in Writers, q \in Readers :
                ReceiveData(v, q) \/ \E f \in BOOLEAN : ReceiveHeartbeat(v, q, f))
            BY <1>5, <2>3, <4>1 DEF ReceiveData, ReceiveHeartbeat
      <4>3. ~ReceiveMessage BY <1>5, <2>3 DEF ReceiveMessage
      <4>4. PICK v \in Writers : ReceiveSedpWriter(v) BY <4>2, <4>3
      <4> QED BY <1>5, <2>3, <4>4 DEF ReceiveSedpWriter
    <3>2. remote_writer'[w] = Live /\ set_wlp' = Readers
          BY <2>1, <3>1 DEF ReceiveSedpWriter, WriteRemoteWriter
    <3> QED BY <1>3, <2>1, <3>2
  <2> QED BY <2>2, <2>3
<1>6. ASSUME NEW r \in Readers, NEW w \in matched'[r] \cup unmatched'[r]
      PROVE  Aged(w)' /\ Watches(r)'
      BY <1>1, <1>2, <1>5, <1>6, FreshAged, FreshWatches
<1> QED BY <1>1, <1>6 DEF WatchInv

\* A Writer that survives check_liveliness is no more silent than its lease.
LEMMA Survivors ==
  ASSUME WatchInv, ~panicked, NEW r \in Readers, NEW w \in matched[r] \cap Leased, w \notin Lost(r)
  PROVE  silent <= Lease[w]
<1>1. w \in Writers /\ Aged(w) /\ remote_writer[w] \in KnownEntries(w)
      BY DEF WatchInv, TypeInv, MatchTypes, EntriesTyped
<1>2. remote_writer[w] # LivelinessLost /\ remote_writer[w] # Unknown
      BY <1>1, AgedKnown DEF Lost
<1>3. PICK a \in 0..LeaseOver(w) : remote_writer[w] = EntryOf("Live", a)
      BY <1>1, <1>2 DEF KnownEntries
<1>4. remote_writer[w].state = "Live" /\ remote_writer[w].age = a BY <1>3 DEF EntryOf
<1>5. ~(a > Lease[w]) /\ (a = LeaseOver(w) \/ silent <= a) BY <1>1, <1>2, <1>4 DEF Aged, Lost
<1>6. LeaseOver(w) = Lease[w] + 1 /\ Lease[w] \in Nat /\ a \in Nat /\ silent \in Nat
      BY <1>1, LeaseNat, LeaseOverNat, Bounds DEF LeaseOver, WatchInv, TypeInv, HeardTypes
<1> QED BY <1>5, <1>6

LEMMA WatchCheck ==
  ASSUME WatchInv, TypeInv', NEW r \in Readers, SetWlpTimer(r) \/ WlpTimer(r)
  PROVE  WatchInv'
<1>1. ~panicked /\ ~panicked' /\ UNCHANGED silent /\ set_wlp' \subseteq set_wlp
      BY DEF SetWlpTimer, WlpTimer, historyVars
<1>2. PICK S \in SUBSET Lost(r) :
        /\ CheckLiveliness(r, S)
        /\ S = Lost(r) \/ (SetWlpTimer(r) /\ r \in set_wlp)
      BY DEF SetWlpTimer, WlpTimer
<1>3. PICK T \in SUBSET Writers : wlp_timer' = [wlp_timer EXCEPT ![r] = MinLease(T)]
  <2>1. matched[r] \in SUBSET Writers /\ (matched[r] \ Lost(r)) \in SUBSET Writers
        BY DEF WatchInv, TypeInv, MatchTypes
  <2> QED BY <2>1 DEF SetWlpTimer, WlpTimer
<1>4. MinLease(T) \in 0..LongestPeriod BY <1>3, MinLeasePeriod
<1>5. wlp_timer'[r] = MinLease(T) /\ \A q \in Readers \ {r} : wlp_timer'[q] = wlp_timer[q]
      BY <1>3 DEF WatchInv, TypeInv, WlpTypes
<1>6. /\ matched'[r] = matched[r] \ S /\ unmatched'[r] = unmatched[r] \cup S
      /\ \A q \in Readers \ {r} : matched'[q] = matched[q] /\ unmatched'[q] = unmatched[q]
      /\ S \subseteq matched[r]
      BY <1>2 DEF CheckLiveliness, WatchInv, TypeInv, MatchTypes, Lost
<1>7. ASSUME NEW q \in Readers, NEW w \in matched'[q] \cup unmatched'[q] PROVE Aged(w)'
  <2>1. w \in matched[q] \cup unmatched[q] BY <1>6, <1>7
  <2>2. Aged(w) /\ w \in Writers BY <1>1, <2>1 DEF WatchInv, TypeInv, MatchTypes
  <2>3. remote_writer'[w] = LivelinessLost \/ remote_writer'[w] = remote_writer[w]
        BY <1>2, <2>2 DEF CheckLiveliness
  <2> QED BY <1>1, <2>2, <2>3 DEF Aged
<1>8. Watches(r)'
  <2>1. MinLease(T) # Off /\ MinLease(T) \in Nat /\ MinLease(T) <= LongestPeriod /\ LongestPeriod \in Nat
        BY <1>4, Periods DEF Off
  <2>2. ASSUME NEW w \in matched'[r] \cap Leased PROVE silent <= Lease[w] /\ Lease[w] \in Nat
    <3>1. w \in matched[r] \cap Leased /\ w \notin S /\ Lease[w] \in Nat
          BY <1>6, <2>2, LeaseNat DEF Leased
    <3>2. CASE S = Lost(r) BY <1>1, <3>1, <3>2, Survivors
    <3>3. CASE r \in set_wlp BY <1>1, <3>1, <3>3 DEF WatchInv
    <3> QED BY <1>2, <3>1, <3>2, <3>3
  <2>3. silent \in Nat BY Bounds DEF WatchInv, TypeInv, HeardTypes
  <2>4. \A w \in matched'[r] \cap Leased : silent + MinLease(T) <= Lease[w] + LongestPeriod
        BY <2>1, <2>2, <2>3
  <2> QED BY <1>1, <1>5, <2>1, <2>4 DEF Watches
<1>9. ASSUME NEW q \in Readers \ {r}, matched'[q] \cup unmatched'[q] # {} PROVE Watches(q)'
  <2>1. Watches(q) BY <1>1, <1>6, <1>9 DEF WatchInv
  <2>2. q \in set_wlp => q \in set_wlp' BY <1>9 DEF SetWlpTimer, WlpTimer
  <2> QED BY <1>1, <1>5, <1>6, <1>9, <2>1, <2>2 DEF Watches
<1> QED BY <1>1, <1>7, <1>8, <1>9 DEF WatchInv

LEMMA WatchTick == ASSUME WatchInv, TypeInv', Tick PROVE WatchInv'
<1> SUFFICES ASSUME ~panicked PROVE WatchInv' BY DEF WatchInv, Tick
<1>1. set_wlp = {} /\ set_wlp' = {} /\ \A r \in Readers : wlp_timer[r] # 0 BY DEF Tick, Due
<1>2. UNCHANGED <<matched, unmatched>> BY DEF Tick
<1>3. silent \in Nat /\ silent' \in Nat /\ silent' <= silent + 1
  <2>1. silent \in Nat /\ LongSilence \in Nat BY Bounds DEF WatchInv, TypeInv, HeardTypes
  <2> QED BY <2>1 DEF Tick, Older
<1>4. ASSUME NEW r \in Readers, NEW w \in matched[r] \cup unmatched[r] PROVE Aged(w)'
  <2>1. w \in Writers /\ Aged(w) /\ remote_writer[w] \in KnownEntries(w)
        BY <1>4 DEF WatchInv, TypeInv, MatchTypes, EntriesTyped
  <2>2. CASE remote_writer[w] = LivelinessLost
        BY <2>1, <2>2 DEF Tick, Aged, LivelinessLost, EntryOf
  <2>3. CASE remote_writer[w] # LivelinessLost
    <3>1. PICK a \in 0..LeaseOver(w) : remote_writer[w] = EntryOf("Live", a)
          BY <2>1, <2>3, AgedKnown DEF KnownEntries
    <3>2. remote_writer[w].state = "Live" /\ remote_writer[w].age = a BY <3>1 DEF EntryOf
    <3>3. remote_writer'[w] = EntryOf("Live", Older(a, LeaseOver(w))) BY <2>1, <3>2 DEF Tick
    <3>4. a = LeaseOver(w) \/ silent <= a BY <2>1, <2>3, <3>2 DEF Aged
    <3>5. Older(a, LeaseOver(w)) = LeaseOver(w) \/ silent' <= Older(a, LeaseOver(w))
          BY <1>3, <2>1, <3>4, LeaseOverNat DEF Older
    <3> QED BY <3>3, <3>5 DEF Aged, EntryOf
  <2> QED BY <2>2, <2>3
<1>5. ASSUME NEW r \in Readers, NEW v \in matched[r] \cup unmatched[r] PROVE Watches(r)'
  <2>1. Watches(r) BY <1>5 DEF WatchInv
  <2>2. /\ wlp_timer[r] # Off
        /\ \A w \in matched[r] \cap Leased : silent + wlp_timer[r] <= Lease[w] + LongestPeriod
        BY <1>1, <2>1 DEF Watches
  <2>3. wlp_timer[r] \in Nat \ {0} BY <1>1, <2>2, Periods DEF WatchInv, TypeInv, WlpTypes
  <2>4. wlp_timer'[r] = wlp_timer[r] - 1 BY <2>3 DEF Tick, CountDown
  <2>5. wlp_timer'[r] # Off BY <2>3, <2>4 DEF Off
  <2>6. \A w \in matched[r] \cap Leased : Lease[w] \in Nat BY LeaseNat DEF Leased
  <2>7. \A w \in matched[r] \cap Leased : silent' + wlp_timer'[r] <= Lease[w] + LongestPeriod
        BY <1>3, <2>2, <2>3, <2>4, <2>6, Periods
  <2> QED BY <1>2, <2>5, <2>7 DEF Watches
<1> QED BY <1>1, <1>2, <1>4, <1>5 DEF WatchInv

LEMMA WatchKept == ASSUME WatchInv, [Next]_vars PROVE WatchInv'
<1>1. TypeInv' BY TypesKept DEF WatchInv
<1>2. CASE \/ UNCHANGED vars \/ Lose
           \/ \E w \in Writers : Write(w) \/ AssertLiveliness(w) \/ HandleWriterCmd(w) \/ SendHeartbeat(w)
           \/ \E r \in Readers : ReceiveSedpReader(r)
           \/ AssertAutomaticLiveliness \/ CheckManualLiveliness \/ Stop
  <2>1. UNCHANGED readerVars /\ UNCHANGED silent
        BY <1>2 DEF vars, historyVars, Lose, Write, AssertLiveliness, HandleWriterCmd, SendHeartbeat,
             ReceiveSedpReader, AssertAutomaticLiveliness, CheckManualLiveliness, Stop
  <2> QED BY <1>1, <2>1, WatchUntouched
<1> QED BY <1>1, <1>2, WatchReceive, WatchCheck, WatchTick DEF Next

\* Whatever is matched, lost, found again or unmatched, and whatever timeout the
\* timer was set to in SET_WLP_TIMER or in the check itself: a Reader whose event
\* loop runs gives up a leased Writer at the latest one lease and one timeout
\* after the last datagram of the Writer's participant.
THEOREM DetectedKept == Spec => []DetectedInTime
BY WatchInitially, WatchKept, WatchInvDetects, PTL DEF Spec

-----------------------------------------------------------------------------
(* A manual Writer that is not asserted is reported *)

\* Once its commands are handled, a Writer was asserted no earlier than it was
\* written (unless the age of the write has stopped growing), and while it counts
\* as alive the check comes in time.
Reports(w) ==
  /\ is_alive[w] => asserted[w] <= Lease[w] + CheckPeriod
  /\ commands[w] = {} =>
       /\ last_added[w] = LeaseOver(w) \/ asserted[w] <= last_added[w]
       /\ is_alive[w] => asserted[w] + check_timer <= Lease[w] + CheckPeriod

ReportInv ==
  /\ TypeInv
  /\ running /\ Manual \cap Leased # {} => check_timer # Off
  /\ running => \A w \in Manual \cap Leased : Reports(w)

LEMMA ReportTypes ==
  ASSUME TypeInv, NEW w \in Manual \cap Leased
  PROVE  /\ w \in Writers /\ Lease[w] \in Nat /\ LeaseOver(w) = Lease[w] + 1
         /\ CheckPeriod \in Nat /\ ReportOverdue(w) \in Nat
         /\ last_added[w] \in Nat /\ asserted[w] \in Nat
         /\ check_timer # Off => check_timer \in Nat /\ check_timer <= CheckPeriod
<1>1. w \in Writers /\ w \in Leased /\ Manual \cap Leased # {} BY DEF Leased
<1>2. CheckPeriod \in Nat BY <1>1, CheckPeriods
<1>3. Lease[w] \in Nat /\ LeaseOver(w) = Lease[w] + 1 /\ ReportOverdue(w) \in Nat
      BY <1>1, LeaseNat, Bounds DEF LeaseOver
<1>4. last_added[w] \in Nat /\ asserted[w] \in Nat
      BY <1>1, <1>3, Bounds DEF TypeInv, AgeTypes
<1>5. check_timer # Off => check_timer \in Nat /\ check_timer <= CheckPeriod
      BY <1>2 DEF TypeInv, TimerTypes
<1> QED BY <1>1, <1>2, <1>3, <1>4, <1>5

LEMMA ReportInitially == Init => ReportInv
<1> SUFFICES ASSUME Init PROVE ReportInv OBVIOUS
<1>1. TypeInv BY TypesInitially
<1>2. Manual \cap Leased # {} => check_timer = CheckPeriod BY DEF Init
<1>3. ASSUME NEW w \in Manual \cap Leased PROVE Reports(w) /\ check_timer # Off
  <2>1. last_added[w] = 0 /\ asserted[w] = 0 /\ check_timer = CheckPeriod
        BY <1>1, <1>2, <1>3, ReportTypes DEF Init
  <2>2. Lease[w] \in Nat /\ CheckPeriod \in Nat BY <1>1, <1>3, ReportTypes
  <2> QED BY <2>1, <2>2 DEF Reports, Off
<1> QED BY <1>1, <1>3 DEF ReportInv

\* A Writer whose age, state and commands a step leaves alone.
LEMMA SameReports ==
  ASSUME NEW w \in Manual \cap Leased, Reports(w),
         last_added'[w] = last_added[w], asserted'[w] = asserted[w], commands'[w] = commands[w],
         is_alive'[w] <=> is_alive[w], check_timer' = check_timer
  PROVE  Reports(w)'
BY DEF Reports

\* A step of the Readers, of the network or of matching.
LEMMA ReportUntouched ==
  ASSUME ReportInv, TypeInv',
         UNCHANGED <<running, last_added, is_alive, commands, check_timer, asserted>>
  PROVE  ReportInv'
BY DEF ReportInv, Reports

LEMMA ReportCommands ==
  ASSUME ReportInv, TypeInv', NEW v \in Writers,
         Write(v) \/ AssertLiveliness(v) \/ HandleWriterCmd(v)
  PROVE  ReportInv'
<1>1. running /\ UNCHANGED <<running, check_timer>>
      BY DEF Write, AssertLiveliness, HandleWriterCmd
<1>2. ASSUME NEW w \in Manual \cap Leased PROVE Reports(w)'
  <2>1. Reports(w) /\ check_timer # Off BY <1>1, <1>2 DEF ReportInv
  <2>2. w \in Writers BY ReportTypes DEF ReportInv
  <2>3. CASE w # v
    <3>1. /\ last_added'[w] = last_added[w] /\ asserted'[w] = asserted[w]
          /\ commands'[w] = commands[w]
          BY <2>2, <2>3 DEF Write, AssertLiveliness, HandleWriterCmd, ReportInv, TypeInv, AgeTypes,
                            AssertTypes
    <3>2. is_alive'[w] <=> is_alive[w]
          BY <2>2, <2>3 DEF Write, AssertLiveliness, HandleWriterCmd, ReportInv, TypeInv, AssertTypes
    <3> QED BY <1>1, <2>1, <3>1, <3>2, SameReports
  <2>4. CASE w = v /\ HandleWriterCmd(v)
    <3>1. asserted'[w] = 0 /\ last_added'[w] = last_added[w]
          BY <2>2, <2>4 DEF HandleWriterCmd, ReportInv, TypeInv, AgeTypes
    <3>2. /\ last_added[w] \in Nat /\ Lease[w] \in Nat /\ CheckPeriod \in Nat
          /\ check_timer \in Nat /\ check_timer <= CheckPeriod
          BY <2>1, ReportTypes DEF ReportInv
    <3> QED BY <1>1, <3>1, <3>2 DEF Reports
  <2>5. CASE w = v /\ (Write(v) \/ AssertLiveliness(v))
    <3>1. commands'[w] # {} /\ asserted' = asserted /\ (is_alive'[w] <=> is_alive[w])
          BY <2>2, <2>5 DEF Write, AssertLiveliness, ReportInv, TypeInv, AssertTypes
    <3> QED BY <2>1, <3>1 DEF Reports
  <2> QED BY <2>3, <2>4, <2>5
<1> QED BY <1>1, <1>2 DEF ReportInv

LEMMA ReportAutomatic ==
  ASSUME ReportInv, TypeInv', AssertAutomaticLiveliness PROVE ReportInv'
<1>1. UNCHANGED <<running, last_added, commands, check_timer, asserted>>
      BY DEF AssertAutomaticLiveliness
<1>2. ASSUME NEW w \in Manual \cap Leased PROVE is_alive'[w] <=> is_alive[w]
  <2>1. w \notin Asserting /\ w \in Writers BY DEF Asserting, Leased
  <2>2. is_alive' = [u \in Writers |-> u \in Asserting \/ is_alive[u]]
        BY DEF AssertAutomaticLiveliness
  <2> QED BY <2>1, <2>2
<1> QED BY <1>1, <1>2, SameReports DEF ReportInv

LEMMA ReportCheck ==
  ASSUME ReportInv, TypeInv', CheckManualLiveliness PROVE ReportInv'
<1>1. /\ running /\ check_timer' = CheckPeriod
      /\ UNCHANGED <<running, last_added, commands, asserted>>
      BY DEF CheckManualLiveliness
<1>2. ASSUME NEW w \in Manual \cap Leased PROVE Reports(w)' /\ CheckPeriod # Off
  <2>1. Reports(w) BY <1>1, <1>2 DEF ReportInv
  <2>2. /\ w \in Writers /\ Lease[w] \in Nat /\ CheckPeriod \in Nat /\ LeaseOver(w) = Lease[w] + 1
        /\ last_added[w] \in Nat /\ asserted[w] \in Nat
        BY ReportTypes DEF ReportInv
  <2>3. is_alive' = [u \in Writers |->
                       is_alive[u] /\ ~(u \in Manual \cap Leased /\ last_added[u] > Lease[u])]
        BY DEF CheckManualLiveliness
  <2>4. is_alive'[w] => is_alive[w] /\ ~(last_added[w] > Lease[w]) BY <1>2, <2>2, <2>3
  <2>5. CheckPeriod # Off BY <2>2 DEF Off
  <2> HIDE DEF Off
  <2> QED BY <1>1, <2>1, <2>2, <2>4, <2>5 DEF Reports
<1> QED BY <1>1, <1>2 DEF ReportInv

LEMMA ReportTick == ASSUME ReportInv, TypeInv', Tick PROVE ReportInv'
<1> SUFFICES ASSUME running PROVE ReportInv' BY DEF ReportInv, Tick
<1>1. check_timer # 0 /\ \A w \in Writers : commands[w] = {} BY DEF Tick, Due
<1>2. /\ UNCHANGED <<running, is_alive, commands>>
      /\ check_timer' = CountDown(check_timer)
      /\ last_added' = [w \in Writers |-> Older(last_added[w], LeaseOver(w))]
      /\ asserted' = [w \in Writers |-> Older(asserted[w], ReportOverdue(w))]
      BY DEF Tick
<1>3. ASSUME NEW w \in Manual \cap Leased PROVE Reports(w)' /\ check_timer' # Off
  <2>1. Reports(w) /\ check_timer # Off BY <1>3 DEF ReportInv
  <2>2. /\ w \in Writers /\ Lease[w] \in Nat /\ CheckPeriod \in Nat /\ LeaseOver(w) = Lease[w] + 1
        /\ last_added[w] \in Nat /\ asserted[w] \in Nat /\ check_timer \in Nat
        /\ ReportOverdue(w) \in Nat
        BY <2>1, ReportTypes DEF ReportInv
  <2>3. check_timer' = check_timer - 1 /\ check_timer' \in Nat BY <1>1, <1>2, <2>2 DEF CountDown
  <2>4. /\ last_added'[w] = Older(last_added[w], LeaseOver(w))
        /\ asserted'[w] = Older(asserted[w], ReportOverdue(w))
        BY <1>2, <2>2
  <2>5. asserted'[w] \in Nat /\ asserted'[w] <= asserted[w] + 1 BY <2>2, <2>4 DEF Older
  <2>6. last_added[w] = LeaseOver(w) \/ asserted[w] <= last_added[w] BY <1>1, <2>1, <2>2 DEF Reports
  <2>7. last_added'[w] = LeaseOver(w) \/ asserted'[w] <= last_added'[w]
    <3>1. last_added[w] <= LeaseOver(w) BY <2>2 DEF ReportInv, TypeInv, AgeTypes
    <3> QED BY <2>2, <2>4, <2>5, <2>6, <3>1 DEF Older
  <2>8. is_alive[w] => asserted[w] + check_timer <= Lease[w] + CheckPeriod
        BY <1>1, <2>1, <2>2 DEF Reports
  <2>9. is_alive[w] => asserted'[w] + check_timer' <= Lease[w] + CheckPeriod
        BY <2>2, <2>3, <2>5, <2>8
  <2>10. is_alive[w] => asserted'[w] <= Lease[w] + CheckPeriod BY <2>2, <2>3, <2>5, <2>9
  <2>11. check_timer' # Off BY <2>3 DEF Off
  <2> QED BY <1>2, <2>7, <2>9, <2>10, <2>11 DEF Reports
<1> QED BY <1>2, <1>3 DEF ReportInv

LEMMA ReportKept == ASSUME ReportInv, [Next]_vars PROVE ReportInv'
<1>1. TypeInv' BY TypesKept DEF ReportInv
<1>2. CASE \/ UNCHANGED vars \/ Lose \/ ReceiveMessage
           \/ \E w \in Writers : SendHeartbeat(w) \/ ReceiveSedpWriter(w)
           \/ \E r \in Readers : ReceiveSedpReader(r) \/ SetWlpTimer(r) \/ WlpTimer(r)
           \/ \E w \in Writers, r \in Readers :
                ReceiveData(w, r) \/ \E f \in BOOLEAN : ReceiveHeartbeat(w, r, f)
  <2>1. UNCHANGED <<running, last_added, is_alive, commands, check_timer, asserted>>
        BY <1>2 DEF vars, writerVars, Lose, ReceiveMessage, SendHeartbeat, ReceiveSedpWriter,
             ReceiveSedpReader, SetWlpTimer, WlpTimer, ReceiveData, ReceiveHeartbeat
  <2> QED BY <1>1, <2>1, ReportUntouched
<1>3. CASE Stop BY <1>1, <1>3 DEF Stop, ReportInv
<1> QED BY <1>1, <1>2, <1>3, ReportCommands, ReportAutomatic, ReportCheck, ReportTick DEF Next

\* CHECK_MANUAL_LIVELINESS_TIMER runs at the shortest half lease and looks at the
\* last write only, not at the last assertion: even so every leased manual Writer
\* that is neither written nor asserted stops counting as alive within its lease
\* and one period of the timer.
THEOREM ReportedKept == Spec => []ReportedInTime
<1>1. ReportInv => ReportedInTime BY DEF ReportInv, ReportedInTime, Reports
<1> QED BY <1>1, ReportInitially, ReportKept, PTL DEF Spec
=============================================================================
