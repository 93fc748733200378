------------------------ MODULE WriterPipelineProofs ------------------------
(***************************************************************************)
(* The DataWriter and the event loop never lose a wake-up, a reliable      *)
(* writer holds every sample that a matched reader still needs, first      *)
(* transmissions keep the order of the writes and the event loop never     *)
(* looks up a sample that is gone, at every point of every handler, for    *)
(* any readers, QoS and channel capacity.                                  *)
(***************************************************************************)
EXTENDS WriterPipeline, HistoryCacheProofs

\* Types and the facts about the control state that the proofs need.
Types == /\ cmds \in Seq(WriterCmd)
         /\ app \in {"add", "sleep"} => last \in SeqNum
         /\ matched \subseteq Readers
         /\ rp \in [Readers -> ReaderProxy]
         /\ needs \in [Readers -> SUBSET SeqNum]
         /\ pc = "drop_sent" => ~WriterQos.is_reliable
         /\ ret \notin {"drop_sent", "acked_remove"}

\* Every sample in the cache is the writer's own.
OwnChanges == \A k \in hc.changes : k.guid = WriterGuid

\* What a matched reader needs is what its ReaderProxy has as not acknowledged.
Needs == \A r \in matched : needs[r] = {n \in SeqNum : ~IsAcked(rp[r], n)}

\* What remove_acked_changes has found stays acknowledged while it removes it.
ScanAgrees ==
  pc = "acked_remove" =>
    /\ work.remove \subseteq HCKey
    /\ \A k \in work.remove, r \in matched : IsAcked(rp[r], k.seq_num)

\* The inductive invariant.
Inv == /\ Types
       /\ Sound(hc)
       /\ OwnChanges
       /\ Needs
       /\ ScanAgrees
       /\ NoLostWakeup
       /\ UnackedIsCached

-----------------------------------------------------------------------------
(* What the Writer does to its ReaderProxies. *)

\* Registering new changes leaves the entries of the others alone.
LEMMA RegisterType ==
  ASSUME NEW p \in [Readers -> ReaderProxy], NEW m, NEW S
  PROVE  /\ RegisterUnsent(p, m, S) \in [Readers -> ReaderProxy]
         /\ \A r \in Readers, n \in SeqNum : n \notin S =>
              RegisterUnsent(p, m, S)[r][n] = p[r][n]
         /\ \A r \in Readers, n \in SeqNum : r \in m /\ n \in S =>
              (IsAcked(RegisterUnsent(p, m, S)[r], n) <=> ~IsRelevant(n, S))
         /\ \A r \in Readers : r \notin m => RegisterUnsent(p, m, S)[r] = p[r]
<1>1. \A n : IsRelevant(n, S) \in BOOLEAN
  BY DEF IsRelevant
<1>2. ASSUME NEW r \in Readers
      PROVE  /\ UpdateCacheState(p[r], S, LAMBDA n : IsRelevant(n, S), "Unsent") \in ReaderProxy
             /\ \A n \in SeqNum : n \notin S =>
                  UpdateCacheState(p[r], S, LAMBDA i : IsRelevant(i, S), "Unsent")[n] = p[r][n]
             /\ \A n \in SeqNum : n \in S =>
                  UpdateCacheState(p[r], S, LAMBDA i : IsRelevant(i, S), "Unsent")[n] =
                    [status |-> "Unsent", is_relevant |-> IsRelevant(n, S)]
  BY <1>1 DEF UpdateCacheState, ReaderProxy, ChangeForReader, ChangeForReaderStatusKind
<1>3. ASSUME NEW r \in Readers, NEW n \in SeqNum, r \in m, n \in S
      PROVE  IsAcked(RegisterUnsent(p, m, S)[r], n) <=> ~IsRelevant(n, S)
  <2>1. RegisterUnsent(p, m, S)[r][n] = [status |-> "Unsent", is_relevant |-> IsRelevant(n, S)]
    BY <1>2, <1>3 DEF RegisterUnsent
  <2>2. /\ RegisterUnsent(p, m, S)[r][n].status = "Unsent"
        /\ RegisterUnsent(p, m, S)[r][n].is_relevant = IsRelevant(n, S)
    BY <2>1
  <2> QED BY <2>2, Zenon DEF IsAcked
<1> QED BY <1>2, <1>3 DEF RegisterUnsent

\* Removing states leaves no entry for the numbers removed and keeps the others.
LEMMA ForgetType ==
  ASSUME NEW p \in [Readers -> ReaderProxy], NEW m, NEW S
  PROVE  /\ ForgetStates(p, m, S) \in [Readers -> ReaderProxy]
         /\ \A r \in Readers, n \in SeqNum :
              ForgetStates(p, m, S)[r][n] =
                IF r \in m /\ n \in S THEN NoChangeForReader ELSE p[r][n]
  BY DEF ForgetStates, RemoveReaderCacheState, ReaderProxy, ChangeForReader, NoChangeForReader

\* A new proxy knows only cached changes.
LEMMA ProxyOfType ==
  ASSUME NEW h, NEW d
  PROVE  /\ ProxyOf(h, d) \in ReaderProxy
         /\ \A n \in SeqNum : n \notin {k.seq_num : k \in h.changes} =>
              ProxyOf(h, d)[n] = NoChangeForReader
         /\ \A n \in SeqNum : IsAcked(ProxyOf(h, d), n) <=> ~ProxyOf(h, d)[n].is_relevant
  BY DEF IsAcked, ProxyOf, NewReaderProxy, ReaderProxy, ChangeForReader, ChangeForReaderStatusKind,
         NoChangeForReader

-----------------------------------------------------------------------------
(* Steps that touch neither the cache nor what a reader needs. *)

\* A receive takes at most one WriteData command out of the channel.
LEMMA TailKeeps ==
  ASSUME NEW q \in Seq(WriterCmd), q # << >>
  PROVE  /\ Tail(q) \in Seq(WriterCmd)
         /\ Head(q) \in WriterCmd
         /\ (\E i \in 1..Len(q) : q[i] = "WriteData") /\ Head(q) # "WriteData" =>
              \E i \in 1..Len(Tail(q)) : Tail(q)[i] = "WriteData"
<1>1. Tail(q) \in Seq(WriterCmd) /\ Head(q) \in WriterCmd /\ Len(Tail(q)) = Len(q) - 1
  OBVIOUS
<1>2. ASSUME NEW i \in 1..Len(q), q[i] = "WriteData", Head(q) # "WriteData"
      PROVE  \E j \in 1..Len(Tail(q)) : Tail(q)[j] = "WriteData"
  <2>1. i # 1
    BY <1>2
  <2>2. i - 1 \in 1..Len(Tail(q)) /\ Tail(q)[i - 1] = q[i]
    BY <1>1, <2>1
  <2> QED BY <1>2, <2>2
<1> QED BY <1>1, <1>2

\* A send keeps the commands that are in the channel.
LEMMA AppendKeeps ==
  ASSUME NEW q \in Seq(WriterCmd), NEW c \in WriterCmd
  PROVE  /\ Append(q, c) \in Seq(WriterCmd)
         /\ (c = "WriteData" \/ \E i \in 1..Len(q) : q[i] = "WriteData") =>
              \E i \in 1..Len(Append(q, c)) : Append(q, c)[i] = "WriteData"
<1>1. /\ Append(q, c) \in Seq(WriterCmd)
      /\ Len(Append(q, c)) = Len(q) + 1
      /\ Append(q, c)[Len(q) + 1] = c
      /\ \A i \in 1..Len(q) : Append(q, c)[i] = q[i]
      /\ Len(q) \in Nat
  OBVIOUS
<1> QED BY <1>1

\* A step of the event loop that changes neither the cache, nor the channel, nor
\* the proxies keeps the invariant.
LEMMA QuietStep ==
  ASSUME Inv,
         UNCHANGED <<hc, cmds, last, app, matched, rp, needs>>,
         pc # "get_unprocessed",
         pc' = "drop_sent" => ~WriterQos.is_reliable,
         pc' # "acked_remove",
         ret' \notin {"drop_sent", "acked_remove"}
  PROVE  Inv'
  BY DEF Inv, Types, OwnChanges, Needs, ScanAgrees, NoLostWakeup, UnackedIsCached

\* A step of the event loop that changes the matched readers or their proxies and
\* makes no sample needed that is not cached keeps the invariant.
LEMMA ProxyStep ==
  ASSUME Inv,
         UNCHANGED <<hc, cmds, last, app>>,
         matched' \subseteq Readers,
         rp' \in [Readers -> ReaderProxy],
         needs' \in [Readers -> SUBSET SeqNum],
         Needs',
         pc # "get_unprocessed",
         pc' \notin {"drop_sent", "acked_remove"},
         ret' \notin {"drop_sent", "acked_remove"},
         \A r \in matched' : \A n \in needs'[r] :
           (r \in matched /\ n \in needs[r]) \/ Key(n) \in hc.changes
  PROVE  Inv'
<1>1. Types' /\ OwnChanges' /\ NoLostWakeup' /\ Sound(hc') /\ ScanAgrees'
  BY DEF Inv, Types, OwnChanges, NoLostWakeup, ScanAgrees
<1>2. UnackedIsCached'
  BY DEF Inv, UnackedIsCached
<1> QED BY <1>1, <1>2 DEF Inv

\* A step of the event loop that removes keys from the cache and, for a reliable
\* writer, forgets the same numbers in the proxies, keeps the invariant.
LEMMA RemovalStep ==
  ASSUME Inv, NEW S,
         hc' = RemoveChanges(hc, S, FALSE),
         UNCHANGED <<cmds, last, app, matched, needs>>,
         rp' \in [Readers -> ReaderProxy],
         Needs', ScanAgrees',
         pc # "get_unprocessed",
         pc' = "drop_sent" => ~WriterQos.is_reliable,
         ret' \notin {"drop_sent", "acked_remove"},
         WriterQos.is_reliable => \A r \in matched : \A n \in needs[r] : Key(n) \notin S
  PROVE  Inv'
<1>1. Sound(hc') /\ IsCache(hc)
  BY RemoveSound DEF Inv, Sound
<1>2. /\ hc'.changes \subseteq hc.changes
      /\ hc.changes \ S \subseteq hc'.changes
      /\ hc'.unprocessed_seqnum = hc.unprocessed_seqnum
  BY <1>1, RemoveFields
<1>3. Types' /\ OwnChanges' /\ NoLostWakeup'
  BY <1>2 DEF Inv, Types, OwnChanges, NoLostWakeup
<1>4. UnackedIsCached'
  BY <1>2 DEF Inv, UnackedIsCached
<1> QED BY <1>1, <1>3, <1>4 DEF Inv

-----------------------------------------------------------------------------

\* The invariant holds when the endpoint is created.
LEMMA InitInv == Init => Inv
<1> SUFFICES ASSUME Init PROVE Inv
  OBVIOUS
<1>1. Sound(hc)
  BY EmptySound DEF Init
<1>2. hc.changes = {} /\ hc.unprocessed_seqnum = {}
  BY DEF Init, EmptyCache
<1>3. Types
  BY EmptyProxyType DEF Init, Types
<1>4. Needs
  BY DEF Init, Needs, IsAcked, EmptyReaderProxy, NoChangeForReader
<1>5. UnackedIsCached /\ ScanAgrees
  BY DEF Init, UnackedIsCached, ScanAgrees
<1> QED BY <1>1, <1>2, <1>3, <1>4, <1>5 DEF Inv, OwnChanges, NoLostWakeup

\* The DataWriter's steps keep it.
LEMMA DataWriterInv ==
  ASSUME Inv, DataWriterStep \/ SendAssertLiveliness PROVE Inv'
<1>1. CASE StartWrite
  BY <1>1 DEF StartWrite, loopVars, Inv, Types, OwnChanges, Needs, ScanAgrees, NoLostWakeup, UnackedIsCached
<1>2. CASE AddChangeToCache
  <2> DEFINE res == AddChangeResult(hc, Key(last), WriterQos)
  <2>1. Key(last) \in HCKey /\ Key(last).guid = WriterGuid
    BY <1>2, WriterGuidAssumption DEF AddChangeToCache, Inv, Types, Key, HCKey
  <2>2. CASE res = "Ok"
    <3>1. hc' = AddChange(hc, Key(last), WriterQos) /\ app' = "send"
      BY <1>2, <2>2 DEF AddChangeToCache
    <3>2. Sound(hc')
      BY <2>1, <3>1, AddSound, WriterQosAssumption DEF Inv
    <3>3. /\ hc'.changes \subseteq hc.changes \cup {Key(last)}
          /\ WriterQos.is_reliable => hc.changes \subseteq hc'.changes
      BY <2>1, <3>1, AddFields, WriterQosAssumption DEF Inv
    <3>4. UNCHANGED <<cmds, last, matched, rp, pc, ret, work, needs>>
      BY <1>2 DEF AddChangeToCache, loopVars
    <3>5. Types' /\ NoLostWakeup'
      BY <3>1, <3>4 DEF Inv, Types, NoLostWakeup
    <3>6. OwnChanges'
      BY <2>1, <3>3 DEF Inv, OwnChanges
    <3>7. UnackedIsCached'
      BY <3>3, <3>4 DEF Inv, UnackedIsCached
    <3>8. Needs' /\ ScanAgrees'
      BY <3>4 DEF Inv, Needs, ScanAgrees
    <3> QED BY <3>2, <3>5, <3>6, <3>7, <3>8 DEF Inv
  <2>3. CASE res # "Ok"
    <3>1. hc' = hc
      BY <1>2, <2>3 DEF AddChangeToCache
    <3>2. UNCHANGED <<cmds, last, matched, rp, pc, ret, work, needs>> /\ app = "add"
      BY <1>2 DEF AddChangeToCache, loopVars
    <3> QED BY <3>1, <3>2 DEF Inv, Types, OwnChanges, Needs, ScanAgrees, NoLostWakeup, UnackedIsCached
  <2> QED BY <2>2, <2>3
<1>3. CASE WakeAndRetry
  <2>1. Types'
    BY <1>3 DEF WakeAndRetry, loopVars, Inv, Types
  <2> QED BY <1>3, <2>1 DEF WakeAndRetry, loopVars, Inv, OwnChanges, Needs, ScanAgrees,
      NoLostWakeup, UnackedIsCached
<1>4. CASE SendWriteData
  <2>1. cmds' = Append(cmds, "WriteData") /\ cmds \in Seq(WriterCmd) /\ "WriteData" \in WriterCmd
    BY <1>4 DEF SendWriteData, Inv, Types, WriterCmd
  <2>2. cmds' \in Seq(WriterCmd) /\ \E i \in 1..Len(cmds') : cmds'[i] = "WriteData"
    BY <2>1, AppendKeeps
  <2> QED BY <1>4, <2>2
      DEF SendWriteData, loopVars, Inv, Types, OwnChanges, Needs, ScanAgrees, NoLostWakeup, UnackedIsCached
<1>5. CASE SendAssertLiveliness
  <2>1. /\ cmds' = Append(cmds, "AssertLiveliness")
        /\ cmds \in Seq(WriterCmd)
        /\ "AssertLiveliness" \in WriterCmd
    BY <1>5 DEF SendAssertLiveliness, Inv, Types, WriterCmd
  <2>2. /\ cmds' \in Seq(WriterCmd)
        /\ (\E i \in 1..Len(cmds) : cmds[i] = "WriteData") =>
             \E i \in 1..Len(cmds') : cmds'[i] = "WriteData"
    BY <2>1, AppendKeeps
  <2> QED BY <1>5, <2>2
      DEF SendAssertLiveliness, loopVars, Inv, Types, OwnChanges, Needs, ScanAgrees, NoLostWakeup, UnackedIsCached
<1> QED BY <1>1, <1>2, <1>3, <1>4, <1>5 DEF DataWriterStep


\* The event loop's steps for a WriterCmd keep it.
LEMMA HandlerInv == ASSUME Inv, HandlerStep PROVE Inv'
<1>0. /\ cmds \in Seq(WriterCmd)
      /\ matched \subseteq Readers
      /\ rp \in [Readers -> ReaderProxy]
      /\ Sound(hc) /\ IsCache(hc)
      /\ needs \in [Readers -> SUBSET SeqNum]
      /\ ret \notin {"drop_sent", "acked_remove"}
  BY DEF Inv, Types, Sound
<1>1. CASE ChannelEmpty
  BY <1>1, QuietStep DEF ChannelEmpty, appVars
<1>2. CASE GetUnprocessedStep
  <2> DEFINE S == hc.unprocessed_seqnum
  <2>1. /\ hc' = GetUnprocessed(hc)
        /\ rp' = RegisterUnsent(rp, matched, S)
        /\ UNCHANGED <<cmds, last, app, matched>>
        /\ pc' \notin {"drop_sent", "acked_remove"}
        /\ ret' \notin {"drop_sent", "acked_remove"}
    BY <1>0, <1>2 DEF GetUnprocessedStep, appVars
  <2>2. Sound(hc')
    BY <1>0, <2>1, GetUnprocessedSound
  <2>3. hc'.changes = hc.changes /\ hc'.unprocessed_seqnum = {}
    BY <1>0, <2>1 DEF GetUnprocessed, IsCache
  <2>4. /\ rp' \in [Readers -> ReaderProxy]
        /\ \A r \in Readers, n \in SeqNum : n \notin S => rp'[r][n] = rp[r][n]
        /\ \A r \in Readers, n \in SeqNum : r \in matched /\ n \in S =>
             (IsAcked(rp'[r], n) <=> ~IsRelevant(n, S))
    BY <1>0, <2>1, RegisterType
  <2>a. /\ S \subseteq SeqNum
        /\ needs' = [r \in Readers |->
                       IF r \in matched THEN (needs[r] \ S) \cup {n \in S : IsRelevant(n, S)}
                                        ELSE needs[r]]
    BY <1>0, <1>2 DEF GetUnprocessedStep, IsCache
  <2>5. \A n \in S : Key(n) \in hc.changes
    <3> SUFFICES ASSUME NEW n \in S PROVE Key(n) \in hc.changes
      OBVIOUS
    <3>1. PICK k \in hc.changes : k.seq_num = n
      BY <1>0 DEF Sound, UnprocessedHeld
    <3>2. k \in HCKey /\ k.guid = WriterGuid
      BY <1>0 DEF IsCache, Inv, OwnChanges
    <3>3. k = Key(n)
      BY <3>1, <3>2 DEF Key, HCKey
    <3> QED BY <3>3
  <2>6. Types' /\ OwnChanges' /\ NoLostWakeup' /\ ScanAgrees'
    <3>1. needs' \in [Readers -> SUBSET SeqNum]
      BY <1>0, <2>a
    <3> QED BY <2>1, <2>3, <2>4, <3>1 DEF Inv, Types, OwnChanges, NoLostWakeup, ScanAgrees
  <2>7. UnackedIsCached'
    BY <1>0, <2>1, <2>3, <2>5, <2>a DEF Inv, UnackedIsCached
  <2>8. Needs'
    <3> SUFFICES ASSUME NEW r \in matched, NEW n \in SeqNum
                 PROVE  n \in needs'[r] <=> ~IsAcked(rp'[r], n)
      <4>1. matched' = matched /\ \A r \in matched : needs'[r] \subseteq SeqNum
        BY <1>0, <2>1, <2>a
      <4> QED BY <4>1 DEF Needs
    <3>1. CASE n \in S
      BY <1>0, <2>4, <2>a, <3>1
    <3>2. CASE n \notin S
      <4>1. n \in needs'[r] <=> n \in needs[r]
        BY <1>0, <2>a, <3>2
      <4>2. IsAcked(rp'[r], n) <=> IsAcked(rp[r], n)
        BY <1>0, <2>4, <3>2 DEF IsAcked
      <4> QED BY <4>1, <4>2 DEF Inv, Needs
    <3> QED BY <3>1, <3>2
  <2> QED BY <2>2, <2>6, <2>7, <2>8 DEF Inv
<1>3. CASE AckedScan
  <2>1. /\ UNCHANGED <<hc, cmds, last, app, matched, rp, needs, ret>>
        /\ pc = "acked_scan" /\ pc' = "acked_remove"
    BY <1>3 DEF AckedScan, appVars
  <2>2. ScanAgrees'
    <3>1. work'.remove \subseteq AckedChanges(hc, rp, matched, work.base)
      BY <1>3 DEF AckedScan
    <3>2. work'.remove \subseteq HCKey
      BY <1>0, <3>1 DEF AckedChanges, IsCache
    <3> QED BY <2>1, <3>1, <3>2 DEF ScanAgrees, AckedChanges, IsAckedByAll
  <2> QED BY <2>1, <2>2 DEF Inv, Types, OwnChanges, Needs, NoLostWakeup, UnackedIsCached
<1>4. CASE AckedRemove
  <2>1. CASE work.remove = {} /\ pc' = ret /\ UNCHANGED <<hc, rp, work>>
    <3>1. pc' \notin {"drop_sent", "acked_remove"}
      BY <1>0, <2>1
    <3> QED BY <1>0, <1>4, <2>1, <3>1, QuietStep DEF AckedRemove, appVars
  <2>2. ASSUME NEW k \in work.remove,
               hc' = RemoveChange(hc, k, FALSE),
               rp' = ForgetStates(rp, matched, {k.seq_num}),
               work' = [work EXCEPT !.remove = @ \ {k}],
               pc' = pc
        PROVE  Inv'
    <3>1. /\ rp' \in [Readers -> ReaderProxy]
          /\ \A r \in Readers, n \in SeqNum :
               rp'[r][n] = IF r \in matched /\ n \in {k.seq_num} THEN NoChangeForReader ELSE rp[r][n]
      BY <1>0, <2>2, ForgetType
    <3>2. /\ UNCHANGED <<cmds, last, app, matched, needs>>
          /\ pc = "acked_remove" /\ ret' = ret
          /\ work'.remove \subseteq work.remove
      BY <1>4, <2>2 DEF AckedRemove, appVars
    <3>3. ASSUME NEW r \in matched
          PROVE  IsAcked(rp[r], k.seq_num)
      BY <2>2, <3>2 DEF Inv, ScanAgrees
    <3>4. ASSUME NEW r \in matched, NEW n \in SeqNum
          PROVE  IsAcked(rp'[r], n) <=> IsAcked(rp[r], n)
      <4>1. CASE n = k.seq_num
        BY <1>0, <3>1, <3>3, <4>1 DEF IsAcked, NoChangeForReader
      <4>2. CASE n # k.seq_num
        BY <1>0, <3>1, <4>2 DEF IsAcked
      <4> QED BY <4>1, <4>2
    <3>5. Needs'
      BY <3>2, <3>4 DEF Inv, Needs
    <3>6. ScanAgrees'
      <4> SUFFICES ASSUME NEW j \in work.remove, NEW r \in matched
                   PROVE  IsAcked(rp'[r], j.seq_num)
        BY <3>2 DEF Inv, ScanAgrees
      <4>1. IsAcked(rp[r], j.seq_num) /\ j.seq_num \in SeqNum
        BY <3>2 DEF Inv, ScanAgrees, HCKey
      <4> QED BY <3>4, <4>1
    <3>7. \A r \in matched : \A n \in needs[r] : Key(n) \notin {k}
      BY <1>0, <3>3 DEF Inv, Needs, Key
    <3> QED BY <1>0, <2>2, <3>1, <3>2, <3>5, <3>6, <3>7, RemovalStep DEF RemoveChange
  <2> QED BY <1>4, <2>1, <2>2 DEF AckedRemove
<1>5. CASE Collect
  <2>1. /\ UNCHANGED <<hc, cmds, last, app, matched, needs, ret>>
        /\ pc = "collect" /\ pc' = "send_data"
    BY <1>5 DEF Collect, appVars
  <2>2. rp' = [r \in Readers |-> IF r \in matched
                                 THEN WithStatus(rp[r], UnsentChanges(rp[r]), "Underway")
                                 ELSE rp[r]]
    BY <1>5 DEF Collect
  <2>3. \A r \in Readers : WithStatus(rp[r], UnsentChanges(rp[r]), "Underway") \in ReaderProxy
    BY <1>0, WithStatusType DEF ChangeForReaderStatusKind
  <2>4. rp' \in [Readers -> ReaderProxy]
    BY <1>0, <2>2, <2>3
  <2>5. ASSUME NEW r \in matched, NEW n \in SeqNum
        PROVE  IsAcked(rp'[r], n) <=> IsAcked(rp[r], n)
    <3>1. rp'[r] = WithStatus(rp[r], UnsentChanges(rp[r]), "Underway") /\ rp[r] \in ReaderProxy
      BY <1>0, <2>2
    <3> QED BY <3>1, UnderwayKeeps
  <2>6. Needs'
    BY <2>1, <2>5 DEF Inv, Needs
  <2> QED BY <1>0, <2>1, <2>4, <2>6, ProxyStep
<1>6. ASSUME NEW n \in SeqNum, SendData(n) PROVE Inv'
  BY <1>0, <1>6, QuietStep DEF SendData, appVars
<1>7. CASE DropSent
  <2>1. ~WriterQos.is_reliable /\ pc = "drop_sent" /\ pc' = "send_data" /\ ret' = ret
    BY <1>7 DEF DropSent, Inv, Types
  <2>2. /\ hc' = RemoveChanges(hc, {Key(work.drop)}, FALSE)
        /\ UNCHANGED <<cmds, last, app, matched, rp, needs>>
    BY <1>7 DEF DropSent, RemoveChange, appVars
  <2>3. Needs' /\ ScanAgrees'
    BY <2>1, <2>2 DEF Inv, Needs, ScanAgrees
  <2> QED BY <1>0, <2>1, <2>2, <2>3, RemovalStep
<1>8. ASSUME NEW n \in SeqNum, SendGap(n) PROVE Inv'
  <2>1. /\ pc = "send_data" /\ pc' = pc /\ ret' = ret
        /\ UNCHANGED <<cmds, last, app, matched, rp, needs>>
    BY <1>8 DEF SendGap, appVars
  <2>2. CASE WriterQos.is_reliable
    <3>1. hc' = hc
      BY <1>8, <2>2 DEF SendGap
    <3> QED BY <1>0, <2>1, <3>1, QuietStep
  <2>3. CASE ~WriterQos.is_reliable
    <3>1. hc' = RemoveChanges(hc, {Key(n)}, FALSE)
      BY <1>8, <2>3 DEF SendGap, RemoveChange
    <3>2. Needs' /\ ScanAgrees'
      BY <2>1 DEF Inv, Needs, ScanAgrees
    <3> QED BY <1>0, <2>1, <2>3, <3>1, <3>2, RemovalStep
  <2> QED BY <2>2, <2>3
<1>9. CASE WriteDataDone
  BY <1>0, <1>9, QuietStep DEF WriteDataDone, appVars
<1>10. CASE HeartbeatBase
  BY <1>0, <1>10, QuietStep DEF HeartbeatBase, appVars
<1>11. CASE HeartbeatSend
  BY <1>0, <1>11, QuietStep DEF HeartbeatSend, appVars
<1> QED BY <1>1, <1>2, <1>3, <1>4, <1>5, <1>6, <1>7, <1>8, <1>9, <1>10, <1>11 DEF HandlerStep

-----------------------------------------------------------------------------
(* The events the event loop polls for. *)

\* Receiving a command keeps it: a WriteData command that leaves the channel is
\* being served.
LEMMA RecvInv == ASSUME Inv, RecvCmd PROVE Inv'
<1>1. /\ UNCHANGED <<hc, matched, rp, last, app, needs>>
      /\ cmds' = Tail(cmds) /\ cmds \in Seq(WriterCmd) /\ cmds # << >>
      /\ pc' = IF Head(cmds) = "WriteData" THEN "get_unprocessed" ELSE "hb_last"
      /\ pc # "get_unprocessed" /\ ret' = "drain"
  BY DEF RecvCmd, appVars, Inv, Types
<1>2. /\ cmds' \in Seq(WriterCmd)
      /\ (\E i \in 1..Len(cmds) : cmds[i] = "WriteData") /\ Head(cmds) # "WriteData" =>
           \E i \in 1..Len(cmds') : cmds'[i] = "WriteData"
  BY <1>1, TailKeeps
<1>3. Types' /\ OwnChanges' /\ Needs' /\ ScanAgrees' /\ UnackedIsCached' /\ Sound(hc')
  BY <1>1, <1>2 DEF Inv, Types, OwnChanges, Needs, ScanAgrees, UnackedIsCached
<1>4. NoLostWakeup'
  BY <1>1, <1>2 DEF Inv, NoLostWakeup
<1> QED BY <1>3, <1>4 DEF Inv

\* An acknowledgement keeps it: it only makes fewer samples needed.
LEMMA AckInv == ASSUME Inv, NEW r \in Readers, NEW base \in Nat, HandleAck(r, base) PROVE Inv'
<1>1. /\ UNCHANGED <<hc, cmds, last, app, matched>>
      /\ matched \subseteq Readers /\ rp \in [Readers -> ReaderProxy]
      /\ needs \in [Readers -> SUBSET SeqNum]
      /\ rp' = [rp EXCEPT ![r] = AckedChangesSet(rp[r], base - 1)]
      /\ needs' = [needs EXCEPT ![r] = {n \in needs[r] : n >= base}]
      /\ pc = "poll" /\ pc' = "acked_scan" /\ ret' = "poll" /\ r \in matched
  BY DEF HandleAck, appVars, Inv, Types
<1> DEFINE S == {n \in Entries(rp[r]) : n <= base - 1}
<1>2. rp'[r] = WithStatus(rp[r], S, "Acknowledged")
  BY <1>1 DEF AckedChangesSet
<1>3. ASSUME NEW n \in SeqNum
      PROVE  n \in needs'[r] <=> ~IsAcked(rp'[r], n)
  <2>1. n \in needs[r] <=> ~IsAcked(rp[r], n)
    BY <1>1 DEF Inv, Needs
  <2>2. n \in needs'[r] <=> n \in needs[r] /\ n >= base
    BY <1>1
  <2>3. ~IsAcked(rp[r], n) => n \in Entries(rp[r])
    BY DEF IsAcked, Entries
  <2>4. n <= base - 1 <=> ~(n >= base)
    BY SeqNumAssumption
  <2>5. IsAcked(rp'[r], n) <=> n \in S \/ IsAcked(rp[r], n)
    <3> HIDE DEF S
    <3> QED BY <1>1, <1>2, AckedSets
  <2> QED BY <2>1, <2>2, <2>3, <2>4, <2>5
<1> HIDE DEF S
<1>4. rp' \in [Readers -> ReaderProxy]
  <2>1. rp'[r] \in ReaderProxy
    BY <1>1, <1>2, WithStatusType DEF ChangeForReaderStatusKind
  <2> QED BY <1>1, <2>1
<1>5. needs' \in [Readers -> SUBSET SeqNum] /\ \A q \in Readers : needs'[q] \subseteq needs[q]
  BY <1>1
<1>6. \A q \in Readers : q # r => rp'[q] = rp[q] /\ needs'[q] = needs[q]
  BY <1>1
<1>7. Needs'
  <2> SUFFICES ASSUME NEW q \in matched PROVE needs'[q] = {n \in SeqNum : ~IsAcked(rp'[q], n)}
    BY <1>1 DEF Needs
  <2>1. CASE q = r
    BY <1>3, <1>5, <2>1
  <2>2. CASE q # r
    BY <1>1, <1>6, <2>2 DEF Inv, Needs
  <2> QED BY <2>1, <2>2
<1> QED BY <1>1, <1>4, <1>5, <1>7, ProxyStep

\* Matching keeps it: the new proxy needs only what is cached.
LEMMA MatchInv == ASSUME Inv, NEW r \in Readers, NEW d, MatchReader(r, d) PROVE Inv'
<1>1. /\ UNCHANGED <<hc, cmds, last, app, ret>>
      /\ matched \subseteq Readers /\ matched' = matched \cup {r}
      /\ rp \in [Readers -> ReaderProxy] /\ rp' = [rp EXCEPT ![r] = ProxyOf(hc, d)]
      /\ needs \in [Readers -> SUBSET SeqNum]
      /\ needs' = [needs EXCEPT ![r] = {n \in SeqNum : rp'[r][n].is_relevant}]
      /\ pc = "poll" /\ pc' = "poll" /\ ret \notin {"drop_sent", "acked_remove"}
  BY DEF MatchReader, appVars, Inv, Types
<1>2. /\ rp'[r] = ProxyOf(hc, d)
      /\ needs'[r] = {n \in SeqNum : rp'[r][n].is_relevant}
      /\ \A q \in Readers : q # r => rp'[q] = rp[q] /\ needs'[q] = needs[q]
  BY <1>1
<1>3. rp' \in [Readers -> ReaderProxy] /\ needs' \in [Readers -> SUBSET SeqNum]
  BY <1>1, ProxyOfType
<1>4. needs'[r] = {n \in SeqNum : ~IsAcked(rp'[r], n)}
  BY <1>2, ProxyOfType
<1>5. ASSUME NEW n \in needs'[r]
      PROVE  Key(n) \in hc.changes
  <2>1. n \in SeqNum /\ rp'[r][n].status # "None"
    BY <1>4, <1>5 DEF IsAcked
  <2>2. n \in {k.seq_num : k \in hc.changes}
    BY <1>2, <2>1, ProxyOfType DEF NoChangeForReader
  <2>3. PICK k \in hc.changes : k.seq_num = n
    BY <2>2
  <2>4. k \in HCKey /\ k.guid = WriterGuid
    BY DEF IsCache, Sound, Inv, OwnChanges
  <2> QED BY <2>3, <2>4 DEF Key, HCKey
<1>6. Needs'
  BY <1>1, <1>2, <1>4 DEF Inv, Needs
<1>7. \A q \in matched' : \A n \in needs'[q] :
        (q \in matched /\ n \in needs[q]) \/ Key(n) \in hc.changes
  BY <1>1, <1>2, <1>5
<1>8. matched' \subseteq Readers
  BY <1>1
<1> QED BY <1>1, <1>3, <1>6, <1>7, <1>8, ProxyStep

\* Losing a reader keeps it: the remaining proxies are as they were.
LEMMA UnmatchInv == ASSUME Inv, NEW r \in Readers, UnmatchReader(r) PROVE Inv'
<1>1. /\ UNCHANGED <<hc, cmds, last, app, ret>>
      /\ matched \subseteq Readers /\ matched' = matched \ {r}
      /\ rp \in [Readers -> ReaderProxy] /\ rp' = [rp EXCEPT ![r] = EmptyReaderProxy]
      /\ needs \in [Readers -> SUBSET SeqNum] /\ needs' = [needs EXCEPT ![r] = {}]
      /\ pc = "poll" /\ pc' = "poll" /\ ret \notin {"drop_sent", "acked_remove"}
  BY DEF UnmatchReader, appVars, Inv, Types
<1>2. /\ rp' \in [Readers -> ReaderProxy] /\ needs' \in [Readers -> SUBSET SeqNum]
      /\ \A q \in matched' : rp'[q] = rp[q] /\ needs'[q] = needs[q] /\ q \in matched
  BY <1>1, EmptyProxyType
<1>3. matched' \subseteq Readers /\ Needs'
  BY <1>1, <1>2 DEF Inv, Needs
<1> QED BY <1>1, <1>2, <1>3, ProxyStep

\* Every step keeps the invariant.
LEMMA NextInv == Inv /\ [Next]_vars => Inv'
<1> SUFFICES ASSUME Inv, [Next]_vars PROVE Inv'
  OBVIOUS
<1>1. CASE DataWriterStep \/ SendAssertLiveliness
  BY <1>1, DataWriterInv
<1>2. CASE RecvCmd
  BY <1>2, RecvInv
<1>3. CASE HandlerStep
  BY <1>3, HandlerInv
<1>4. CASE HeartbeatTimer
  BY <1>4, QuietStep DEF HeartbeatTimer, appVars
<1>5. CASE \E r \in Readers : Acknowledge(r)
  <2>1. \A n \in SeqNum : n \in Nat /\ n + 1 \in Nat
    BY SeqNumAssumption
  <2>2. PICK r \in Readers, base \in AckBase : HandleAck(r, base)
    BY <1>5 DEF Acknowledge
  <2>3. base \in Nat
    BY <2>1 DEF AckBase
  <2> QED BY <2>2, <2>3, AckInv
<1>6. CASE \E r \in Readers, d \in {"Volatile", "TransientLocal"} : MatchReader(r, d)
  BY <1>6, MatchInv
<1>7. CASE \E r \in Readers : UnmatchReader(r)
  BY <1>7, UnmatchInv
<1>8. CASE UNCHANGED vars
  <2>1. Types' /\ OwnChanges' /\ NoLostWakeup' /\ UnackedIsCached' /\ Sound(hc')
    BY <1>8 DEF vars, Inv, Types, OwnChanges, NoLostWakeup, UnackedIsCached
  <2>2. Needs' /\ ScanAgrees'
    BY <1>8 DEF vars, Inv, Needs, ScanAgrees
  <2> QED BY <2>1, <2>2 DEF Inv
<1> QED BY <1>1, <1>2, <1>3, <1>4, <1>5, <1>6, <1>7, <1>8 DEF Next

-----------------------------------------------------------------------------

\* The event loop never sleeps on a sample: a sample that waits to be processed
\* has a WriteData command queued, about to be queued, or being served, for any
\* capacity of the channel and however the two threads interleave.
THEOREM WakeupKept == Spec => []NoLostWakeup
<1>1. Inv => NoLostWakeup
  BY DEF Inv
<1> QED BY InitInv, NextInv, <1>1, PTL DEF Spec

\* A reliable writer holds every sample that a matched reader has not
\* acknowledged, for any readers, QoS and interleaving of the two threads.
THEOREM UnackedKept == Spec => []UnackedIsCached
<1>1. Inv => UnackedIsCached
  BY DEF Inv
<1> QED BY InitInv, NextInv, <1>1, PTL DEF Spec

-----------------------------------------------------------------------------
(* What is sent, and in which order. *)

\* The number of the last sample that has been given to add_change.
Written == IF app \in {"add", "sleep"} THEN last - 1 ELSE last

\* The event loop sends what it has collected.
Sending == pc \in {"send_data", "drop_sent"}

\* It is in handle_write_data_cmd, between get_unprocessed and Collect.
Batch == pc = "collect" \/ (pc \in {"acked_scan", "acked_remove"} /\ ret = "collect")

\* The readers that number n is still to be sent to.
Listed(n) == work.data[n] \cup work.gap[n]

\* No number is larger than the last one written.
Numbers ==
  /\ \A k \in hc.changes : k.seq_num <= Written
  /\ \A r \in matched : \A n \in UnsentChanges(rp[r]) : n <= Written
  /\ \A r \in Readers : \A n \in sent[r] : n <= Written
  /\ Sending => \A n \in SeqNum : Listed(n) # {} => n <= Written

\* What has been sent to a reader is older than what is still to be sent to it, and
\* the batch under way is older than what has not been processed.
Order ==
  /\ \A r \in Readers \ matched : sent[r] = {}
  /\ \A r \in matched : \A m \in sent[r], n \in UnsentChanges(rp[r]) : m < n
  /\ \A r \in matched : \A m \in sent[r], u \in hc.unprocessed_seqnum : m < u
  /\ Batch => \A r \in matched : \A n \in UnsentChanges(rp[r]), u \in hc.unprocessed_seqnum : n < u
  /\ Sending =>
       /\ \A r \in matched : UnsentChanges(rp[r]) = {}
       /\ \A n \in SeqNum : Listed(n) \subseteq matched
       /\ \A n \in SeqNum, u \in hc.unprocessed_seqnum : Listed(n) # {} => n < u
       /\ \A n \in SeqNum : \A r \in work.data[n] : \A m \in sent[r] : m < n

\* What is to be sent is in the cache.
Held ==
  /\ ~Sending => \A r \in matched : \A n \in UnsentChanges(rp[r]) : Key(n) \in hc.changes
  /\ Sending => \A n \in ToSend(work.data) :
                  Key(n) \in hc.changes /\ (pc = "drop_sent" => n # work.drop)

Flow == Numbers /\ Order

\* What add_change answers.
LEMMA AddChangeResultType ==
  ASSUME NEW h, NEW k, NEW q \in Qos
  PROVE  AddChangeResult(h, k, q) \in {"Ok", "WouldBlock", "Panic"}
  BY Zenon DEF AddChangeResult, Qos

\* The part of TypeOK that Inv does not have.
MoreTypes ==
  /\ Len(cmds) <= ChannelCapacity
  /\ last \in SeqNum \cup {0}
  /\ app \in {"idle", "add", "sleep", "send"}
  /\ pc \in {"poll", "drain", "get_unprocessed", "acked_scan", "acked_remove",
             "collect", "send_data", "drop_sent",
             "hb_last", "hb_send_poll", "hb_send_drain"}
  /\ ret \in {"poll", "drain", "collect", "hb_send_poll", "hb_send_drain"}
  /\ work \in [base : Nat, remove : SUBSET HCKey,
               data : [SeqNum -> SUBSET Readers], gap : [SeqNum -> SUBSET Readers],
               drop : SeqNum \cup {0}]
  /\ sent \in [Readers -> SUBSET SeqNum]
  /\ owed \in SUBSET Readers
  /\ panicked \in BOOLEAN

\* What the event loop holds between handlers has the type of work.
LEMMA IdleType ==
  Idle \in [base : Nat, remove : SUBSET HCKey,
            data : [SeqNum -> SUBSET Readers], gap : [SeqNum -> SUBSET Readers],
            drop : SeqNum \cup {0}]
  BY DEF Idle, NoOne

\* Those types hold at first.
LEMMA MoreTypesInit == Init => MoreTypes
<1> SUFFICES ASSUME Init PROVE MoreTypes
  OBVIOUS
<1>1. Len(cmds) <= ChannelCapacity
  BY CapacityAssumption DEF Init
<1> QED BY <1>1, IdleType DEF Init, MoreTypes

\* The largest announced number is a number the DataWriter has used.
LEMMA HeartbeatLastType ==
  ASSUME Inv, Numbers, MoreTypes
  PROVE  HeartbeatLast(hc) \in SeqNum \cup {0} /\ HeartbeatLast(hc) \in Nat
<1> DEFINE T == Announced(hc)
<1>1. T \subseteq SeqNum /\ T \in SUBSET Nat
  BY SeqNumAssumption DEF Inv, Sound, IsCache, HCKey, Announced
<1>2. last \in Nat /\ \A n \in T : n <= last
  <2>1. last \in Nat /\ Written \in Int /\ Written <= last
    BY SeqNumAssumption DEF MoreTypes, Written
  <2>2. \A n \in T : n <= Written
    BY DEF Numbers, Announced
  <2> QED BY <1>1, <2>1, <2>2
<1> HIDE DEF T
<1>3. MaxOrZero(T) \in T \cup {0}
  BY <1>1, <1>2, MaxRight
<1> QED BY <1>1, <1>3 DEF HeartbeatLast, SeqNumMax, T

\* Every step keeps those types.
LEMMA MoreTypesNext == ASSUME Inv, Numbers, MoreTypes, [Next]_vars PROVE MoreTypes'
<1> DEFINE WorkType == [base : Nat, remove : SUBSET HCKey,
                        data : [SeqNum -> SUBSET Readers], gap : [SeqNum -> SUBSET Readers],
                        drop : SeqNum \cup {0}]
<1>0. /\ cmds \in Seq(WriterCmd) /\ Len(cmds) \in Nat /\ matched \subseteq Readers
      /\ IsCache(hc) /\ work \in WorkType /\ ChannelCapacity \in Nat
  BY CapacityAssumption DEF Inv, Types, Sound, MoreTypes
<1>1. CASE StartWrite
  BY <1>1 DEF StartWrite, loopVars, MoreTypes
<1>2. CASE AddChangeToCache
  <2>1. app' \in {"send", "sleep", "add"}
    BY <1>2, AddChangeResultType, WriterQosAssumption DEF AddChangeToCache
  <2> QED BY <1>2, <2>1 DEF AddChangeToCache, loopVars, MoreTypes
<1>3. CASE WakeAndRetry
  BY <1>3 DEF WakeAndRetry, loopVars, MoreTypes
<1>4. CASE SendWriteData \/ SendAssertLiveliness
  <2>1. Len(cmds') = Len(cmds) + 1 /\ Len(cmds) < ChannelCapacity
    BY <1>0, <1>4 DEF SendWriteData, SendAssertLiveliness, WriterCmd
  <2> QED BY <1>0, <1>4, <2>1 DEF SendWriteData, SendAssertLiveliness, loopVars, MoreTypes
<1>5. CASE RecvCmd
  <2>1. Len(cmds') = Len(cmds) - 1
    BY <1>0, <1>5 DEF RecvCmd
  <2> QED BY <1>0, <1>5, <2>1 DEF RecvCmd, appVars, MoreTypes
<1>6. CASE ChannelEmpty
  BY <1>6 DEF ChannelEmpty, appVars, MoreTypes
<1>7. CASE GetUnprocessedStep
  <2>1. MinOrZero(hc.unprocessed_seqnum) \in Nat
    BY <1>0, MinRight, SeqNumAssumption DEF IsCache
  <2>2. work' \in WorkType
    BY <1>0, <1>7, <2>1 DEF GetUnprocessedStep
  <2>3. WriterQos.is_reliable \in BOOLEAN
    BY WriterQosAssumption DEF Qos
  <2>4. pc' \in {"drain", "acked_scan", "collect"}
    BY <1>7, <2>3, Zenon DEF GetUnprocessedStep
  <2> QED BY <1>7, <2>2, <2>4 DEF GetUnprocessedStep, appVars, MoreTypes
<1>8. CASE AckedScan
  <2>1. AckedChanges(hc, rp, matched, work.base) \subseteq HCKey
    BY <1>0 DEF AckedChanges, IsCache
  <2> QED BY <1>0, <1>8, <2>1 DEF AckedScan, appVars, MoreTypes
<1>9. CASE AckedRemove
  <2>1. work' \in WorkType /\ pc' \in {pc, ret}
    BY <1>0, <1>9 DEF AckedRemove
  <2> QED BY <1>9, <2>1 DEF AckedRemove, appVars, MoreTypes
<1>10. CASE Collect
  <2>1. work' \in WorkType
    BY <1>0, <1>10 DEF Collect
  <2> QED BY <1>10, <2>1 DEF Collect, appVars, MoreTypes
<1>11. ASSUME NEW n \in SeqNum, SendData(n) PROVE MoreTypes'
  <2>1. work' \in WorkType
    BY <1>0, <1>11 DEF SendData
  <2>2. sent' \in [Readers -> SUBSET SeqNum]
    BY <1>11 DEF SendData, MoreTypes
  <2> QED BY <1>11, <2>1, <2>2 DEF SendData, appVars, MoreTypes
<1>12. CASE DropSent
  BY <1>0, <1>12 DEF DropSent, appVars, MoreTypes
<1>13. ASSUME NEW n \in SeqNum, SendGap(n) PROVE MoreTypes'
  <2>1. work' \in WorkType
    BY <1>0, <1>13 DEF SendGap
  <2>2. sent' \in [Readers -> SUBSET SeqNum]
    BY <1>13 DEF SendGap, MoreTypes
  <2> QED BY <1>13, <2>1, <2>2 DEF SendGap, appVars, MoreTypes
<1>14. CASE WriteDataDone
  BY <1>14, IdleType DEF WriteDataDone, appVars, MoreTypes
<1>15. CASE HeartbeatTimer
  BY <1>15 DEF HeartbeatTimer, appVars, MoreTypes
<1>16. CASE HeartbeatBase
  <2>1. HeartbeatLast(hc) \in Nat
    BY HeartbeatLastType
  <2> QED BY <1>0, <1>16, <2>1 DEF HeartbeatBase, appVars, MoreTypes
<1>17. CASE HeartbeatSend
  BY <1>0, <1>17, IdleType DEF HeartbeatSend, appVars, MoreTypes
<1>18. ASSUME NEW r \in Readers, Acknowledge(r) PROVE MoreTypes'
  <2>1. PICK base \in AckBase : HandleAck(r, base)
    BY <1>18 DEF Acknowledge
  <2>2. base - 1 \in Nat
    BY SeqNumAssumption DEF AckBase
  <2> QED BY <1>0, <2>1, <2>2 DEF HandleAck, appVars, MoreTypes
<1>19. ASSUME NEW r \in Readers, NEW d, MatchReader(r, d) PROVE MoreTypes'
  BY <1>19 DEF MatchReader, appVars, MoreTypes
<1>20. ASSUME NEW r \in Readers, UnmatchReader(r) PROVE MoreTypes'
  BY <1>20 DEF UnmatchReader, appVars, MoreTypes
<1>21. CASE UNCHANGED vars
  BY <1>21 DEF vars, MoreTypes
<1> QED BY <1>1, <1>2, <1>3, <1>4, <1>5, <1>6, <1>7, <1>8, <1>9, <1>10, <1>11, <1>12, <1>13,
           <1>14, <1>15, <1>16, <1>17, <1>18, <1>19, <1>20, <1>21
        DEF Next, DataWriterStep, HandlerStep

\* Facts the steps share.
LEMMA FlowFacts ==
  ASSUME Inv, MoreTypes
  PROVE  /\ matched \subseteq Readers /\ rp \in [Readers -> ReaderProxy]
         /\ Sound(hc) /\ IsCache(hc)
         /\ Written \in Int /\ last \in Nat
         /\ \A r \in Readers : UnsentChanges(rp[r]) \subseteq SeqNum
         /\ sent \in [Readers -> SUBSET SeqNum]
         /\ hc.unprocessed_seqnum \subseteq SeqNum
         /\ SeqNum \subseteq Int
         /\ work.data \in [SeqNum -> SUBSET Readers] /\ work.gap \in [SeqNum -> SUBSET Readers]
  BY SeqNumAssumption DEF Inv, Types, Sound, IsCache, MoreTypes, Written, UnsentChanges

\* A step that leaves the cache, the proxies and what was sent alone, and neither
\* starts nor ends a batch.
LEMMA FlowQuiet ==
  ASSUME Flow, UNCHANGED <<hc, matched, rp, sent>>, Written' = Written,
         \/ UNCHANGED <<pc, ret, work>>
         \/ ~Sending /\ ~Sending' /\ (Batch' => Batch)
  PROVE  Flow'
<1>1. (Sending' => Sending /\ work' = work) /\ (Batch' => Batch)
  BY DEF Sending, Batch
<1>2. Numbers'
  BY <1>1 DEF Flow, Numbers, Listed
<1>3. Order'
  BY <1>1 DEF Flow, Order, Listed
<1> QED BY <1>2, <1>3 DEF Flow

\* The DataWriter's steps.
LEMMA FlowDataWriter ==
  ASSUME Inv, MoreTypes, Flow, DataWriterStep \/ SendAssertLiveliness PROVE Flow'
<1>0. UNCHANGED <<matched, rp, sent, pc, ret, work>>
  BY DEF DataWriterStep, StartWrite, AddChangeToCache, WakeAndRetry, SendWriteData,
         SendAssertLiveliness, loopVars
<1>1. CASE StartWrite
  <2>1. hc' = hc /\ Written' = Written
    BY <1>1, FlowFacts DEF StartWrite, Written
  <2> QED BY <1>0, <2>1, FlowQuiet
<1>2. CASE WakeAndRetry \/ SendWriteData \/ SendAssertLiveliness
  <2>1. hc' = hc /\ Written' = Written
    BY <1>2 DEF WakeAndRetry, SendWriteData, SendAssertLiveliness, Written
  <2> QED BY <1>0, <2>1, FlowQuiet
<1>3. CASE AddChangeToCache
  <2>1. app = "add" /\ last' = last /\ Written = last - 1
    BY <1>3 DEF AddChangeToCache, Written
  <2>2. CASE AddChangeResult(hc, Key(last), WriterQos) # "Ok"
    <3>1. hc' = hc /\ app' \in {"add", "sleep"}
      BY <1>3, <2>2, AddChangeResultType, WriterQosAssumption DEF AddChangeToCache
    <3> QED BY <1>0, <2>1, <3>1, FlowQuiet DEF Written
  <2>3. CASE AddChangeResult(hc, Key(last), WriterQos) = "Ok"
    <3>1. hc' = AddChange(hc, Key(last), WriterQos) /\ app' = "send"
      BY <1>3, <2>3 DEF AddChangeToCache
    <3>2. Key(last) \in HCKey /\ Key(last).seq_num = last
      BY <2>1, WriterGuidAssumption DEF Inv, Types, Key, HCKey
    <3>3. /\ hc'.changes \subseteq hc.changes \cup {Key(last)}
          /\ hc'.unprocessed_seqnum \subseteq hc.unprocessed_seqnum \cup {last}
      BY <3>1, <3>2, FlowFacts, AddFields, WriterQosAssumption
    <3>4. Written' = Written + 1 /\ Written' = last /\ last \in Nat
      BY <2>1, <3>1, FlowFacts DEF Written
    <3>5. ASSUME NEW n \in Int, n <= Written PROVE n <= Written' /\ n < last
      BY <2>1, <3>4, <3>5
    <3>6. (Sending' <=> Sending) /\ (Batch' <=> Batch) /\ \A n : Listed(n)' = Listed(n)
      BY <1>0 DEF Sending, Batch, Listed
    <3>7. \A k \in hc'.changes : k.seq_num <= Written'
      <4> SUFFICES ASSUME NEW k \in hc'.changes PROVE k.seq_num <= Written'
        OBVIOUS
      <4>1. CASE k = Key(last)
        BY <3>2, <3>4, <4>1
      <4>2. CASE k # Key(last)
        <5>1. k \in hc.changes /\ k.seq_num \in Int /\ k.seq_num <= Written
          BY <3>3, <4>2, FlowFacts DEF IsCache, HCKey, Flow, Numbers
        <5> QED BY <3>5, <5>1
      <4> QED BY <4>1, <4>2
    <3>8. \A r \in Readers : \A n \in sent[r] : n \in Int /\ n <= Written' /\ n < last
      BY <3>5, FlowFacts DEF Flow, Numbers
    <3>9. \A r \in matched : \A n \in UnsentChanges(rp[r]) : n \in Int /\ n <= Written' /\ n < last
      BY <3>5, FlowFacts DEF Flow, Numbers
    <3>10. Sending => \A n \in SeqNum : Listed(n) # {} => n <= Written' /\ n < last
      BY <3>5, FlowFacts DEF Flow, Numbers
    <3>11. Numbers'
      BY <1>0, <3>6, <3>7, <3>8, <3>9, <3>10 DEF Numbers
    <3>12. Order'
      BY <1>0, <3>3, <3>6, <3>8, <3>9, <3>10, FlowFacts DEF Flow, Order
    <3> QED BY <3>11, <3>12 DEF Flow
  <2> QED BY <2>2, <2>3
<1> QED BY <1>1, <1>2, <1>3 DEF DataWriterStep

\* handle_write_data_cmd collects: a new batch starts.
LEMMA FlowGetUnprocessed == ASSUME Inv, MoreTypes, Flow, GetUnprocessedStep PROVE Flow'
<1> DEFINE S == hc.unprocessed_seqnum
<1>1. /\ rp' = RegisterUnsent(rp, matched, S) /\ UNCHANGED <<matched, sent, last, app>>
      /\ pc' \in {"drain", "acked_scan", "collect"}
      /\ hc'.changes = hc.changes /\ hc'.unprocessed_seqnum = {}
  <2>1. WriterQos.is_reliable \in BOOLEAN
    BY WriterQosAssumption DEF Qos
  <2>2. pc' \in {"drain", "acked_scan", "collect"}
    BY <2>1, Zenon DEF GetUnprocessedStep
  <2> QED BY <2>2, FlowFacts DEF GetUnprocessedStep, GetUnprocessed, IsCache, appVars
<1>2. ASSUME NEW r \in matched, NEW n \in UnsentChanges(rp'[r])
      PROVE  n \in SeqNum /\ (n \in S \/ n \in UnsentChanges(rp[r]))
  <2>1. n \in SeqNum /\ (n \notin S => rp'[r][n] = rp[r][n])
    BY <1>1, FlowFacts, RegisterType DEF UnsentChanges
  <2> QED BY <2>1 DEF UnsentChanges
<1>3. ~Sending' /\ Written' = Written
  BY <1>1 DEF Sending, Written
<1>4. \A n \in S : n <= Written
  BY FlowFacts DEF Flow, Numbers, Sound, UnprocessedHeld
<1>5. Numbers'
  BY <1>1, <1>2, <1>3, <1>4 DEF Flow, Numbers
<1>6. Order'
  BY <1>1, <1>2, <1>3 DEF Flow, Order
<1> QED BY <1>5, <1>6 DEF Flow

\* A step that removes from the cache, from the proxies or from both, outside the
\* sending.
LEMMA FlowRemoves ==
  ASSUME Inv, MoreTypes, Flow, UNCHANGED <<matched, sent, last, app>>,
         hc'.changes \subseteq hc.changes, hc'.unprocessed_seqnum = hc.unprocessed_seqnum,
         \A r \in matched : UnsentChanges(rp'[r]) \subseteq UnsentChanges(rp[r]),
         ~Sending', Batch' => Batch
  PROVE  Flow'
<1>1. Written' = Written
  BY DEF Written
<1>2. Numbers'
  BY <1>1 DEF Flow, Numbers
<1>3. Order'
  BY <1>1 DEF Flow, Order
<1> QED BY <1>2, <1>3 DEF Flow

\* remove_acked_changes.
LEMMA FlowAckedRemove == ASSUME Inv, MoreTypes, Flow, AckedRemove PROVE Flow'
<1>0. /\ UNCHANGED <<matched, sent, last, app, ret>> /\ pc = "acked_remove"
      /\ ret \notin {"send_data", "drop_sent", "acked_scan", "acked_remove"}
  BY DEF AckedRemove, appVars, MoreTypes
<1>1. CASE work.remove = {} /\ pc' = ret /\ UNCHANGED <<hc, rp, work>>
  BY <1>0, <1>1, FlowQuiet DEF Sending, Batch, Written
<1>2. ASSUME NEW k \in work.remove, hc' = RemoveChange(hc, k, FALSE),
             rp' = ForgetStates(rp, matched, {k.seq_num}), pc' = pc
      PROVE  Flow'
  <2>1. hc'.changes \subseteq hc.changes /\ hc'.unprocessed_seqnum = hc.unprocessed_seqnum
    BY <1>2, FlowFacts, RemoveFields DEF RemoveChange
  <2>2. \A r \in matched : UnsentChanges(rp'[r]) \subseteq UnsentChanges(rp[r])
    BY <1>2, FlowFacts, ForgetType DEF UnsentChanges, NoChangeForReader
  <2>3. ~Sending' /\ (Batch' => Batch)
    BY <1>0, <1>2 DEF Sending, Batch
  <2> QED BY <1>0, <2>1, <2>2, <2>3, FlowRemoves
<1> QED BY <1>1, <1>2 DEF AckedRemove

\* What Collect does to the unsent entries.
LEMMA CollectFacts ==
  ASSUME Inv, MoreTypes, Collect
  PROVE  /\ UNCHANGED <<hc, matched, sent, last, app>> /\ pc = "collect" /\ pc' = "send_data"
         /\ \A r \in matched : UnsentChanges(rp'[r]) = {}
         /\ \A n \in SeqNum : \A r : r \in Listed(n)' => r \in matched /\ n \in UnsentChanges(rp[r])
         /\ \A n \in SeqNum : \A r : r \in work'.data[n] => r \in Listed(n)'
<1>1. /\ UNCHANGED <<hc, matched, sent, last, app>> /\ pc = "collect" /\ pc' = "send_data"
  BY DEF Collect, appVars
<1>2. ASSUME NEW r \in matched PROVE UnsentChanges(rp'[r]) = {}
  <2>1. rp'[r] = WithStatus(rp[r], UnsentChanges(rp[r]), "Underway") /\ rp[r] \in ReaderProxy
    BY FlowFacts DEF Collect
  <2> QED BY <2>1, WithStatusUnsent DEF ChangeForReaderStatusKind
<1>3. ASSUME NEW n \in SeqNum, NEW r, r \in Listed(n)'
      PROVE  r \in matched /\ n \in UnsentChanges(rp[r])
  BY <1>3 DEF Collect, Listed, MoreTypes
<1> QED BY <1>1, <1>2, <1>3 DEF Listed

\* The batch is put on the lists.
LEMMA FlowCollect == ASSUME Inv, MoreTypes, Flow, Collect PROVE Flow'
<1>1. Sending' /\ ~Batch' /\ Batch /\ Written' = Written
  BY CollectFacts DEF Sending, Batch, Written
<1>2. Numbers'
  BY <1>1, CollectFacts DEF Flow, Numbers
<1>3. Order'
  BY <1>1, CollectFacts DEF Flow, Order
<1> QED BY <1>2, <1>3 DEF Flow

\* A DATA is sent.
LEMMA FlowSendData == ASSUME Inv, MoreTypes, Flow, NEW n \in SeqNum, SendData(n) PROVE Flow'
<1>1. /\ UNCHANGED <<hc, matched, rp, last, app>> /\ pc = "send_data"
      /\ pc' \in {"send_data", "drop_sent"}
      /\ work.data[n] # {} /\ \A m \in SeqNum : work.data[m] # {} => n <= m
  BY DEF SendData, appVars, ToSend
<1>2. /\ work'.gap = work.gap
      /\ work'.data[n] = {}
      /\ \A m \in SeqNum : m # n => work'.data[m] = work.data[m]
  BY DEF SendData, MoreTypes
<1>3. \A r \in Readers : /\ sent'[r] \subseteq sent[r] \cup {n}
                         /\ r \notin work.data[n] => sent'[r] = sent[r]
  BY FlowFacts DEF SendData
<1>4. Sending /\ Sending' /\ ~Batch' /\ Written' = Written
  BY <1>1 DEF Sending, Batch, Written
<1>5. \A m \in SeqNum : work'.data[m] \subseteq work.data[m] /\ Listed(m)' \subseteq Listed(m)
  BY <1>2 DEF Listed
<1>6. Listed(n) # {} /\ work.data[n] \subseteq matched /\ n <= Written
      /\ \A u \in hc.unprocessed_seqnum : n < u
  BY <1>1, <1>4 DEF Listed, Flow, Order, Numbers
<1>7. Numbers'
  BY <1>1, <1>3, <1>4, <1>5, <1>6 DEF Flow, Numbers
<1>8. ASSUME NEW m \in SeqNum, NEW r \in work'.data[m], NEW l \in sent'[r] PROVE l < m
  <2>1. r \in work.data[m] /\ m # n /\ n <= m /\ r \in Readers
    BY <1>1, <1>2, <1>5, FlowFacts
  <2>2. CASE l = n
    BY <2>1, <2>2, FlowFacts
  <2>3. CASE l # n
    BY <1>3, <1>4, <2>1, <2>3 DEF Flow, Order
  <2> QED BY <2>2, <2>3
<1>9. \A r \in Readers \ matched : sent'[r] = {}
  BY <1>3, <1>6 DEF Flow, Order
<1>10. \A r \in matched : \A l \in sent'[r], u \in hc.unprocessed_seqnum : l < u
  BY <1>3, <1>6, FlowFacts DEF Flow, Order
<1>11. \A r \in matched : UnsentChanges(rp[r]) = {}
  BY <1>4 DEF Flow, Order
<1>12. /\ \A m \in SeqNum : Listed(m)' \subseteq matched
       /\ \A m \in SeqNum, u \in hc.unprocessed_seqnum : Listed(m)' # {} => m < u
  BY <1>4, <1>5 DEF Flow, Order
<1>13. Order'
  BY <1>1, <1>4, <1>8, <1>9, <1>10, <1>11, <1>12 DEF Order
<1> QED BY <1>7, <1>13 DEF Flow

\* A best-effort writer forgets the sample it has sent.
LEMMA FlowDropSent == ASSUME Inv, MoreTypes, Flow, DropSent PROVE Flow'
<1>1. /\ UNCHANGED <<matched, rp, sent, last, app>> /\ pc = "drop_sent" /\ pc' = "send_data"
      /\ hc' = RemoveChanges(hc, {Key(work.drop)}, FALSE)
      /\ work'.data = work.data /\ work'.gap = work.gap
  BY DEF DropSent, appVars, RemoveChange, MoreTypes
<1>2. hc'.changes \subseteq hc.changes /\ hc'.unprocessed_seqnum = hc.unprocessed_seqnum
  BY <1>1, FlowFacts, RemoveFields
<1>3. Sending /\ Sending' /\ ~Batch' /\ Written' = Written /\ \A n : Listed(n)' = Listed(n)
  BY <1>1 DEF Sending, Batch, Written, Listed
<1>4. Numbers'
  BY <1>1, <1>2, <1>3 DEF Flow, Numbers
<1>5. Order'
  BY <1>1, <1>2, <1>3 DEF Flow, Order
<1> QED BY <1>4, <1>5 DEF Flow

\* A GAP is sent, after the DATA.
LEMMA FlowSendGap == ASSUME Inv, MoreTypes, Flow, NEW n \in SeqNum, SendGap(n) PROVE Flow'
<1>1. /\ UNCHANGED <<matched, rp, last, app>> /\ pc = "send_data" /\ pc' = pc
      /\ work.gap[n] # {} /\ \A m \in SeqNum : work.data[m] = {}
  BY DEF SendGap, appVars, ToSend
<1>2. work'.data = work.data /\ \A m \in SeqNum : work'.gap[m] \subseteq work.gap[m]
  BY DEF SendGap, MoreTypes
<1>3. \A r \in Readers : /\ sent'[r] \subseteq sent[r] \cup {n}
                         /\ r \notin work.gap[n] => sent'[r] = sent[r]
  BY FlowFacts DEF SendGap
<1>4. hc'.changes \subseteq hc.changes /\ hc'.unprocessed_seqnum = hc.unprocessed_seqnum
  <2>1. hc' = hc \/ hc' = RemoveChanges(hc, {Key(n)}, FALSE)
    BY DEF SendGap, RemoveChange
  <2> QED BY <2>1, FlowFacts, RemoveFields
<1>5. Sending /\ Sending' /\ ~Batch' /\ Written' = Written
      /\ \A m \in SeqNum : Listed(m)' \subseteq Listed(m)
  BY <1>1, <1>2 DEF Sending, Batch, Written, Listed
<1>6. Listed(n) # {} /\ work.gap[n] \subseteq matched /\ n <= Written
      /\ \A u \in hc.unprocessed_seqnum : n < u
  BY <1>1, <1>5 DEF Listed, Flow, Order, Numbers
<1>7. Numbers'
  BY <1>1, <1>3, <1>4, <1>5, <1>6 DEF Flow, Numbers
<1>8. \A m \in SeqNum : work'.data[m] = {}
  BY <1>1, <1>2
<1>9. \A r \in Readers \ matched : sent'[r] = {}
  BY <1>3, <1>6 DEF Flow, Order
<1>10. \A r \in matched : \A l \in sent'[r], u \in hc'.unprocessed_seqnum : l < u
  BY <1>3, <1>4, <1>6, FlowFacts DEF Flow, Order
<1>11. \A r \in matched : UnsentChanges(rp[r]) = {}
  BY <1>5 DEF Flow, Order
<1>12. /\ \A m \in SeqNum : Listed(m)' \subseteq matched
       /\ \A m \in SeqNum, u \in hc'.unprocessed_seqnum : Listed(m)' # {} => m < u
  BY <1>4, <1>5 DEF Flow, Order
<1>13. Order'
  BY <1>1, <1>5, <1>8, <1>9, <1>10, <1>11, <1>12 DEF Order
<1> QED BY <1>7, <1>13 DEF Flow

\* The batch is sent.
LEMMA FlowDone == ASSUME Inv, MoreTypes, Flow, WriteDataDone PROVE Flow'
<1>1. UNCHANGED <<hc, matched, rp, sent, last, app>> /\ pc' = "drain"
  BY DEF WriteDataDone, appVars
<1>2. ~Sending' /\ ~Batch' /\ Written' = Written
  BY <1>1 DEF Sending, Batch, Written
<1>3. Numbers'
  BY <1>1, <1>2 DEF Flow, Numbers
<1>4. Order'
  BY <1>1, <1>2 DEF Flow, Order
<1> QED BY <1>3, <1>4 DEF Flow

\* An acknowledgement leaves no more unsent than before.
LEMMA FlowAck == ASSUME Inv, MoreTypes, Flow, NEW r \in Readers, NEW base, HandleAck(r, base) PROVE Flow'
<1>1. /\ UNCHANGED <<hc, matched, sent, last, app>> /\ pc' = "acked_scan" /\ ret' = "poll"
      /\ rp' = [rp EXCEPT ![r] = AckedChangesSet(rp[r], base - 1)]
  BY DEF HandleAck, appVars
<1>2. \A q \in matched : UnsentChanges(rp'[q]) \subseteq UnsentChanges(rp[q])
  <2> SUFFICES ASSUME NEW q \in matched PROVE UnsentChanges(rp'[q]) \subseteq UnsentChanges(rp[q])
    OBVIOUS
  <2>1. CASE q # r
    BY <1>1, <2>1, FlowFacts
  <2>2. CASE q = r
    <3> DEFINE T == {n \in Entries(rp[r]) : n <= base - 1}
    <3>1. rp'[r] = WithStatus(rp[r], T, "Acknowledged") /\ rp[r] \in ReaderProxy
      BY <1>1, FlowFacts DEF AckedChangesSet
    <3> HIDE DEF T
    <3>2. UnsentChanges(rp'[r]) = UnsentChanges(rp[r]) \ T
      BY <3>1, WithStatusUnsent DEF ChangeForReaderStatusKind
    <3> QED BY <2>2, <3>2
  <2> QED BY <2>1, <2>2
<1>3. ~Sending' /\ ~Batch'
  BY <1>1 DEF Sending, Batch
<1> QED BY <1>1, <1>2, <1>3, FlowRemoves

\* A new reader has been sent nothing.
LEMMA FlowMatch == ASSUME Inv, MoreTypes, Flow, NEW r \in Readers, NEW d, MatchReader(r, d) PROVE Flow'
<1>1. /\ UNCHANGED <<hc, sent, last, app, pc, ret, work>> /\ pc = "poll"
      /\ r \notin matched /\ matched' = matched \cup {r}
      /\ rp' = [rp EXCEPT ![r] = ProxyOf(hc, d)]
  BY DEF MatchReader, appVars
<1>2. ~Sending' /\ ~Batch' /\ Written' = Written /\ sent[r] = {}
  BY <1>1 DEF Sending, Batch, Written, Flow, Order
<1>3. \A q \in matched : rp'[q] = rp[q]
  BY <1>1, FlowFacts
<1>4. \A n \in UnsentChanges(rp'[r]) : n <= Written
  <2>1. rp'[r] = ProxyOf(hc, d)
    BY <1>1, FlowFacts
  <2>2. \A n \in UnsentChanges(rp'[r]) : n \in {k.seq_num : k \in hc.changes}
    BY <2>1, ProxyOfType DEF UnsentChanges, NoChangeForReader
  <2> QED BY <2>2 DEF Flow, Numbers
<1>5. Numbers'
  BY <1>1, <1>2, <1>3, <1>4 DEF Flow, Numbers
<1>6. Order'
  BY <1>1, <1>2, <1>3 DEF Flow, Order
<1> QED BY <1>5, <1>6 DEF Flow

\* A reader that leaves takes its history with it.
LEMMA FlowUnmatch == ASSUME Inv, MoreTypes, Flow, NEW r \in Readers, UnmatchReader(r) PROVE Flow'
<1>1. /\ UNCHANGED <<hc, last, app, pc, ret, work>> /\ pc = "poll"
      /\ matched' = matched \ {r}
      /\ rp' = [rp EXCEPT ![r] = EmptyReaderProxy]
      /\ sent' = [sent EXCEPT ![r] = {}]
  BY DEF UnmatchReader, appVars
<1>2. ~Sending' /\ ~Batch' /\ Written' = Written
  BY <1>1 DEF Sending, Batch, Written
<1>3. /\ \A q \in matched' : rp'[q] = rp[q] /\ q \in matched
      /\ \A q \in Readers : sent'[q] = IF q = r THEN {} ELSE sent[q]
  BY <1>1, FlowFacts
<1>4. Numbers'
  BY <1>1, <1>2, <1>3 DEF Flow, Numbers
<1>5. Order'
  BY <1>1, <1>2, <1>3, FlowFacts DEF Flow, Order
<1> QED BY <1>4, <1>5 DEF Flow

\* Nothing has been written or sent at first.
LEMMA FlowInit == Init => Flow
<1> SUFFICES ASSUME Init PROVE Flow
  OBVIOUS
<1>1. /\ hc.changes = {} /\ hc.unprocessed_seqnum = {} /\ pc = "poll"
      /\ \A r \in Readers : sent[r] = {} /\ rp[r] = EmptyReaderProxy
      /\ matched \subseteq Readers
  BY DEF Init, EmptyCache
<1>2. UnsentChanges(EmptyReaderProxy) = {}
  BY DEF UnsentChanges, EmptyReaderProxy, NoChangeForReader
<1> QED BY <1>1, <1>2 DEF Flow, Numbers, Order, Sending, Batch

\* Every step keeps the numbers bounded and the order of sending.
LEMMA FlowNext == ASSUME Inv, MoreTypes, Flow, [Next]_vars PROVE Flow'
<1>1. CASE DataWriterStep \/ SendAssertLiveliness
  BY <1>1, FlowDataWriter
<1>2. CASE \/ RecvCmd \/ ChannelEmpty \/ AckedScan \/ HeartbeatTimer \/ HeartbeatBase \/ HeartbeatSend
  <2>1. UNCHANGED <<hc, matched, rp, sent, last, app>>
    BY <1>2 DEF RecvCmd, ChannelEmpty, AckedScan, HeartbeatTimer, HeartbeatBase, HeartbeatSend, appVars
  <2>2. ~Sending /\ ~Sending' /\ (Batch' => Batch)
    BY <1>2 DEF RecvCmd, ChannelEmpty, AckedScan, HeartbeatTimer, HeartbeatBase, HeartbeatSend,
       Sending, Batch
  <2> QED BY <2>1, <2>2, FlowQuiet DEF Written
<1>3. CASE GetUnprocessedStep \/ AckedRemove \/ Collect \/ DropSent \/ WriteDataDone
  BY <1>3, FlowGetUnprocessed, FlowAckedRemove, FlowCollect, FlowDropSent, FlowDone
<1>4. ASSUME NEW n \in SeqNum, SendData(n) \/ SendGap(n) PROVE Flow'
  BY <1>4, FlowSendData, FlowSendGap
<1>5. ASSUME NEW r \in Readers, Acknowledge(r) PROVE Flow'
  BY <1>5, FlowAck DEF Acknowledge
<1>6. ASSUME NEW r \in Readers, NEW d, MatchReader(r, d) PROVE Flow'
  BY <1>6, FlowMatch
<1>7. ASSUME NEW r \in Readers, UnmatchReader(r) PROVE Flow'
  BY <1>7, FlowUnmatch
<1>8. CASE UNCHANGED vars
  BY <1>8, FlowQuiet DEF vars, Written
<1> QED BY <1>1, <1>2, <1>3, <1>4, <1>5, <1>6, <1>7, <1>8 DEF Next, HandlerStep

-----------------------------------------------------------------------------
\* The invariants together.
LEMMA AllInit == Init => Inv /\ MoreTypes /\ Flow
  BY InitInv, MoreTypesInit, FlowInit

\* Every step keeps the invariants together.
LEMMA AllNext == Inv /\ MoreTypes /\ Flow /\ [Next]_vars => (Inv /\ MoreTypes /\ Flow)'
  BY NextInv, MoreTypesNext, FlowNext DEF Flow

\* The variables keep their types, and the WriterCmd channel never holds more
\* than its capacity.
THEOREM TypeCorrect == Spec => []TypeOK
<1>1. Inv /\ MoreTypes => TypeOK
  BY DEF Inv, Types, Sound, MoreTypes, TypeOK
<1> QED BY <1>1, AllInit, AllNext, PTL DEF Spec

\* First transmissions go out in the order of the writes, however the readers come
\* and go while the event loop holds a batch, for either reliability kind.
THEOREM InOrder == Spec => SentInOrder
<1> DEFINE Sends == \A n \in SeqNum : SendData(n) => \A r \in work.data[n] : \A m \in sent[r] : m <= n
<1>1. Inv /\ MoreTypes /\ Flow => Sends
  <2> SUFFICES ASSUME Inv, MoreTypes, Flow, NEW n \in SeqNum, SendData(n),
                      NEW r \in work.data[n], NEW m \in sent[r]
               PROVE  m <= n
    OBVIOUS
  <2>1. Sending /\ r \in Readers
    BY FlowFacts DEF SendData, Sending
  <2>2. m < n /\ m \in SeqNum
    BY <2>1, FlowFacts DEF Flow, Order
  <2> QED BY <2>2, FlowFacts
<1>2. Inv /\ MoreTypes /\ Flow /\ [Next]_vars => [Sends]_vars
  BY <1>1
<1> QED BY <1>2, AllInit, AllNext, PTL DEF Spec, SentInOrder

\* A HEARTBEAT of a reliable writer announces every processed sample that a matched
\* reader still needs, although the lock is released between the removal of what is
\* acknowledged and the reading of the range.
THEOREM HeartbeatCovers ==
  ASSUME WriterQos.is_reliable PROVE Spec => HeartbeatCoversUnacked
<1> DEFINE Covers == \A r \in matched : \A n \in needs[r] \ hc.unprocessed_seqnum :
                       HeartbeatFirst(hc) <= n /\ n <= HeartbeatLast(hc)
<1>1. Inv /\ MoreTypes /\ Flow => Covers
  <2> SUFFICES ASSUME Inv, MoreTypes, Flow,
                      NEW r \in matched, NEW n \in needs[r] \ hc.unprocessed_seqnum
               PROVE  HeartbeatFirst(hc) <= n /\ n <= HeartbeatLast(hc)
    OBVIOUS
  <2>1. n \in Announced(hc)
    <3>1. Key(n) \in hc.changes /\ Key(n).seq_num = n
      BY DEF Inv, UnackedIsCached, Key
    <3> QED BY <3>1 DEF Announced
  <2>2. Announced(hc) \in SUBSET Nat /\ \A m \in Announced(hc) : m <= last
    <3>1. Announced(hc) \subseteq SeqNum
      BY FlowFacts DEF IsCache, HCKey, Announced
    <3>2. \A m \in Announced(hc) : m <= Written
      BY DEF Flow, Numbers, Announced
    <3>3. Written <= last
      BY FlowFacts DEF Written
    <3> QED BY <3>1, <3>2, <3>3, FlowFacts, SeqNumAssumption
  <2>3. HeartbeatFirst(hc) <= n
    BY <2>1, <2>2, MinRight DEF HeartbeatFirst, SeqNumMin
  <2>4. n <= HeartbeatLast(hc)
    BY <2>1, <2>2, FlowFacts, MaxRight DEF HeartbeatLast, SeqNumMax
  <2> QED BY <2>3, <2>4
<1>2. Inv /\ MoreTypes /\ Flow /\ [Next]_vars => [HeartbeatSend /\ CanAnnounce(hc) => Covers]_vars
  BY <1>1
<1> QED BY <1>2, AllInit, AllNext, PTL DEF Spec, HeartbeatCoversUnacked

-----------------------------------------------------------------------------
(* No panic. *)

\* A Writer that never evicts a sample to make room for another.
NeverEvicts == WriterQos.is_reliable \/ WriterQos.max_samples = LENGTH_UNLIMITED

\* Nothing is to be sent at first.
LEMMA HeldInit == Init => Held
<1> SUFFICES ASSUME Init PROVE Held
  OBVIOUS
<1>1. pc = "poll" /\ matched \subseteq Readers /\ \A r \in Readers : rp[r] = EmptyReaderProxy
  BY DEF Init
<1>2. UnsentChanges(EmptyReaderProxy) = {}
  BY DEF UnsentChanges, EmptyReaderProxy, NoChangeForReader
<1> QED BY <1>1, <1>2 DEF Held, Sending

\* Every step keeps what is to be sent in the cache.
LEMMA HeldNext ==
  ASSUME NeverEvicts, Inv, MoreTypes, Flow, Held, [Next]_vars PROVE Held'
<1>0. /\ matched \subseteq Readers /\ rp \in [Readers -> ReaderProxy] /\ IsCache(hc) /\ Sound(hc)
      /\ work.data \in [SeqNum -> SUBSET Readers]
  BY FlowFacts
<1>1. ASSUME UNCHANGED <<matched, rp, pc, work>>, hc.changes \subseteq hc'.changes PROVE Held'
  BY <1>1 DEF Held, Sending
<1>2. ASSUME UNCHANGED <<hc, matched, rp>>, ~Sending, ~Sending' PROVE Held'
  BY <1>2 DEF Held
<1>3. CASE AddChangeToCache
  <2>1. UNCHANGED <<matched, rp, pc, work>>
    BY <1>3 DEF AddChangeToCache, loopVars
  <2>2. Key(last) \in HCKey
    BY <1>3, WriterGuidAssumption DEF AddChangeToCache, Inv, Types, Key, HCKey
  <2>3. hc' = hc \/ hc' = AddChange(hc, Key(last), WriterQos)
    BY <1>3 DEF AddChangeToCache
  <2>4. hc.changes \subseteq hc'.changes
    BY <1>0, <2>2, <2>3, AddFields, WriterQosAssumption DEF NeverEvicts
  <2> QED BY <1>1, <2>1, <2>4
<1>4. CASE StartWrite \/ WakeAndRetry \/ SendWriteData \/ SendAssertLiveliness
  BY <1>1, <1>4 DEF StartWrite, WakeAndRetry, SendWriteData, SendAssertLiveliness, loopVars
<1>5. CASE \/ RecvCmd \/ ChannelEmpty \/ AckedScan \/ HeartbeatTimer \/ HeartbeatBase \/ HeartbeatSend
  <2>1. UNCHANGED <<hc, matched, rp>>
    BY <1>5 DEF RecvCmd, ChannelEmpty, AckedScan, HeartbeatTimer, HeartbeatBase, HeartbeatSend
  <2>2. ~Sending /\ ~Sending'
    BY <1>5 DEF RecvCmd, ChannelEmpty, AckedScan, HeartbeatTimer, HeartbeatBase, HeartbeatSend,
       Sending
  <2> QED BY <1>2, <2>1, <2>2
<1>6. CASE GetUnprocessedStep
  <2> DEFINE S == hc.unprocessed_seqnum
  <2>1. /\ rp' = RegisterUnsent(rp, matched, S) /\ matched' = matched
        /\ hc'.changes = hc.changes
    BY <1>0, <1>6 DEF GetUnprocessedStep, GetUnprocessed, IsCache
  <2>2. ~Sending /\ ~Sending'
    <3>1. WriterQos.is_reliable \in BOOLEAN
      BY WriterQosAssumption DEF Qos
    <3>2. pc' \in {"drain", "acked_scan", "collect"}
      BY <1>6, <3>1, Zenon DEF GetUnprocessedStep
    <3> QED BY <1>6, <3>2 DEF GetUnprocessedStep, Sending
  <2>3. ASSUME NEW r \in matched, NEW n \in UnsentChanges(rp'[r]) PROVE Key(n) \in hc.changes
    <3>1. n \in SeqNum /\ (n \notin S => rp'[r][n] = rp[r][n])
      BY <1>0, <2>1, RegisterType DEF UnsentChanges
    <3>2. CASE n \in S
      <4>1. PICK k \in hc.changes : k.seq_num = n
        BY <1>0, <3>2 DEF Sound, UnprocessedHeld
      <4>2. k \in HCKey /\ k.guid = WriterGuid
        BY <1>0 DEF IsCache, Inv, OwnChanges
      <4> QED BY <4>1, <4>2 DEF Key, HCKey
    <3>3. CASE n \notin S
      BY <2>2, <3>1, <3>3 DEF Held, UnsentChanges
    <3> QED BY <3>2, <3>3
  <2> QED BY <2>1, <2>2, <2>3 DEF Held
<1>7. CASE AckedRemove
  <2>0. /\ matched' = matched /\ pc = "acked_remove" /\ ret \notin {"send_data", "drop_sent"}
    BY <1>7 DEF AckedRemove, MoreTypes
  <2>1. CASE pc' = ret /\ UNCHANGED <<hc, rp, work>>
    BY <1>2, <2>0, <2>1 DEF Sending
  <2>2. ASSUME NEW k \in work.remove, hc' = RemoveChange(hc, k, FALSE),
               rp' = ForgetStates(rp, matched, {k.seq_num}), pc' = pc
        PROVE  Held'
    <3>1. ~Sending /\ ~Sending'
      BY <2>0, <2>2 DEF Sending
    <3>2. ASSUME NEW r \in matched, NEW n \in UnsentChanges(rp'[r]) PROVE Key(n) \in hc'.changes
      <4>1. n # k.seq_num /\ n \in UnsentChanges(rp[r])
        BY <1>0, <2>2, ForgetType DEF UnsentChanges, NoChangeForReader
      <4>2. Key(n) \in hc.changes /\ Key(n) # k
        BY <3>1, <4>1 DEF Held, Key
      <4> QED BY <1>0, <2>2, <4>2, RemoveFields DEF RemoveChange
    <3> QED BY <2>0, <3>1, <3>2 DEF Held
  <2> QED BY <1>7, <2>1, <2>2 DEF AckedRemove
<1>8. CASE Collect
  <2>1. Sending' /\ ~Sending /\ pc' = "send_data" /\ hc' = hc
    BY <1>8, CollectFacts DEF Sending
  <2>2. ASSUME NEW n \in ToSend(work'.data) PROVE Key(n) \in hc.changes
    <3>1. PICK r : r \in work'.data[n] /\ n \in SeqNum
      BY DEF ToSend
    <3>2. r \in matched /\ n \in UnsentChanges(rp[r])
      BY <1>8, <3>1, CollectFacts
    <3> QED BY <2>1, <3>2 DEF Held
  <2> QED BY <2>1, <2>2 DEF Held
<1>9. ASSUME NEW n \in SeqNum, SendData(n) PROVE Held'
  <2>1. /\ hc' = hc /\ Sending /\ Sending'
        /\ work'.data[n] = {} /\ \A m \in SeqNum : m # n => work'.data[m] = work.data[m]
        /\ pc' = "drop_sent" => work'.drop = n
    BY <1>9 DEF SendData, MoreTypes, Sending
  <2>2. ToSend(work'.data) \subseteq ToSend(work.data) \ {n}
    BY <2>1 DEF ToSend
  <2> QED BY <2>1, <2>2 DEF Held
<1>10. CASE DropSent
  <2>1. /\ hc' = RemoveChanges(hc, {Key(work.drop)}, FALSE) /\ Sending /\ Sending'
        /\ work'.data = work.data /\ pc = "drop_sent" /\ pc' = "send_data"
    BY <1>10 DEF DropSent, RemoveChange, MoreTypes, Sending
  <2>2. ASSUME NEW n \in ToSend(work.data) PROVE Key(n) \in hc'.changes
    <3>1. Key(n) \in hc.changes /\ Key(n) # Key(work.drop)
      BY <2>1 DEF Held, Key
    <3> QED BY <1>0, <2>1, <3>1, RemoveFields
  <2> QED BY <2>1, <2>2 DEF Held
<1>11. ASSUME NEW n \in SeqNum, SendGap(n) PROVE Held'
  <2>1. work'.data = work.data /\ ToSend(work.data) = {} /\ Sending /\ Sending'
    BY <1>11 DEF SendGap, MoreTypes, Sending
  <2> QED BY <2>1 DEF Held
<1>12. CASE WriteDataDone
  <2>1. Sending /\ ~Sending' /\ UNCHANGED <<matched, rp>>
    BY <1>12 DEF WriteDataDone, Sending
  <2>2. \A r \in matched : UnsentChanges(rp[r]) = {}
    BY <2>1 DEF Flow, Order
  <2> QED BY <2>1, <2>2 DEF Held
<1>13. ASSUME NEW r \in Readers, NEW base, HandleAck(r, base) PROVE Held'
  <2>1. /\ UNCHANGED <<hc, matched>> /\ ~Sending /\ ~Sending'
        /\ rp' = [rp EXCEPT ![r] = AckedChangesSet(rp[r], base - 1)]
    BY <1>13 DEF HandleAck, Sending
  <2>2. \A q \in matched : UnsentChanges(rp'[q]) \subseteq UnsentChanges(rp[q])
    <3> DEFINE T == {n \in Entries(rp[r]) : n <= base - 1}
    <3>1. rp'[r] = WithStatus(rp[r], T, "Acknowledged") /\ rp[r] \in ReaderProxy
      BY <1>0, <2>1 DEF AckedChangesSet
    <3> HIDE DEF T
    <3>2. UnsentChanges(rp'[r]) = UnsentChanges(rp[r]) \ T
      BY <3>1, WithStatusUnsent DEF ChangeForReaderStatusKind
    <3>3. \A q \in matched : q # r => rp'[q] = rp[q]
      BY <1>0, <2>1
    <3> QED BY <3>2, <3>3
  <2> QED BY <2>1, <2>2 DEF Held
<1>14. ASSUME NEW r \in Readers, NEW d, MatchReader(r, d) PROVE Held'
  <2>1. /\ hc' = hc /\ ~Sending /\ ~Sending' /\ matched' = matched \cup {r}
        /\ rp' = [rp EXCEPT ![r] = ProxyOf(hc, d)]
    BY <1>14 DEF MatchReader, Sending
  <2>2. ASSUME NEW n \in UnsentChanges(rp'[r]) PROVE Key(n) \in hc.changes
    <3>1. rp'[r] = ProxyOf(hc, d)
      BY <1>0, <2>1
    <3>2. n \in {k.seq_num : k \in hc.changes}
      BY <3>1, ProxyOfType DEF UnsentChanges, NoChangeForReader
    <3>3. PICK k \in hc.changes : k.seq_num = n
      BY <3>2
    <3>4. k \in HCKey /\ k.guid = WriterGuid
      BY <1>0 DEF IsCache, Inv, OwnChanges
    <3> QED BY <3>3, <3>4 DEF Key, HCKey
  <2>3. \A q \in matched : q # r => rp'[q] = rp[q]
    BY <1>0, <2>1
  <2> QED BY <2>1, <2>2, <2>3 DEF Held
<1>15. ASSUME NEW r \in Readers, UnmatchReader(r) PROVE Held'
  <2>1. /\ hc' = hc /\ ~Sending /\ ~Sending' /\ matched' = matched \ {r}
        /\ rp' = [rp EXCEPT ![r] = EmptyReaderProxy]
    BY <1>15 DEF UnmatchReader, Sending
  <2>2. \A q \in matched' : rp'[q] = rp[q] /\ q \in matched
    BY <1>0, <2>1
  <2> QED BY <2>1, <2>2 DEF Held
<1>16. CASE UNCHANGED vars
  BY <1>1, <1>16 DEF vars
<1> QED BY <1>3, <1>4, <1>5, <1>6, <1>7, <1>8, <1>9, <1>10, <1>11, <1>12, <1>13, <1>14, <1>15, <1>16
        DEF Next, DataWriterStep, HandlerStep, Acknowledge

\* Neither the unreachable! of handle_write_data_cmd nor the index panic of
\* add_change is reached by a Writer that is reliable or has no limit: between the
\* Collect of a sample and its transmission nobody takes it out of the cache.
THEOREM NeverPanics == ASSUME NeverEvicts PROVE Spec => []NoPanic
<1>1. Init => NoPanic
  BY DEF Init, NoPanic
<1>2. Inv /\ MoreTypes /\ Flow /\ Held /\ NoPanic /\ [Next]_vars => NoPanic'
  <2> SUFFICES ASSUME Inv, MoreTypes, Flow, Held, NoPanic, [Next]_vars PROVE ~panicked'
    BY DEF NoPanic
  <2>1. CASE AddChangeToCache
    <3>1. AddChangeResult(hc, Key(last), WriterQos) # "Panic"
      <4>1. ~WriterQos.is_reliable => ~AtLimit(hc, WriterQos)
        BY DEF NeverEvicts, AtLimit
      <4>2. WriterQos.is_reliable \in BOOLEAN
        BY WriterQosAssumption DEF Qos
      <4> QED BY <4>1, <4>2, Zenon DEF AddChangeResult
    <3> QED BY <2>1, <3>1 DEF AddChangeToCache
  <2>2. ASSUME NEW n \in SeqNum, SendData(n) PROVE ~panicked'
    BY <2>2 DEF SendData, Held, Sending
  <2>3. CASE UNCHANGED panicked
    BY <2>3 DEF NoPanic
  <2> QED BY <2>1, <2>2, <2>3 DEF Next, DataWriterStep, HandlerStep, Acknowledge, StartWrite,
      WakeAndRetry, SendWriteData, SendAssertLiveliness, RecvCmd, ChannelEmpty,
      GetUnprocessedStep, AckedScan, AckedRemove, Collect, DropSent, SendGap, WriteDataDone,
      HeartbeatTimer, HeartbeatBase, HeartbeatSend, HandleAck, MatchReader, UnmatchReader, vars
<1>3. Inv /\ MoreTypes /\ Flow /\ Held /\ [Next]_vars => Held'
  BY HeldNext
<1> QED BY <1>1, <1>2, <1>3, HeldInit, AllInit, AllNext, PTL DEF Spec

-----------------------------------------------------------------------------
(* The refinement of ReliableStore. *)

\* What the refinement needs beyond Inv: numbers are numbers, and a reader that is
\* not matched needs nothing.
StoreAux == /\ last \in Nat
            /\ \A r \in Readers \ matched : needs[r] = {}

\* The auxiliary facts of the refinement hold at first.
LEMMA StoreAuxInit == Init => StoreAux
  BY DEF Init, StoreAux

\* Every step keeps the auxiliary facts of the refinement.
LEMMA StoreAuxNext == Inv /\ StoreAux /\ [Next]_vars => StoreAux'
<1> SUFFICES ASSUME Inv, StoreAux, [Next]_vars PROVE StoreAux'
  OBVIOUS
<1>0. needs \in [Readers -> SUBSET SeqNum] /\ matched \subseteq Readers
  BY DEF Inv, Types
<1>1. CASE UNCHANGED <<last, matched, needs>>
  BY <1>1 DEF StoreAux
<1>2. CASE StartWrite
  BY <1>2 DEF StartWrite, loopVars, StoreAux
<1>3. CASE GetUnprocessedStep
  BY <1>0, <1>3 DEF GetUnprocessedStep, appVars, StoreAux
<1>4. ASSUME NEW r \in Readers, NEW base, HandleAck(r, base) PROVE StoreAux'
  BY <1>0, <1>4 DEF HandleAck, appVars, StoreAux
<1>5. ASSUME NEW r \in Readers, NEW d, MatchReader(r, d) PROVE StoreAux'
  BY <1>0, <1>5 DEF MatchReader, appVars, StoreAux
<1>6. ASSUME NEW r \in Readers, UnmatchReader(r) PROVE StoreAux'
  BY <1>0, <1>6 DEF UnmatchReader, appVars, StoreAux
<1>7. CASE \/ AddChangeToCache \/ WakeAndRetry \/ SendWriteData
           \/ SendAssertLiveliness \/ RecvCmd \/ HeartbeatTimer
  BY <1>1, <1>7 DEF AddChangeToCache, WakeAndRetry, SendWriteData, SendAssertLiveliness,
     RecvCmd, HeartbeatTimer, loopVars, appVars
<1>8. CASE HandlerStep
  <2>1. ASSUME NEW n \in SeqNum, SendData(n) \/ SendGap(n) PROVE StoreAux'
    BY <1>1, <2>1 DEF SendData, SendGap, appVars
  <2>2. CASE \/ ChannelEmpty \/ AckedScan \/ AckedRemove \/ Collect \/ DropSent
             \/ WriteDataDone \/ HeartbeatBase \/ HeartbeatSend
    BY <1>1, <2>2 DEF ChannelEmpty, AckedScan, AckedRemove, Collect, DropSent,
       WriteDataDone, HeartbeatBase, HeartbeatSend, appVars
  <2> QED BY <1>3, <1>8, <2>1, <2>2 DEF HandlerStep
<1>9. CASE UNCHANGED vars
  BY <1>1, <1>9 DEF vars
<1> QED BY <1>2, <1>4, <1>5, <1>6, <1>7, <1>8, <1>9 DEF Next, DataWriterStep, Acknowledge

\* Steps that leave the cache, the needs and the write under way alone stutter.
LEMMA StoreStutter ==
  ASSUME UNCHANGED <<hc, last, app, needs>> PROVE UNCHANGED Store!vars
  BY DEF Store!vars

\* Every step of a reliable writer is a step of the store or none.
LEMMA StoreNext ==
  ASSUME WriterQos.is_reliable, Inv, StoreAux, [Next]_vars
  PROVE  [Store!Next]_(Store!vars)
<1>0. /\ needs \in [Readers -> SUBSET SeqNum] /\ matched \subseteq Readers
      /\ Sound(hc) /\ IsCache(hc) /\ last \in Nat
      /\ hc.changes \subseteq HCKey /\ hc.unprocessed_seqnum \subseteq SeqNum
  BY DEF Inv, Types, Sound, IsCache, StoreAux
<1>1. CASE StartWrite
  BY <1>0, <1>1 DEF StartWrite, loopVars, Store!vars
<1>2. CASE AddChangeToCache
  <2>1. UNCHANGED <<last, needs>> /\ app = "add" /\ last \in SeqNum
    BY <1>2 DEF AddChangeToCache, loopVars, Inv, Types
  <2>2. CASE AddChangeResult(hc, Key(last), WriterQos) = "Ok"
    <3>1. Key(last) \in HCKey /\ Key(last).seq_num = last
      BY <2>1, WriterGuidAssumption DEF Key, HCKey
    <3>2. hc' = AddChange(hc, Key(last), WriterQos) /\ app' = "send"
      BY <1>2, <2>2 DEF AddChangeToCache
    <3>3. /\ hc'.changes = hc.changes \cup {Key(last)}
          /\ hc'.unprocessed_seqnum = hc.unprocessed_seqnum \cup {last}
      BY <1>0, <2>2, <3>1, <3>2, AddAccepts, WriterQosAssumption
    <3>4. {k.seq_num : k \in hc'.changes} = {k.seq_num : k \in hc.changes} \cup {last}
      BY <3>1, <3>3
    <3>5. last - 1 + 1 = last
      BY <1>0
    <3>6. Store!Accept
      BY <2>1, <3>2, <3>3, <3>4, <3>5 DEF Store!Accept
    <3> QED BY <3>6 DEF Store!Next
  <2>3. CASE AddChangeResult(hc, Key(last), WriterQos) # "Ok"
    <3>1. hc' = hc /\ app' \in {"add", "sleep"}
      <4>1. AddChangeResult(hc, Key(last), WriterQos) \in {"Ok", "WouldBlock", "Panic"}
        BY <1>0, WriterQosAssumption, Zenon DEF AddChangeResult, Qos
      <4> QED BY <1>2, <2>3, <4>1 DEF AddChangeToCache
    <3> QED BY <2>1, <3>1 DEF Store!vars
  <2> QED BY <2>2, <2>3
<1>3. CASE WakeAndRetry
  BY <1>3 DEF WakeAndRetry, loopVars, Store!vars
<1>4. CASE SendWriteData
  BY <1>4 DEF SendWriteData, loopVars, Store!vars
<1>5. CASE GetUnprocessedStep
  <2>1. /\ hc'.changes = hc.changes /\ hc'.unprocessed_seqnum = {}
        /\ UNCHANGED <<last, app>>
    BY <1>0, <1>5 DEF GetUnprocessedStep, GetUnprocessed, IsCache, appVars
  <2>2. needs' = [r \in Readers |->
                    IF r \in matched
                    THEN (needs[r] \ hc.unprocessed_seqnum)
                           \cup {n \in hc.unprocessed_seqnum : IsRelevant(n, hc.unprocessed_seqnum)}
                    ELSE needs[r]]
    BY <1>5 DEF GetUnprocessedStep
  <2>3. Store!Assign
    BY <2>1, <2>2 DEF Store!Assign
  <2> QED BY <2>3 DEF Store!Next
<1>6. CASE AckedRemove
  <2>1. UNCHANGED <<last, app, matched, needs>> /\ pc = "acked_remove"
    BY <1>6 DEF AckedRemove, appVars
  <2>2. CASE hc' = hc
    BY <2>1, <2>2, StoreStutter
  <2>3. ASSUME NEW k \in work.remove, hc' = RemoveChange(hc, k, FALSE)
        PROVE  [Store!Next]_(Store!vars)
    <3>1. k \in HCKey /\ \A r \in matched : IsAcked(rp[r], k.seq_num)
      BY <2>1, <2>3 DEF Inv, ScanAgrees
    <3>2. \A r \in Readers : k.seq_num \notin needs[r]
      BY <3>1 DEF Inv, Needs, StoreAux, HCKey
    <3>3. /\ hc'.unprocessed_seqnum = hc.unprocessed_seqnum
          /\ hc'.changes = IF k.seq_num \in hc.unprocessed_seqnum THEN hc.changes
                                                                 ELSE hc.changes \ {k}
      BY <1>0, <2>3 DEF RemoveChange, RemoveChanges, IsCache
    <3>4. CASE k \in hc.changes /\ k.seq_num \notin hc.unprocessed_seqnum
      <4>1. \A j \in hc.changes : j.seq_num = k.seq_num => j = k
        BY <1>0, <3>1, <3>4 DEF Inv, OwnChanges, HCKey
      <4>2. {j.seq_num : j \in hc'.changes} = {j.seq_num : j \in hc.changes} \ {k.seq_num}
        BY <3>3, <3>4, <4>1
      <4>3. Store!Drop(k.seq_num)
        BY <2>1, <3>2, <3>3, <3>4, <4>2 DEF Store!Drop
      <4> QED BY <3>4, <4>3 DEF Store!Next
    <3>5. CASE ~(k \in hc.changes /\ k.seq_num \notin hc.unprocessed_seqnum)
      <4>1. hc'.changes = hc.changes
        BY <3>3, <3>5
      <4> QED BY <2>1, <3>3, <4>1 DEF Store!vars
    <3> QED BY <3>4, <3>5
  <2> QED BY <1>6, <2>2, <2>3 DEF AckedRemove
<1>7. ASSUME NEW r \in Readers, NEW base, HandleAck(r, base) PROVE [Store!Next]_(Store!vars)
  <2>1. /\ UNCHANGED <<hc, last, app>>
        /\ needs' = [needs EXCEPT ![r] = {n \in needs[r] : n >= base}]
    BY <1>7 DEF HandleAck, appVars
  <2>2. Store!Settle(r, {n \in needs[r] : n >= base})
    BY <2>1 DEF Store!Settle
  <2> QED BY <2>2 DEF Store!Next
<1>8. ASSUME NEW r \in Readers, NEW d, MatchReader(r, d) PROVE [Store!Next]_(Store!vars)
  <2> DEFINE S == {n \in SeqNum : ProxyOf(hc, d)[n].is_relevant}
  <2>1. UNCHANGED <<hc, last, app>> /\ needs' = [needs EXCEPT ![r] = S]
    BY <1>8 DEF MatchReader, appVars, Inv, Types
  <2>2. S \subseteq {k.seq_num : k \in hc.changes}
    BY ProxyOfType DEF NoChangeForReader
  <2>3. Store!Join(r, S)
    BY <2>1, <2>2 DEF Store!Join
  <2> QED BY <2>2, <2>3 DEF Store!Next
<1>9. ASSUME NEW r \in Readers, UnmatchReader(r) PROVE [Store!Next]_(Store!vars)
  <2>1. UNCHANGED <<hc, last, app>> /\ needs' = [needs EXCEPT ![r] = {}]
    BY <1>9 DEF UnmatchReader, appVars
  <2>2. Store!Settle(r, {})
    BY <2>1 DEF Store!Settle
  <2> QED BY <2>2 DEF Store!Next
<1>10. ASSUME NEW n \in SeqNum, SendData(n) \/ SendGap(n) PROVE UNCHANGED Store!vars
  BY <1>10, StoreStutter DEF SendData, SendGap, appVars
<1>11. CASE DropSent
  BY <1>11 DEF DropSent, Inv, Types
<1>12. CASE \/ SendAssertLiveliness \/ RecvCmd \/ HeartbeatTimer \/ ChannelEmpty
            \/ AckedScan \/ Collect \/ WriteDataDone \/ HeartbeatBase \/ HeartbeatSend
  BY <1>12, StoreStutter DEF SendAssertLiveliness, RecvCmd, HeartbeatTimer, ChannelEmpty,
     AckedScan, Collect, WriteDataDone, HeartbeatBase, HeartbeatSend, loopVars, appVars
<1>13. CASE UNCHANGED vars
  BY <1>13, StoreStutter DEF vars
<1> QED
  BY <1>1, <1>2, <1>3, <1>4, <1>5, <1>6, <1>7, <1>8, <1>9, <1>10, <1>11, <1>12, <1>13
  DEF Next, DataWriterStep, HandlerStep, Acknowledge

\* A reliable writer implements the store: in spite of the locks released inside
\* its handlers, samples are accepted one by one and given up only when they are
\* processed and needed by nobody, for any readers, QoS and channel capacity.
THEOREM StoreImplemented ==
  ASSUME WriterQos.is_reliable PROVE Spec => ImplementsStore
<1>1. Init => Store!Init
  BY DEF Init, Store!Init, EmptyCache
<1>2. Inv /\ StoreAux /\ [Next]_vars => [Store!Next]_(Store!vars)
  BY StoreNext
<1> QED BY <1>1, <1>2, InitInv, NextInv, StoreAuxInit, StoreAuxNext, PTL
        DEF Spec, ImplementsStore, Store!Spec
=============================================================================
