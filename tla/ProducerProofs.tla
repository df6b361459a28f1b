-------------------------- MODULE ProducerProofs ----------------------------
(***************************************************************************)
(* For any number of messages, senders, permits and faults: the handler of *)
(* a message is called at most once and permits are conserved; what is     *)
(* sent is in order and complete, and what is confirmed is stored; a lost  *)
(* client is being replaced; and stop() leaves nothing unreported.         *)
(***************************************************************************)
EXTENDS ProducerStateProofs, ProducerPublishProofs, FiniteSetTheorems

USE DEF sendVars, semVars, accVars, netVars, sessVars, timerVars, cbVars, brokerVars

-----------------------------------------------------------------------------
(* stop()                                                                  *)

\* The accumulator holds a message once, and an accepted message is somewhere,
\* or has been reported, as long as no two share an id.
PendingOnce == \A i, j \in DOMAIN pending : pending[i] = pending[j] => i = j
Accounted   == DistinctIds => \A m \in Accepted : m \in Placed \/ calls[m] = 1

\* Nothing comes back after fail_all_unconfirmed.
StopEmpty == Stopped => pending = <<>> /\ unconfirmed = {}

\* With ids of their own, publish_batch enters all the messages of a batch.
LEMMA AllEmplaced ==
    ASSUME IInv, NewInv, PendingOnce, DistinctIds PROVE Emplaced(pending) = Elements(pending)
<1>1. Emplaced(pending) \subseteq Elements(pending)
  BY EmplacedFacts, Zenon
<1>2. ASSUME NEW i \in DOMAIN pending PROVE pending[i] \in Emplaced(pending)
  <2>1. DOMAIN pending = 1 .. Len(pending) /\ Len(pending) \in Nat
    BY SequenceTypes, Zenon DEF IInv, TypeOK
  <2>2. pending[i] \in Msgs /\ pending[i] \in Elements(pending)
    BY PlaceTypes, Zenon DEF IInv, Elements
  <2>3. id[pending[i]] # NoId
    BY <2>2, Zenon DEF IInv, PlacedIsAccepted, Placed, NewInv
  <2>4. \A u \in unconfirmed : id[u] # id[pending[i]]
    BY <2>2, <2>3, PlaceTypes, ZenonT(30) DEF IInv, OnePlace, DistinctIds
  <2>5. \A j \in 1 .. i - 1 : j \in DOMAIN pending /\ j # i
    BY <2>1, SMTT(30)
  <2>6. \A j \in 1 .. i - 1 : pending[j] \in Msgs /\ pending[j] # pending[i]
    BY <2>5, PlaceTypes, Zenon DEF IInv, Elements, PendingOnce
  <2>7. \A j \in 1 .. i - 1 : id[pending[j]] # id[pending[i]]
    BY <2>2, <2>3, <2>6, Zenon DEF DistinctIds
  <2> QED
    BY <2>4, <2>7, Zenon DEF Emplaced
<1> QED
  BY <1>1, <1>2, Zenon DEF Elements

\* Steps that take no message out of the places it may be in.
LEMMA AccountedKept ==
    ASSUME IInv, NewInv, Accounted,
           \A n \in Msgs : id'[n] = id[n] \/ pc[n] = "new",
           DistinctIds => \A m \in Accepted' : m \in Accepted \/ m \in Placed',
           DistinctIds => \A m \in Placed : m \in Placed' \/ calls'[m] = 1,
           \A m \in Msgs : calls[m] = 1 => calls'[m] = 1
    PROVE  Accounted'
<1> SUFFICES ASSUME DistinctIds' PROVE \A m \in Accepted' : m \in Placed' \/ calls'[m] = 1
  BY Zenon DEF Accounted
<1>1. DistinctIds
  <2> SUFFICES ASSUME NEW m \in Msgs, NEW n \in Msgs, m # n, id[m] = id[n] PROVE id[m] = NoId
    BY Zenon DEF DistinctIds
  <2>1. CASE pc[m] = "new" \/ pc[n] = "new"
    BY <2>1, Zenon DEF NewInv
  <2>2. CASE id'[m] = id[m] /\ id'[n] = id[n]
    BY <2>2, Zenon DEF DistinctIds
  <2> QED
    BY <2>1, <2>2, Zenon
<1> QED
  BY <1>1, Zenon DEF Accounted, Accepted

\* The invariant of stop().
StopInv == PendingOnce /\ Accounted /\ StopEmpty

\* Steps that leave the messages where they are.
LEMMA QuietStop ==
    ASSUME IInv, NewInv, StopInv, UNCHANGED <<pending, unconfirmed, frame, timed_out, calls>>,
           \A n \in Msgs : id'[n] = id[n] \/ pc[n] = "new", Accepted' = Accepted, Stopped' => Stopped
    PROVE  StopInv'
<1>1. Placed' = Placed
  BY Zenon DEF Placed, Elements, InFrame
<1>2. Accounted'
  BY <1>1, AccountedKept, Zenon DEF StopInv
<1> QED
  BY <1>2, Zenon DEF StopInv, PendingOnce, StopEmpty

\* send() adds a message only before the accumulator is destroyed.
LEMMA SendStop ==
    ASSUME IInv, TypeOK', NewInv, StopInv, ControlInv, NEW m \in Msgs, Add(m)
    PROVE  StopInv'
<1>1. /\ pc[m] \in {"add", "wait"} /\ pending' = Append(pending, m) /\ pending \in Seq(Msgs) /\ ~acc_destroyed
      /\ \A n \in Msgs : n # m => pc'[n] = pc[n]
      /\ UNCHANGED <<status, stop, id, unconfirmed, frame, timed_out, calls>>
  <2>1. pc \in [Msgs -> SendStates] /\ pending \in Seq(Msgs)
    BY Zenon DEF IInv, TypeOK
  <2> QED
    BY <2>1, Zenon DEF Add
<1>2. Elements(pending)' = Elements(pending) \cup {m} /\ m \notin Elements(pending)
  <2>1. m \notin Elements(pending)
    BY <1>1, Zenon DEF IInv, PlacedIsAccepted, Placed
  <2> QED
    BY <1>1, <2>1, ElementsFacts, Zenon
<1>3. Placed' = Placed \cup {m}
  BY <1>1, <1>2, ZenonT(60) DEF Placed, InFrame
<1>4. Accounted'
  BY <1>1, <1>3, AccountedKept, Zenon DEF StopInv, Accepted
<1>5. PendingOnce'
  <2>1. /\ Len(pending) \in Nat /\ DOMAIN pending = 1 .. Len(pending) /\ DOMAIN pending' = 1 .. Len(pending) + 1
        /\ \A i \in 1 .. Len(pending) : pending'[i] = pending[i]
        /\ pending'[Len(pending) + 1] = m
    BY <1>1, SMTT(30)
  <2>2. \A i \in 1 .. Len(pending) : pending[i] # m
    BY <1>2, <2>1, Zenon DEF Elements
  <2>3. \A i, j \in 1 .. Len(pending) : pending[i] = pending[j] => i = j
    BY <2>1, Zenon DEF StopInv, PendingOnce
  <2> QED
    BY <2>1, <2>2, <2>3, SMTT(30) DEF PendingOnce
<1>6. StopEmpty'
  BY <1>1, Zenon DEF StopEmpty, Stopped, ControlInv, StopOver
<1> QED
  BY <1>4, <1>5, <1>6, Zenon DEF StopInv

\* publish_batch enters a batch into m_unconfirmed, of a started producer only.
LEMMA BatchStop ==
    ASSUME IInv, TypeOK', NewInv, StopInv, publish_batch,
           \A n \in Msgs : pc'[n] = pc[n] \/ (pc[n] = "publish" /\ pc'[n] = "sent")
    PROVE  StopInv'
<1>1. UNCHANGED <<status, stop, id, frame, timed_out, calls>> /\ Accepted' = Accepted
  <2>1. UNCHANGED <<status, stop, id, frame, timed_out, calls>>
    BY Zenon DEF publish_batch
  <2>2. \A n \in Msgs : n \in Accepted' <=> n \in Accepted
    BY Zenon DEF Accepted
  <2> QED
    BY <2>1, <2>2, Zenon DEF Accepted
<1>2. CASE status # "Started"
  <2>1. UNCHANGED <<pending, unconfirmed>>
    BY <1>2, Zenon DEF publish_batch
  <2> QED
    BY <1>1, <2>1, QuietStop, Zenon DEF Stopped
<1>3. CASE status = "Started"
  <2>1. pending' = <<>> /\ unconfirmed' = unconfirmed \cup Emplaced(pending)
    BY <1>3, Zenon DEF publish_batch
  <2>2. DistinctIds => Placed \subseteq Placed'
    BY <1>1, <2>1, AllEmplaced, Zenon DEF StopInv, Placed, InFrame
  <2>3. Accounted'
    BY <1>1, <2>2, AccountedKept, Zenon DEF StopInv
  <2>4. PendingOnce' /\ StopEmpty'
    BY <1>1, <1>3, <2>1, SMTT(30) DEF PendingOnce, StopEmpty, Stopped
  <2> QED
    BY <2>3, <2>4, Zenon DEF StopInv
<1> QED
  BY <1>2, <1>3, Zenon

\* The answers: a message goes from m_unconfirmed to the frame thread.
LEMMA AnswerStop ==
    ASSUME IInv, TypeOK', NewInv, StopInv, NEW s \in Sessions, ReadAnswer(s) \/ HandleAnswer(s) \/ CallHandler(s)
    PROVE  StopInv'
<1>1. UNCHANGED <<status, stop, id, pc, pending, timed_out>> /\ unconfirmed' \subseteq unconfirmed
  BY Zenon DEF ReadAnswer, HandleAnswer, CallHandler, Erased
<1>2. /\ Accepted' = Accepted /\ Elements(pending)' = Elements(pending) /\ PendingOnce'
      /\ (StopEmpty')
  BY <1>1, Zenon DEF Accepted, Elements, PendingOnce, StopInv, StopEmpty, Stopped
<1>3. \A r \in Sessions : r # s => frame'[r] = frame[r]
  BY Zenon DEF ReadAnswer, HandleAnswer, CallHandler, IInv, TypeOK
<1>4. \A m \in InFrame : m # frame[s].msg => m \in InFrame'
  BY <1>3, Zenon DEF InFrame
<1>5. CASE ReadAnswer(s)
  <2>1. frame[s].msg = NoMsg /\ UNCHANGED <<unconfirmed, calls>>
    <3>1. frame[s] = NoFrame /\ UNCHANGED <<unconfirmed, calls>>
      BY <1>5, Zenon DEF ReadAnswer
    <3> QED
      BY <3>1, SMTT(30) DEF NoFrame
  <2>2. Placed \subseteq Placed'
    BY <1>1, <1>2, <1>4, <2>1, Zenon DEF Placed, InFrame
  <2> QED
    BY <1>1, <1>2, <2>1, <2>2, AccountedKept, ZenonT(30) DEF StopInv
<1>6. CASE HandleAnswer(s)
  <2>1. frame[s].msg = NoMsg /\ UNCHANGED calls /\ Erased(frame[s].id)
    BY <1>6, Zenon DEF HandleAnswer
  <2>2. ASSUME NEW m \in unconfirmed PROVE m \in unconfirmed' \cup InFrame'
    <3>1. CASE id[m] # frame[s].id
      BY <2>1, <3>1, Zenon DEF Erased
    <3>2. CASE id[m] = frame[s].id
      <4>1. PICK n \in unconfirmed : id[n] = frame[s].id /\ frame' = [frame EXCEPT ![s].msg = n]
        BY <1>6, <3>2, Zenon DEF HandleAnswer
      <4>2. n = m
        BY <3>2, <4>1, Zenon DEF IInv, OneUnderAnId
      <4>3. frame'[s].msg = m
        <5>1. frame \in [Sessions -> [id : Ids, ok : BOOLEAN, msg : Msgs \cup {NoMsg}]]
          BY Zenon DEF IInv, TypeOK
        <5> QED
          BY <4>1, <4>2, <5>1, ZenonT(30)
      <4>4. m # NoMsg
        BY MsgsAssumption, PlaceTypes, Zenon DEF IInv
      <4> QED
        BY <4>3, <4>4, Zenon DEF InFrame
    <3> QED
      BY <3>1, <3>2, ZenonT(30)
  <2>3. Placed \subseteq Placed'
    BY <1>1, <1>2, <1>4, <2>1, <2>2, Zenon DEF Placed, InFrame
  <2> QED
    BY <1>1, <1>2, <2>1, <2>3, AccountedKept, ZenonT(60) DEF StopInv
<1>7. CASE CallHandler(s)
  <2>1. Call({frame[s].msg}, AnswerCode(frame[s].ok)) /\ frame[s].msg \in InFrame /\ UNCHANGED unconfirmed
    BY <1>7, Zenon DEF CallHandler, InFrame
  <2>2. \A m \in Msgs : calls'[m] = IF m \in {frame[s].msg} THEN 1 ELSE calls[m]
    BY <2>1, CallsOnce, Zenon DEF Placed
  <2>3. \A m \in Placed : m \in Placed' \/ calls'[m] = 1
    BY <1>1, <1>2, <1>4, <2>1, <2>2, PlaceTypes, Zenon DEF Placed, IInv
  <2>4. \A m \in Msgs : calls[m] = 1 => calls'[m] = 1
    BY <2>2, Zenon
  <2> QED
    BY <1>1, <1>2, <2>3, <2>4, AccountedKept, Zenon DEF StopInv
<1> QED
  BY <1>5, <1>6, <1>7, Zenon
\* check_confirm_timeout: what it takes out of m_unconfirmed it reports.
LEMMA ConfirmStop ==
    ASSUME IInv, TypeOK', NewInv, StopInv, ConfirmScan \/ ConfirmCall
    PROVE  StopInv'
<1>1. UNCHANGED <<status, stop, id, pc, pending, frame>> /\ unconfirmed' \subseteq unconfirmed
  BY Zenon DEF ConfirmScan, ConfirmCall
<1>2. /\ Accepted' = Accepted /\ Elements(pending)' = Elements(pending) /\ InFrame' = InFrame /\ PendingOnce'
      /\ (StopEmpty')
  BY <1>1, Zenon DEF Accepted, Elements, InFrame, PendingOnce, StopInv, StopEmpty, Stopped
<1>3. CASE ConfirmScan
  <2>1. timed_out = {} /\ UNCHANGED calls /\ unconfirmed' = unconfirmed \ TimedOut /\ timed_out' = TimedOut
    BY <1>3, Zenon DEF ConfirmScan, Ready, IInv, TimedOutIsLocal
  <2>2. Placed \subseteq Placed'
    BY <1>2, <2>1, Zenon DEF Placed
  <2> QED
    BY <1>1, <1>2, <2>1, <2>2, AccountedKept, ZenonT(30) DEF StopInv
<1>4. CASE ConfirmCall
  <2>1. Call(timed_out, run["Confirm"]) /\ UNCHANGED unconfirmed
    BY <1>4, Zenon DEF ConfirmCall
  <2>2. \A m \in Msgs : calls'[m] = IF m \in timed_out THEN 1 ELSE calls[m]
    BY <2>1, CallsOnce, Zenon DEF Placed
  <2>3. \A m \in Placed : m \in Placed' \/ calls'[m] = 1
    BY <1>2, <2>1, <2>2, PlaceTypes, Zenon DEF Placed, IInv
  <2>4. \A m \in Msgs : calls[m] = 1 => calls'[m] = 1
    BY <2>2, Zenon
  <2> QED
    BY <1>1, <1>2, <2>3, <2>4, AccountedKept, ZenonT(60) DEF StopInv
<1> QED
  BY <1>3, <1>4, Zenon

\* fail_all_unconfirmed reports everything that is left.
LEMMA FailStop ==
    ASSUME IInv, TypeOK', NewInv, StopInv, NEW a \in Stoppers, StopFail(a)
    PROVE  StopInv'
<1>1. UNCHANGED <<id, pc, frame, timed_out>> /\ unconfirmed' = {} /\ pending' = <<>>
  BY Zenon DEF StopFail
<1>2. Accepted' = Accepted /\ InFrame' = InFrame
  BY <1>1, Zenon DEF Accepted, InFrame
<1>3. \E r : Call(Failed, r)
  BY Zenon DEF StopFail
<1>4. \A m \in Msgs : calls'[m] = IF m \in Failed THEN 1 ELSE calls[m]
  BY <1>3, CallsOnce, Zenon DEF Placed, Failed
<1>5. \A m \in Placed : m \in Placed' \/ calls'[m] = 1
  BY <1>1, <1>2, <1>4, PlaceTypes, ZenonT(30) DEF Placed, Failed, IInv
<1>6. \A m \in Msgs : calls[m] = 1 => calls'[m] = 1
  BY <1>4, Zenon
<1>7. Accounted'
  BY <1>1, <1>2, <1>5, <1>6, AccountedKept, Zenon DEF StopInv
<1> QED
  BY <1>1, <1>7, SMTT(30) DEF StopInv, PendingOnce, StopEmpty

\* Only fail_all_unconfirmed ends the first internal_stop.
LEMMA StoppedByFail ==
    ASSUME TypeOK, NEW a \in Stoppers, Stop(a), ~StopFail(a), Stopped'
    PROVE  Stopped
<1>1. stop \in [Stoppers -> StopStates]
  BY Zenon DEF TypeOK
<1>2. PICK v : stop' = [stop EXCEPT ![a] = v]
  BY Zenon DEF Stop, StopDestroys, StopExchange, StopAccumulator, StopSemaphore, StopClient
<1>3. stop'[a] \notin Closers /\ status' = "Stopped" /\ \A b \in Stoppers : stop'[b] \notin Closers
  BY Zenon DEF Stopped
<1>4. stop'[a] = v /\ \A b \in Stoppers : b # a => stop'[b] = stop[b]
  BY <1>1, <1>2, Zenon
<1>5. stop[a] \notin Closers /\ status = "Stopped"
  <2>1. CASE StopAccumulator(a) \/ StopSemaphore(a) \/ StopClient(a)
    <3>1. stop'[a] \in {"semaphore", "client", "fail"}
      BY <1>1, <2>1, Zenon DEF StopAccumulator, StopSemaphore, StopClient
    <3> QED
      BY <1>3, <3>1, Zenon DEF Closers
  <2>2. CASE StopDestroys(a)
    BY <1>3, <2>2, Zenon DEF StopDestroys, DestroyOrder, Closers
  <2>3. CASE StopExchange(a)
    <3>1. stop[a] = "Reconnect" /\ (status # "Stopped" => stop'[a] = "accumulator")
      BY <1>1, <2>3, Zenon DEF StopExchange
    <3> QED
      BY <1>3, <3>1, Zenon DEF Closers
  <2> QED
    BY <2>1, <2>2, <2>3, Zenon DEF Stop
<1> QED
  BY <1>3, <1>4, <1>5, Zenon DEF Stopped
\* Every step preserves the invariant.
LEMMA StepStop ==
    ASSUME IInv, TypeOK', NewInv, StopInv, ControlInv, [Next]_vars
    PROVE  StopInv'
<1> DEFINE Still == UNCHANGED <<pending, unconfirmed, frame, timed_out, calls>>
<1>1. pc \in [Msgs -> SendStates] /\ id \in [Msgs -> Ids] /\ stop \in [Stoppers -> StopStates]
  BY Zenon DEF IInv, TypeOK
<1>2. ASSUME Still, UNCHANGED <<id, pc>>, Stopped' => Stopped PROVE StopInv'
  <2>1. Accepted' = Accepted
    BY <1>2, Zenon DEF Accepted
  <2> QED
    BY <1>2, <2>1, QuietStop, Zenon
<1>3. ASSUME Still, UNCHANGED <<id, pc, status, stop>> PROVE StopInv'
  BY <1>2, <1>3, Zenon DEF Stopped
<1> HIDE DEF Still
<1>4. CASE Start
  <2>1. Still /\ UNCHANGED <<id, pc, stop>> /\ (status' = status \/ status' \in {"Starting", "Started"})
    BY <1>4, Zenon DEF Start, StartBegin, StartConnect, StartDeclare, StartFinish, Still
  <2>2. Stopped' => Stopped
    BY <2>1, Zenon DEF Stopped
  <2> QED
    BY <1>2, <2>1, <2>2, Zenon
<1>5. CASE flush \/ BatchTask \/ \E m \in Msgs : SendPublish(m)
  <2>1. publish_batch /\ \A n \in Msgs : pc'[n] = pc[n] \/ (pc[n] = "publish" /\ pc'[n] = "sent")
    BY <1>1, <1>5, Zenon DEF flush, BatchTask, SendPublish
  <2> QED
    BY <2>1, BatchStop, Zenon
<1>6. ASSUME NEW m \in Msgs, SendBegin(m) \/ Acquire(m) \/ AcquireFails(m) \/ AddFails(m) \/ AddWaits(m)
      PROVE  StopInv'
  <2>1. Still /\ UNCHANGED <<status, stop>> /\ pc[m] \in {"new", "acquire", "add", "wait"}
    BY <1>6, Zenon DEF SendBegin, Acquire, AcquireFails, AddFails, AddWaits, Still
  <2>2. pc'[m] \in {"acquire", "rejected", "add", "wait"} /\ \A n \in Msgs : n # m => pc'[n] = pc[n]
    BY <1>1, <1>6, ZenonT(30) DEF SendBegin, Acquire, AcquireFails, AddFails, AddWaits
  <2>3. \A n \in Msgs : id'[n] = id[n] \/ pc[n] = "new"
    BY <1>1, <1>6, Zenon DEF SendBegin, Acquire, AcquireFails, AddFails, AddWaits
  <2>4. Accepted' = Accepted
    <3>1. \A n \in Msgs : n \in Accepted' <=> n \in Accepted
      BY <2>1, <2>2, Zenon DEF Accepted
    <3> QED
      BY <3>1, Zenon DEF Accepted
  <2> QED
    BY <2>1, <2>3, <2>4, QuietStop, ZenonT(30) DEF Still, Stopped
<1>7. CASE \/ TimePasses \/ DelayedTask \/ ReconnectTask \/ \E t \in Tasks : TimerExpires(t)
  <2>1. CASE TimePasses \/ DelayedTask \/ \E t \in Tasks : TimerExpires(t)
    <3>1. Still /\ UNCHANGED <<id, pc, status, stop>>
      BY <2>1, ZenonT(60) DEF TimePasses, DelayedTask, DelayedBegin, DelayedEnd, TimerExpires, Still
    <3> QED
      BY <1>3, <3>1, ZenonT(30)
  <2>2. CASE ReconnectTask
    <3>1. Still /\ UNCHANGED <<id, pc, status, stop>>
      BY <2>2, Zenon DEF ReconnectTask, ReconnectBegin, ReconnectConnect, ReconnectRefused, ReconnectDeclare,
                   ReconnectUndeclared, ReconnectRetry, ReconnectInstall, ReconnectOverflow, Still
    <3> QED
      BY <1>3, <3>1, Zenon
  <2> QED
    BY <1>7, <2>1, <2>2, Zenon
<1>8. CASE StopCall \/ DeletedBegin
  <2>1. Still /\ UNCHANGED <<id, pc, status>>
    BY <1>8, Zenon DEF StopCall, DeletedBegin, Still
  <2>2. PICK a \in Stoppers : stop[a] = "idle" /\ \A b \in Stoppers : b # a => stop'[b] = stop[b]
    BY <1>1, <1>8, Zenon DEF StopCall, DeletedBegin, DeletedInternalStop, Stoppers
  <2>3. Stopped' => Stopped
    BY <2>1, <2>2, Zenon DEF Stopped, Closers
  <2> QED
    BY <1>2, <2>1, <2>3, Zenon
<1>9. ASSUME NEW a \in Stoppers, Stop(a) PROVE StopInv'
  <2>1. CASE StopFail(a)
    BY <2>1, FailStop, Zenon
  <2>2. CASE ~StopFail(a)
    <3>1. Still /\ UNCHANGED <<id, pc>>
      BY <1>9, <2>2, Zenon DEF Stop, StopDestroys, StopExchange, StopAccumulator, StopSemaphore, StopClient, Still
    <3>2. Stopped' => Stopped
      BY <1>9, <2>2, StoppedByFail, Zenon DEF IInv
    <3> QED
      BY <1>2, <3>1, <3>2, ZenonT(30)
  <2> QED
    BY <2>1, <2>2, Zenon
<1>10. ASSUME NEW s \in Sessions,
              \/ handle_metadata_update(s) \/ Disconnect(s) \/ HeartbeatTimeout(s) \/ NoticeDisconnect(s)
              \/ handle_shutdown(s) \/ ShutdownDropped(s) \/ FrameThreadEnds(s) \/ BrokerStores(s) \/ BrokerRefuses(s)
       PROVE  StopInv'
  <2>1. Still /\ UNCHANGED <<id, pc, status, stop>>
    BY <1>10, ZenonT(30) DEF handle_metadata_update, Disconnect, HeartbeatTimeout, NoticeDisconnect, handle_shutdown,
                        ShutdownDropped, FrameThreadEnds, BrokerStores, BrokerRefuses, Still
  <2> QED
    BY <1>3, <2>1, Zenon
<1>11. CASE UNCHANGED vars
  <2>1. Still /\ UNCHANGED <<id, pc, status, stop>>
    BY <1>11, Zenon DEF vars, Still
  <2> QED
    BY <1>3, <2>1, Zenon
<1>12. CASE Inputs
  BY <1>6, <1>10, <1>12, Zenon DEF Inputs
<1>13. CASE Steps
  <2>1. CASE \E m \in Msgs : Send(m)
    BY <1>5, <1>6, <2>1, SendStop, Zenon DEF Send
  <2>2. CASE \E s \in Sessions : FrameThread(s) \/ BrokerStores(s) \/ BrokerRefuses(s)
    BY <1>10, <2>2, AnswerStop, Zenon DEF FrameThread
  <2>3. CASE ConfirmTask
    BY <2>3, ConfirmStop, Zenon DEF ConfirmTask
  <2> QED
    BY <1>4, <1>5, <1>7, <1>8, <1>9, <1>13, <2>1, <2>2, <2>3, ZenonT(30) DEF Steps
<1> QED
  BY <1>11, <1>12, <1>13, ZenonT(30) DEF Next

\* A producer that has not been started is empty.
LEMMA InitStop == Init => StopInv
<1> SUFFICES ASSUME Init PROVE StopInv
  OBVIOUS
<1>1. pending = <<>> /\ unconfirmed = {} /\ \A m \in Msgs : pc[m] = "new"
  BY Zenon DEF Init
<1> QED
  BY <1>1, SMTT(30) DEF StopInv, PendingOnce, Accounted, StopEmpty, Accepted
-----------------------------------------------------------------------------
(* Together                                                                *)

\* Any set of messages is finite, so that messages can be counted.
LEMMA MessagesFinite ==
    ASSUME NEW S \in SUBSET Msgs
    PROVE  IsFiniteSet(S) /\ Cardinality(S) \in Nat
  BY MsgsAssumption, FS_Subset, FS_CardinalityType, Zenon

\* What the proofs assume about counting messages is true.
LEMMA CountingHolds == Counting
<1>1. ASSUME NEW S \in SUBSET Msgs, NEW m \in Msgs, m \notin S PROVE Cardinality(S \cup {m}) = Cardinality(S) + 1
  BY <1>1, MessagesFinite, FS_AddElement, Zenon
<1>2. ASSUME NEW S \in SUBSET Msgs, NEW T \in SUBSET Msgs, T \subseteq S
      PROVE  Cardinality(S \ T) = Cardinality(S) - Cardinality(T)
  <2>1. S \cap T = T
    BY <1>2, Zenon
  <2> QED
    BY <2>1, MessagesFinite, FS_Difference, Zenon
<1> QED
  BY <1>1, <1>2, MessagesFinite, FS_EmptySet, Zenon DEF Counting

\* With no sender inside send(), none of its messages is under way.
LEMMA NobodySends == ASSUME TypeOK PROVE Cardinality(Sending) < 1 => Sending = {}
<1>1. Sending \in SUBSET Msgs
  BY Zenon DEF Sending
<1>2. IsFiniteSet(Sending) /\ Cardinality(Sending) \in Nat
  BY <1>1, MessagesFinite, Zenon
<1> QED
  BY <1>2, FS_EmptySet, SMTT(30)

\* sorted_unconfirmed is all of m_unconfirmed in the order of its ids.
LEMMA ResentIsAll == ASSUME TypeOK, NEW q \in Resent PROVE InResentOrder(q)
<1> DEFINE n == Cardinality(unconfirmed)
<1>1. unconfirmed \in SUBSET Msgs /\ id \in [Msgs -> Ids]
  BY Zenon DEF TypeOK
<1>2. IsFiniteSet(unconfirmed) /\ n \in Nat
  BY <1>1, MessagesFinite, Zenon
<1>3. q \in [1 .. n -> unconfirmed] /\ \A i, j \in 1 .. n : i < j => id[q[i]] < id[q[j]]
  BY Zenon DEF Resent, Sorted
<1>4. \A i \in 1 .. n : q[i] \in unconfirmed /\ id[q[i]] \in Int
  BY <1>1, <1>3, SMTT(30) DEF Ids, NoId
<1>5. q \in Injection(1 .. n, unconfirmed)
  <2>1. \A i, j \in 1 .. n : q[i] = q[j] => ~(i < j) /\ ~(j < i)
    BY <1>3, <1>4, SMTT(30)
  <2>2. \A i, j \in 1 .. n : q[i] = q[j] => i = j
    BY <1>2, <2>1, SMTT(30)
  <2> QED
    BY <1>3, <2>2, Zenon DEF Injection, IsInjective
<1>6. Cardinality(1 .. n) = n
  <2>1. Cardinality(1 .. n) = IF 1 > n THEN 0 ELSE n - 1 + 1
    BY <1>2, FS_Interval, SMTT(30)
  <2> QED
    BY <1>2, <2>1, SMTT(30)
<1>7. q \in Surjection(1 .. n, unconfirmed)
  BY <1>2, <1>5, <1>6, FS_Injection, Zenon
<1>8. DOMAIN q = 1 .. n /\ q \in Seq(Msgs)
  BY <1>1, <1>2, <1>3, SMTT(30)
<1>9. Elements(q) = unconfirmed
  <2>1. \A m \in unconfirmed : \E i \in 1 .. n : q[i] = m
    BY <1>7, Zenon DEF Surjection
  <2>2. \A m \in Elements(q) : m \in unconfirmed
    BY <1>4, <1>8, Zenon DEF Elements
  <2>3. \A m \in unconfirmed : m \in Elements(q)
    BY <1>8, <2>1, Zenon DEF Elements
  <2> QED
    BY <2>2, <2>3, Zenon
<1> QED
  BY <1>3, <1>8, <1>9, Zenon DEF InResentOrder

\* What publishing needs of the control.
LEMMA ControlPlaces == ASSUME TypeOK, ControlInv PROVE SessionsInPlace
<1>1. taken \in [{"Delayed", "Reconnect", "stop"} -> Sessions \cup {NoClient}]
  BY Zenon DEF TypeOK
<1> QED
  BY <1>1, Zenon DEF SessionsInPlace, ControlInv, StartInv, TakenInv, ReconnectOnlyWhileStarted

\* The whole invariant.
ProducerInv == IInv /\ ControlInv /\ PublishInv /\ StopInv

\* It is inductive, and holds in every state of every behaviour.
LEMMA ProducerInvariance == Spec => []ProducerInv
<1>1. Init => ProducerInv
  BY CountingHolds, InvInitial, InitControl, InitPublished, InitStop, Zenon DEF ProducerInv
<1>2. ASSUME ProducerInv, [Next]_vars PROVE ProducerInv'
  <2>1. IInv' /\ ControlInv'
    BY <1>2, CountingHolds, InvStep, StepControl, ZenonT(60) DEF ProducerInv, IInv
  <2>2. TypeOK /\ TypeOK' /\ NewInv
    BY <1>2, <2>1, Zenon DEF ProducerInv, IInv, PublishInv, PublishedInv
  <2>3. SessionsInPlace /\ \A q \in Resent : InResentOrder(q)
    BY <1>2, <2>2, ControlPlaces, ResentIsAll, Zenon DEF ProducerInv
  <2>4. PublishInv'
    BY <1>2, <2>2, <2>3, NobodySends, StepPublished, ZenonT(60) DEF ProducerInv
  <2>5. StopInv'
    BY <1>2, <2>2, StepStop, Zenon DEF ProducerInv
  <2> QED
    BY <2>1, <2>4, <2>5, Zenon DEF ProducerInv
<1> QED
  BY <1>1, <1>2, PTL DEF Spec
-----------------------------------------------------------------------------
(* Results                                                                 *)

\* The variables of the producer keep their types; no permit count becomes
\* negative.
THEOREM TypeCorrect == Spec => []TypeOK
<1>1. ProducerInv => TypeOK
  BY ZenonT(30) DEF ProducerInv, IInv
<1> QED
  BY <1>1, ProducerInvariance, PTL

\* The handler of a message is called at most once: by a frame thread, by
\* check_confirm_timeout or by fail_all_unconfirmed, and by one of them only.
THEOREM HandlerCalledOnce == Spec => []HandlerAtMostOnce
<1>1. ProducerInv => HandlerAtMostOnce
  BY Zenon DEF ProducerInv, IInv
<1> QED
  BY <1>1, ProducerInvariance, PTL

\* The permits of m_enqueue_semaphore are never lost and never released twice.
THEOREM PermitsAreConserved == Spec => []PermitsConserved
<1>1. ProducerInv => PermitsConserved
  BY Zenon DEF ProducerInv, IInv
<1> QED
  BY <1>1, ProducerInvariance, PTL

\* reconnect_to_server never finds the producer stopped when it is about to
\* install its client.
THEOREM ReconnectsWhileStarted == Spec => []ReconnectOnlyWhileStarted
<1>1. ProducerInv => ReconnectOnlyWhileStarted
  BY Zenon DEF ProducerInv, ControlInv
<1> QED
  BY <1>1, ProducerInvariance, PTL

\* A started producer that has lost its client is never left without a task that
\* will get it another, unless it is being stopped.
THEOREM RecoveryIsUnderWay == Spec => []RecoveryUnderWay
<1>1. ProducerInv => RecoveryUnderWay
  BY Zenon DEF ProducerInv, ControlInv
<1> QED
  BY <1>1, ProducerInvariance, PTL

\* Every connection carries the messages of a single sender in the order of
\* their ids, whatever publish_batch and the resends of reconnect_to_server do.
THEOREM SentInOrder == Spec => []PublishedInOrder
<1>1. ProducerInv => PublishedInOrder
  BY Zenon DEF ProducerInv, PublishInv, PublishedInv, OrderInv, PublishedInOrder
<1> QED
  BY <1>1, ProducerInvariance, PTL

\* No reconnection leaves out a message of m_unconfirmed.
THEOREM AllUnconfirmedSent == Spec => []UnconfirmedWasSent
<1>1. ProducerInv => UnconfirmedWasSent
  BY Zenon DEF ProducerInv, PublishInv, PublishedInv
<1> QED
  BY <1>1, ProducerInvariance, PTL

\* handle_publish_confirm reports a message as confirmed only if the broker has
\* stored it, also after resends that the broker deduplicates.
THEOREM OnlyStoredIsConfirmed == Spec => []ConfirmedIsStored
<1>1. ProducerInv => ConfirmedIsStored
  BY Zenon DEF ProducerInv, PublishInv, AnswerInv, Reliable, ToldOk, ConfirmedIsStored
<1> QED
  BY <1>1, ProducerInvariance, PTL

\* When stop() has returned, no thread that calls handlers is left inside one.
LEMMA NothingActs ==
    ASSUME TypeOK, ControlInv, stop["user"] = "done"
    PROVE  /\ Stopped /\ run["Confirm"] = "idle" /\ \A s \in Sessions : frame[s] = NoFrame
           /\ \A a \in Stoppers : stop[a] # "fail"
<1>1. status = "Stopped" /\ stop["Deleted"] = "idle" /\ run["Confirm"] = "idle"
  BY Zenon DEF ControlInv, StopOrder, Over
<1>2. \A a \in Stoppers : stop[a] \notin Closers /\ stop[a] # "fail"
  BY <1>1, Zenon DEF Stoppers, Closers
<1>3. Stopped
  BY <1>1, <1>2, Zenon DEF Stopped
<1>4. \A s \in Sessions : sess[s] \in {"none", "closed"}
  BY <1>3, Zenon DEF ControlInv, StopOver
<1>5. \A s \in Sessions : frame[s] = NoFrame
  BY <1>4, ZenonT(60) DEF ControlInv, FrameLive
<1> QED
  BY <1>1, <1>2, <1>3, <1>5, ZenonT(60)

\* stop() returns with nothing left to report, for distinct ids: internal_stop
\* reports what the tasks and the frame threads it has waited for have not.
THEOREM StopLeavesNothing == Spec => []StopResolvesEverything
<1>1. ProducerInv => StopResolvesEverything
  <2> SUFFICES ASSUME ProducerInv, stop["user"] = "done"
               PROVE  /\ pending = <<>> /\ unconfirmed = {} /\ timed_out = {} /\ InFrame = {}
                      /\ DistinctIds => \A m \in Msgs : pc[m] \in {"publish", "sent"} => calls[m] = 1
    BY Zenon DEF StopResolvesEverything
  <2>1. /\ Stopped /\ run["Confirm"] = "idle" /\ \A s \in Sessions : frame[s] = NoFrame
    BY NothingActs, Zenon DEF ProducerInv, IInv
  <2>2. pending = <<>> /\ unconfirmed = {} /\ timed_out = {}
    BY <2>1, Zenon DEF ProducerInv, StopInv, StopEmpty, IInv, TimedOutIsLocal
  <2>3. InFrame = {}
    BY <2>1, SMTT(30) DEF InFrame, NoFrame
  <2>4. Placed = {}
    BY <2>2, <2>3, ElementsFacts, ZenonT(30) DEF Placed
  <2>5. DistinctIds => \A m \in Msgs : pc[m] \in {"publish", "sent"} => calls[m] = 1
    BY <2>4, Zenon DEF ProducerInv, StopInv, Accounted, Accepted
  <2> QED
    BY <2>2, <2>3, <2>5, Zenon
<1> QED
  BY <1>1, ProducerInvariance, PTL

\* A handler is called by a frame thread, check_confirm_timeout or
\* fail_all_unconfirmed, and by none of them once stop() has returned.
THEOREM NoHandlerAfterStop == Spec => NoCallAfterStop
<1>1. ASSUME ProducerInv, [Next]_vars PROVE [stop["user"] = "done" => calls' = calls]_vars
  <2> SUFFICES ASSUME stop["user"] = "done" PROVE calls' = calls
    BY Zenon
  <2>1. /\ run["Confirm"] = "idle" /\ \A s \in Sessions : frame[s] = NoFrame
        /\ \A a \in Stoppers : stop[a] # "fail"
    BY <1>1, NothingActs, Zenon DEF ProducerInv, IInv
  <2>2. ~ConfirmCall /\ \A a \in Stoppers : ~StopFail(a)
    BY <2>1, Zenon DEF ConfirmCall, StopFail
  <2>3. \A s \in Sessions : ~CallHandler(s)
    BY <2>1, SMTT(30) DEF CallHandler, NoFrame
  <2>4. CASE Start \/ StopCall \/ DeletedBegin \/ TimePasses \/ DelayedTask \/ \E t \in Tasks : TimerExpires(t)
    BY <2>4, ZenonT(30) DEF Start, StartBegin, StartConnect, StartDeclare, StartFinish, StopCall, DeletedBegin, TimePasses,
                  DelayedTask, DelayedBegin, DelayedEnd, TimerExpires
  <2>5. CASE flush \/ BatchTask \/ \E m \in Msgs : SendBegin(m) \/ Send(m)
    BY <2>5, Zenon DEF flush, BatchTask, publish_batch, SendBegin, Send, Acquire, AcquireFails, AddFails, AddWaits,
                Add, SendPublish
  <2>6. CASE ConfirmTask \/ \E a \in Stoppers : Stop(a)
    BY <2>2, <2>6, ZenonT(30) DEF ConfirmTask, ConfirmScan, Stop, StopDestroys, StopExchange, StopAccumulator,
                        StopSemaphore, StopClient
  <2>7. CASE ReconnectTask
    BY <2>7, ZenonT(30) DEF ReconnectTask, ReconnectBegin, ReconnectConnect, ReconnectRefused, ReconnectDeclare,
                 ReconnectUndeclared, ReconnectRetry, ReconnectInstall, ReconnectOverflow
  <2>8. CASE \E s \in Sessions : FrameThread(s) \/ BrokerStores(s) \/ BrokerRefuses(s)
    BY <2>3, <2>8, ZenonT(60) DEF FrameThread, ReadAnswer, HandleAnswer, NoticeDisconnect, handle_shutdown,
                        ShutdownDropped, FrameThreadEnds, BrokerStores, BrokerRefuses
  <2>9. CASE \E s \in Sessions : handle_metadata_update(s) \/ Disconnect(s) \/ HeartbeatTimeout(s)
    BY <2>9, ZenonT(30) DEF handle_metadata_update, Disconnect, HeartbeatTimeout
  <2>10. CASE UNCHANGED vars
    BY <2>10, Zenon DEF vars
  <2> QED
    BY <1>1, <2>4, <2>5, <2>6, <2>7, <2>8, <2>9, <2>10, ZenonT(60) DEF Next, Steps, Inputs
<1> QED
  BY <1>1, ProducerInvariance, PTL DEF Spec, NoCallAfterStop
=============================================================================
