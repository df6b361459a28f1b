------------------------ MODULE ProducerStateProofs -------------------------
(***************************************************************************)
(* For any number of messages, senders, permits and faults: the variables  *)
(* of the producer keep their types, a message is in one place at most and *)
(* reported once at most, and permits are conserved; and in which order    *)
(* start(), the recovery tasks, the sessions and internal_stop can follow  *)
(* each other, whatever happens to the messages.                           *)
(***************************************************************************)
EXTENDS Producer, TLAPS

USE DEF sendVars, semVars, accVars, netVars, sessVars, timerVars, cbVars, brokerVars

\* There is a first session, and none is the absent client.
LEMMA SessionsType ==
    /\ 1 \in Sessions /\ 1 \in 0 .. MaxSessions
    /\ MaxSessions \in Nat /\ NoClient \notin Sessions
  BY SizesAssumption DEF Sessions, MaxSessions, NoClient

\* What the proofs need to know about counting messages.  It holds because Msgs
\* is finite (ProducerProofs), and is an assumption until then.
Counting ==
    /\ Cardinality({}) = 0
    /\ \A S \in SUBSET Msgs : Cardinality(S) \in Nat
    /\ \A S \in SUBSET Msgs, m \in Msgs : m \notin S => Cardinality(S \cup {m}) = Cardinality(S) + 1
    /\ \A S, T \in SUBSET Msgs : T \subseteq S => Cardinality(S \ T) = Cardinality(S) - Cardinality(T)

\* What the operators on sequences return.
LEMMA SequenceTypes ==
    ASSUME NEW S
    PROVE  /\ \A q \in Seq(S) : Len(q) \in Nat /\ DOMAIN q = 1 .. Len(q) /\ \A i \in DOMAIN q : q[i] \in S
           /\ \A p, q \in Seq(S) : p \o q \in Seq(S)
           /\ \A q \in Seq(S), x \in S : Append(q, x) \in Seq(S)
           /\ \A q \in Seq(S) : q # <<>> => Head(q) \in S /\ Tail(q) \in Seq(S)
<1>1. \A q \in Seq(S) : Len(q) \in Nat /\ DOMAIN q = 1 .. Len(q) /\ \A i \in DOMAIN q : q[i] \in S
  OBVIOUS
<1>2. \A p, q \in Seq(S) : p \o q \in Seq(S)
  OBVIOUS
<1>3. \A q \in Seq(S), x \in S : Append(q, x) \in Seq(S)
  OBVIOUS
<1>4. \A q \in Seq(S) : q # <<>> => Head(q) \in S /\ Tail(q) \in Seq(S)
  OBVIOUS
<1> QED
  BY <1>1, <1>2, <1>3, <1>4, Zenon

\* What extract_all returns are messages.
LEMMA ElementsType ==
    ASSUME NEW q \in Seq(Msgs)
    PROVE  Elements(q) \in SUBSET Msgs
<1>1. \A i \in DOMAIN q : q[i] \in Msgs
  BY SequenceTypes, Zenon
<1> QED
  BY <1>1, Zenon DEF Elements

\* Telling the application about some messages, and releasing their permits.
LEMMA CallTypes ==
    ASSUME Counting, TypeOK, NEW S \in SUBSET Msgs, NEW r \in Codes, Call(S, r), ReleasePermits(S)
    PROVE  /\ calls' \in [Msgs -> Nat] /\ result' \in [Msgs -> Codes \cup {"none"}]
           /\ available' \in Nat
<1>0. calls \in [Msgs -> Nat] /\ result \in [Msgs -> Codes \cup {"none"}] /\ available \in Nat
  BY ZenonT(30) DEF TypeOK
<1>1. available' \in Nat
  BY <1>0 DEF ReleasePermits, Counting
<1>2. calls' \in [Msgs -> Nat]
  BY <1>0 DEF Call
<1>3. result' \in [Msgs -> Codes \cup {"none"}]
  BY <1>0, Zenon DEF Call
<1> QED
  BY <1>1, <1>2, <1>3, Zenon

\* schedule_now and schedule_after of any task.
LEMMA ScheduleTypes ==
    ASSUME TypeOK, NEW t \in Tasks
    PROVE  /\ schedule_now(t) => due' \in [Tasks -> Nat] /\ armed' \in [Tasks -> BOOLEAN]
           /\ ArmedAfter(t) \in [Tasks -> BOOLEAN]
<1>0. due \in [Tasks -> Nat] /\ armed \in [Tasks -> BOOLEAN]
  BY ZenonT(30) DEF TypeOK
<1>1. schedule_now(t) => due' \in [Tasks -> Nat]
  BY <1>0 DEF schedule_now
<1>2. schedule_now(t) => armed' \in [Tasks -> BOOLEAN]
  BY <1>0, Zenon DEF schedule_now
<1>3. ((Valid(t) /\ ~destroyed[t]) \/ armed[t]) \in BOOLEAN
  OBVIOUS
<1>4. ArmedAfter(t) \in [Tasks -> BOOLEAN]
  BY <1>0, <1>3, Zenon DEF ArmedAfter
<1> QED
  BY <1>1, <1>2, <1>4, Zenon

\* ClientImpl::stop() of any session, or of none.
LEMMA ClosingType ==
    ASSUME TypeOK, NEW s
    PROVE  Closing(s) \in [Sessions -> SessionStates]
  BY Zenon DEF Closing, TypeOK, SessionStates

\* publish_encoded on a session.
LEMMA PublishType ==
    ASSUME TypeOK, NEW s, NEW q \in Seq(Msgs), Publish(s, q)
    PROVE  wire' \in [Sessions -> Seq(Msgs)]
<1>1. wire \in [Sessions -> Seq(Msgs)]
  BY ZenonT(30) DEF TypeOK
<1>2. \A t \in Sessions : wire[t] \o q \in Seq(Msgs)
  BY <1>1, SequenceTypes, Zenon
<1> QED
  BY <1>1, <1>2, Zenon DEF Publish

\* What publish_encoded has sent when it throws.
LEMMA CutShortType ==
    ASSUME NEW q \in Seq(Msgs), NEW p \in CutShort(q)
    PROVE  p \in Seq(Msgs)
<1>1. PICK n \in 0 .. Len(q) - 1 : p = SubSeq(q, 1, n)
  BY Zenon DEF CutShort
<1>2. \A i \in 1 .. n : q[i] \in Msgs
  BY <1>1
<1> QED
  BY <1>1, <1>2

\* sorted_unconfirmed is a list of messages.
LEMMA ResentType ==
    ASSUME Counting, TypeOK, NEW q \in Resent
    PROVE  q \in Seq(Msgs)
<1>1. Cardinality(unconfirmed) \in Nat /\ unconfirmed \in SUBSET Msgs
  BY ZenonT(30) DEF TypeOK, Counting
<1>2. q \in [1 .. Cardinality(unconfirmed) -> Msgs]
  BY <1>1, Zenon DEF Resent, Sorted
<1> QED
  BY <1>1, <1>2

\* start() keeps the types.
LEMMA StartTypes == ASSUME TypeOK, Start PROVE TypeOK'
<1>1. CASE StartBegin
  BY <1>1, ZenonT(30) DEF TypeOK, StartBegin
<1>2. CASE StartConnect
  <2>1. nsess' \in 0 .. MaxSessions /\ client' \in Sessions \cup {NoClient}
    BY <1>2, SessionsType, Zenon DEF StartConnect
  <2>2. sess' \in [Sessions -> SessionStates]
    BY <1>2, Zenon DEF StartConnect, TypeOK, SessionStates
  <2> QED
    BY <1>2, <2>1, <2>2, ZenonT(30) DEF TypeOK, StartConnect
<1>3. CASE StartDeclare
  <2>1. last_seq \in Nat \cup {NoId} /\ next_id \in Nat
    BY ZenonT(30) DEF TypeOK, Ids
  <2>2. \/ next_id' = next_id \/ next_id' = 0
        \/ next_id' = last_seq + 1 /\ last_seq # NoId
    BY <1>3, Zenon DEF StartDeclare
  <2>3. next_id' \in Nat
    BY <2>1, <2>2
  <2> QED
    BY <1>3, <2>3, ZenonT(30) DEF TypeOK, StartDeclare
<1>4. CASE StartFinish
  BY <1>4, FlagsAssumption, ZenonT(30) DEF TypeOK, StartFinish, Tasks
<1> QED
  BY <1>1, <1>2, <1>3, <1>4, Zenon DEF Start

\* publish_batch keeps the types of what it changes.
LEMMA PublishBatchTypes ==
    ASSUME Counting, TypeOK, publish_batch
    PROVE  /\ pending' \in Seq(Msgs) /\ unconfirmed' \in SUBSET Msgs /\ available' \in Nat
           /\ wire' \in [Sessions -> Seq(Msgs)] /\ sent' \in Seq(Msgs) /\ armed' \in [Tasks -> BOOLEAN]
<1>0. /\ pending \in Seq(Msgs) /\ unconfirmed \in SUBSET Msgs /\ available \in Nat
      /\ wire \in [Sessions -> Seq(Msgs)] /\ sent \in Seq(Msgs) /\ armed \in [Tasks -> BOOLEAN]
  BY ZenonT(30) DEF TypeOK
<1>1. CASE status # "Started"
  BY <1>0, <1>1, Zenon DEF publish_batch
<1>2. CASE status = "Started"
  <2>1. Elements(pending) \in SUBSET Msgs /\ Emplaced(pending) \subseteq Elements(pending)
    BY <1>0, ElementsType, Zenon DEF Emplaced, Elements
  <2>2. pending' = <<>> /\ unconfirmed' = unconfirmed \cup Emplaced(pending)
    BY <1>2, Zenon DEF publish_batch
  <2>3. available' \in Nat
    <3>1. Cardinality(Elements(pending) \ Emplaced(pending)) \in Nat
      BY <2>1, Zenon DEF Counting
    <3> QED
      BY <1>0, <1>2, <3>1 DEF publish_batch, ReleasePermits
  <2>4. armed' \in [Tasks -> BOOLEAN]
    BY <1>2, ScheduleTypes, Zenon DEF publish_batch, Tasks
  <2>5. wire' \in [Sessions -> Seq(Msgs)] /\ sent' \in Seq(Msgs)
    <3>1. CASE UNCHANGED <<sent, wire>>
      BY <1>0, <3>1, Zenon
    <3>2. ASSUME NEW q \in {pending} \cup CutShort(pending), Publish(client, q), sent' = sent \o q
          PROVE  wire' \in [Sessions -> Seq(Msgs)] /\ sent' \in Seq(Msgs)
      <4>1. q \in Seq(Msgs)
        BY <1>0, CutShortType, Zenon
      <4> QED
        BY <1>0, <3>2, <4>1, PublishType, SequenceTypes, Zenon
    <3> QED
      BY <1>2, <3>1, <3>2, Zenon DEF publish_batch
  <2>6. pending' \in Seq(Msgs) /\ unconfirmed' \in SUBSET Msgs
    BY <1>0, <2>1, <2>2
  <2> QED
    BY <2>3, <2>4, <2>5, <2>6, Zenon
<1> QED
  BY <1>1, <1>2, Zenon

\* send(), flush() and the batch task keep the types.
LEMMA SendTypes ==
    ASSUME Counting, TypeOK,
           flush \/ BatchTask \/ \E m \in Msgs : SendBegin(m) \/ Send(m)
    PROVE  TypeOK'
<1>0. /\ next_id \in Nat /\ id \in [Msgs -> Ids] /\ pc \in [Msgs -> SendStates] /\ available \in Nat
      /\ pending \in Seq(Msgs) /\ due \in [Tasks -> Nat]
  BY ZenonT(30) DEF TypeOK
<1>1. ASSUME NEW m \in Msgs, SendBegin(m) PROVE TypeOK'
  <2>1. next_id' \in Nat
    BY <1>0, <1>1 DEF SendBegin
  <2>2. id' \in [Msgs -> Ids]
    BY <1>0, <1>1, SizesAssumption, Zenon DEF SendBegin, Ids
  <2>3. pc' \in [Msgs -> SendStates]
    BY <1>0, <1>1, Zenon DEF SendBegin, SendStates
  <2> QED
    BY <1>1, <2>1, <2>2, <2>3, ZenonT(30) DEF TypeOK, SendBegin
<1>2. ASSUME NEW m \in Msgs, Acquire(m) PROVE TypeOK'
  <2>1. available' \in Nat
    BY <1>0, <1>2 DEF Acquire, PermitGranted
  <2>2. pc' \in [Msgs -> SendStates]
    BY <1>0, <1>2, Zenon DEF Acquire, SendStates
  <2> QED
    BY <1>2, <2>1, <2>2, ZenonT(60) DEF TypeOK, Acquire
<1>3. ASSUME NEW m \in Msgs, AcquireFails(m) \/ AddWaits(m) PROVE TypeOK'
  <2>1. pc' \in [Msgs -> SendStates]
    BY <1>0, <1>3, Zenon DEF AcquireFails, AddWaits, SendStates
  <2> QED
    BY <1>3, <2>1, ZenonT(60) DEF TypeOK, AcquireFails, AddWaits
<1>4. ASSUME NEW m \in Msgs, AddFails(m) PROVE TypeOK'
  <2>1. pc' \in [Msgs -> SendStates]
    BY <1>0, <1>4, Zenon DEF AddFails, SendStates
  <2>2. available' \in Nat
    BY <1>0, <1>4 DEF AddFails, PermitReturned, ReleasePermits, Counting
  <2> QED
    BY <1>4, <2>1, <2>2, ZenonT(60) DEF TypeOK, AddFails
<1>5. ASSUME NEW m \in Msgs, Add(m) PROVE TypeOK'
  <2>1. pc' \in [Msgs -> SendStates]
    BY <1>0, <1>5, Zenon DEF Add, SendStates
  <2>2. pending' \in Seq(Msgs)
    BY <1>0, <1>5, SequenceTypes, Zenon DEF Add
  <2> QED
    BY <1>5, <2>1, <2>2, ZenonT(30) DEF TypeOK, Add
<1>6. ASSUME publish_batch, pc' \in [Msgs -> SendStates], due' \in [Tasks -> Nat] PROVE TypeOK'
  <2>1. UNCHANGED <<status, starting, next_id, id, sem_destroyed, acc_destroyed, old, client, inbox, frame,
                    sess, nsess, faults, dropped, destroyed, run, taken, timed_out, stop, calls, result,
                    stored, last_seq>>
    BY <1>6, Zenon DEF publish_batch
  <2>2. /\ pending' \in Seq(Msgs) /\ unconfirmed' \in SUBSET Msgs /\ available' \in Nat
        /\ wire' \in [Sessions -> Seq(Msgs)] /\ sent' \in Seq(Msgs) /\ armed' \in [Tasks -> BOOLEAN]
    BY <1>6, PublishBatchTypes, Zenon
  <2> QED
    BY <1>6, <2>1, <2>2, ZenonT(60) DEF TypeOK
<1>7. ASSUME NEW m \in Msgs, SendPublish(m) PROVE TypeOK'
  <2>1. pc' \in [Msgs -> SendStates] /\ due' \in [Tasks -> Nat] /\ publish_batch
    BY <1>0, <1>7, Zenon DEF SendPublish, SendStates
  <2> QED
    BY <1>6, <2>1, Zenon
<1>8. CASE flush
  BY <1>0, <1>6, <1>8, Zenon DEF flush
<1>9. CASE BatchTask
  <2>1. due' \in [Tasks -> Nat]
    BY <1>0, <1>9, SMTT(30) DEF BatchTask, Ready, Tasks
  <2> QED
    BY <1>0, <1>6, <1>9, <2>1, Zenon DEF BatchTask
<1> QED
  BY <1>1, <1>2, <1>3, <1>4, <1>5, <1>7, <1>8, <1>9, Zenon DEF Send

\* The broker and the frame thread of a session keep the types.
LEMMA SessionTypes ==
    ASSUME Counting, TypeOK, NEW s \in Sessions,
           \/ FrameThread(s) \/ handle_metadata_update(s) \/ Disconnect(s)
           \/ HeartbeatTimeout(s) \/ BrokerStores(s) \/ BrokerRefuses(s)
    PROVE  TypeOK'
<1> DEFINE Answer == [id : Ids, ok : BOOLEAN]
<1>0. /\ wire \in [Sessions -> Seq(Msgs)] /\ inbox \in [Sessions -> Seq(Answer)]
      /\ frame \in [Sessions -> [id : Ids, ok : BOOLEAN, msg : Msgs \cup {NoMsg}]]
      /\ id \in [Msgs -> Ids] /\ stored \in [Msgs -> Nat] /\ last_seq \in Ids
      /\ sess \in [Sessions -> SessionStates] /\ faults \in 0 .. MaxFaults
      /\ unconfirmed \in SUBSET Msgs
  BY ZenonT(30) DEF TypeOK
<1>1. NoFrame \in [id : Ids, ok : BOOLEAN, msg : Msgs \cup {NoMsg}]
  BY Zenon DEF NoFrame, Ids
<1>2. \A t \in Sessions : wire[t] # <<>> => Head(wire[t]) \in Msgs /\ Tail(wire[t]) \in Seq(Msgs)
  BY <1>0, SequenceTypes, Zenon
<1>3. \A t \in Sessions : inbox[t] # <<>> => Head(inbox[t]) \in Answer /\ Tail(inbox[t]) \in Seq(Answer)
  BY <1>0, SequenceTypes, Zenon
<1>4. ASSUME NEW a \in Answer PROVE Append(inbox[s], a) \in Seq(Answer)
  BY <1>0, SequenceTypes, Zenon
<1>5. CASE BrokerStores(s)
  <2>1. wire' \in [Sessions -> Seq(Msgs)]
    BY <1>0, <1>2, <1>5, Zenon DEF BrokerStores
  <2>2. Head(wire[s]) \in Msgs
    BY <1>2, <1>5, Zenon DEF BrokerStores
  <2>3. [id |-> id[Head(wire[s])], ok |-> TRUE] \in Answer
    BY <1>0, <2>2, Zenon
  <2> HIDE DEF Answer
  <2>4. inbox' \in [Sessions -> Seq(Answer)]
    BY <1>0, <1>4, <1>5, <2>3, Zenon DEF BrokerStores
  <2>5. stored' \in [Msgs -> Nat] /\ last_seq' \in Ids
    BY <1>0, <1>5, <2>2, SMTT(30) DEF BrokerStores
  <2> QED
    BY <1>5, <2>1, <2>4, <2>5, ZenonT(60) DEF TypeOK, BrokerStores, Answer
<1>6. CASE BrokerRefuses(s)
  <2>1. wire' \in [Sessions -> Seq(Msgs)]
    BY <1>0, <1>2, <1>6, Zenon DEF BrokerRefuses
  <2>2. [id |-> id[Head(wire[s])], ok |-> FALSE] \in Answer
    BY <1>0, <1>2, <1>6, Zenon DEF BrokerRefuses
  <2> HIDE DEF Answer
  <2>3. inbox' \in [Sessions -> Seq(Answer)]
    BY <1>0, <1>4, <1>6, <2>2, Zenon DEF BrokerRefuses
  <2> QED
    BY <1>6, <2>1, <2>3, ZenonT(60) DEF TypeOK, BrokerRefuses, Answer
<1>7. CASE ReadAnswer(s)
  <2>1. Head(inbox[s]) \in Answer
    BY <1>3, <1>7, Zenon DEF ReadAnswer
  <2>2. frame' \in [Sessions -> [id : Ids, ok : BOOLEAN, msg : Msgs \cup {NoMsg}]]
    <3>1. [id |-> Head(inbox[s]).id, ok |-> Head(inbox[s]).ok, msg |-> NoMsg]
              \in [id : Ids, ok : BOOLEAN, msg : Msgs \cup {NoMsg}]
      BY <2>1, SMTT(30)
    <3> QED
      BY <1>0, <1>7, <3>1, Zenon DEF ReadAnswer
  <2> HIDE DEF Answer
  <2>3. inbox' \in [Sessions -> Seq(Answer)]
    BY <1>0, <1>3, <1>7, Zenon DEF ReadAnswer
  <2> QED
    BY <1>7, <2>2, <2>3, ZenonT(60) DEF TypeOK, ReadAnswer, Answer
<1>8. CASE HandleAnswer(s)
  <2>1. unconfirmed' \in SUBSET Msgs
    BY <1>0, <1>8, Zenon DEF HandleAnswer, Erased
  <2>2. frame' \in [Sessions -> [id : Ids, ok : BOOLEAN, msg : Msgs \cup {NoMsg}]]
    <3>1. CASE frame' = [frame EXCEPT ![s] = NoFrame]
      BY <1>0, <1>1, <3>1, Zenon
    <3>2. ASSUME NEW m \in Msgs, frame' = [frame EXCEPT ![s].msg = m]
          PROVE  frame' \in [Sessions -> [id : Ids, ok : BOOLEAN, msg : Msgs \cup {NoMsg}]]
      <4>1. [frame[s] EXCEPT !.msg = m] \in [id : Ids, ok : BOOLEAN, msg : Msgs \cup {NoMsg}]
        BY <1>0, Zenon
      <4> QED
        BY <1>0, <3>2, <4>1, Zenon
    <3>3. \/ frame' = [frame EXCEPT ![s] = NoFrame]
          \/ \E m \in Msgs : frame' = [frame EXCEPT ![s].msg = m]
      BY <1>0, <1>8, Zenon DEF HandleAnswer
    <3> QED
      BY <3>1, <3>2, <3>3, Zenon
  <2> QED
    BY <1>8, <2>1, <2>2, ZenonT(60) DEF TypeOK, HandleAnswer
<1>9. CASE CallHandler(s)
  <2>1. frame' \in [Sessions -> [id : Ids, ok : BOOLEAN, msg : Msgs \cup {NoMsg}]]
    BY <1>0, <1>1, <1>9, Zenon DEF CallHandler
  <2>2. {frame[s].msg} \in SUBSET Msgs /\ AnswerCode(frame[s].ok) \in Codes
    BY <1>0, <1>9, Zenon DEF CallHandler, AnswerCode, Codes
  <2>3. Call({frame[s].msg}, AnswerCode(frame[s].ok)) /\ ReleasePermits({frame[s].msg})
    BY <1>9, Zenon DEF CallHandler
  <2>4. /\ calls' \in [Msgs -> Nat] /\ result' \in [Msgs -> Codes \cup {"none"}] /\ available' \in Nat
    BY <2>2, <2>3, CallTypes, Zenon
  <2> QED
    BY <1>9, <2>1, <2>4, ZenonT(60) DEF TypeOK, CallHandler
<1>10. CASE handle_metadata_update(s)
  <2>1. due' \in [Tasks -> Nat] /\ armed' \in [Tasks -> BOOLEAN]
    BY <1>10, ScheduleTypes, Zenon DEF handle_metadata_update, Tasks
  <2>2. faults' \in 0 .. MaxFaults
    BY <1>0, <1>10, SizesAssumption DEF handle_metadata_update
  <2> QED
    BY <1>10, <2>1, <2>2, ZenonT(60) DEF TypeOK, handle_metadata_update
<1>11. CASE Disconnect(s)
  <2>1. faults' \in 0 .. MaxFaults
    BY <1>0, <1>11, SizesAssumption DEF Disconnect
  <2>2. sess' \in [Sessions -> SessionStates]
    BY <1>0, <1>11, Zenon DEF Disconnect, SessionStates
  <2>3. wire' \in [Sessions -> Seq(Msgs)]
    BY <1>0, <1>11 DEF Disconnect
  <2> QED
    BY <1>11, <2>1, <2>2, <2>3, ZenonT(60) DEF TypeOK, Disconnect
<1>12. CASE NoticeDisconnect(s)
  <2>1. sess' \in [Sessions -> SessionStates]
    BY <1>0, <1>12, Zenon DEF NoticeDisconnect, SessionStates
  <2> HIDE DEF Answer
  <2>2. inbox' \in [Sessions -> Seq(Answer)]
    BY <1>0, <1>12 DEF NoticeDisconnect
  <2> QED
    BY <1>12, <2>1, <2>2, ZenonT(60) DEF TypeOK, NoticeDisconnect, Answer
<1>13. CASE handle_shutdown(s)
  <2>1. /\ Closing(client) \in [Sessions -> SessionStates]
        /\ client \in Sessions \cup {NoClient} /\ dropped \in Sessions \cup {NoClient}
    BY ClosingType, ZenonT(30) DEF TypeOK
  <2>2. sess' \in [Sessions -> SessionStates]
    BY <1>0, <1>13, <2>1, Zenon DEF handle_shutdown, SessionStates
  <2>3. client' \in Sessions \cup {NoClient} /\ dropped' \in Sessions \cup {NoClient}
    BY <1>13, <2>1, Zenon DEF handle_shutdown
  <2>4. due' \in [Tasks -> Nat] /\ armed' \in [Tasks -> BOOLEAN]
    <3>1. schedule_now("Reconnect") \/ UNCHANGED <<due, armed>>
      BY <1>13, Zenon DEF handle_shutdown
    <3> QED
      BY <3>1, ScheduleTypes, Zenon DEF Tasks, TypeOK
  <2>5. UNCHANGED <<status, starting, sendVars, semVars, accVars, old, unconfirmed, netVars, nsess, faults,
                    destroyed, run, taken, timed_out, stop, cbVars, brokerVars>>
    BY <1>13, Zenon DEF handle_shutdown
  <2> QED
    BY <2>2, <2>3, <2>4, <2>5, ZenonT(30) DEF TypeOK
<1>14. CASE ShutdownDropped(s)
  <2>1. due' \in [Tasks -> Nat] /\ armed' \in [Tasks -> BOOLEAN]
    BY <1>14, ScheduleTypes, Zenon DEF ShutdownDropped, Tasks
  <2>2. sess' \in [Sessions -> SessionStates]
    BY <1>0, <1>14, Zenon DEF ShutdownDropped, SessionStates
  <2> QED
    BY <1>14, <2>1, <2>2, ZenonT(30) DEF TypeOK, ShutdownDropped
<1>15. CASE FrameThreadEnds(s)
  <2>1. sess' \in [Sessions -> SessionStates]
    BY <1>0, <1>15, Zenon DEF FrameThreadEnds, SessionStates
  <2>2. wire' \in [Sessions -> Seq(Msgs)]
    BY <1>0, <1>15 DEF FrameThreadEnds
  <2> HIDE DEF Answer
  <2>3. inbox' \in [Sessions -> Seq(Answer)]
    BY <1>0, <1>15 DEF FrameThreadEnds
  <2> QED
    BY <1>15, <2>1, <2>2, <2>3, ZenonT(60) DEF TypeOK, FrameThreadEnds, Answer
<1>16. CASE HeartbeatTimeout(s)
  <2>1. faults' \in 0 .. MaxFaults
    BY <1>0, <1>16, SizesAssumption DEF HeartbeatTimeout
  <2>2. sess' \in [Sessions -> SessionStates]
    BY <1>0, <1>16, Zenon DEF HeartbeatTimeout, SessionStates
  <2>3. wire' \in [Sessions -> Seq(Msgs)]
    BY <1>0, <1>16 DEF HeartbeatTimeout
  <2> QED
    BY <1>16, <2>1, <2>2, <2>3, ZenonT(60) DEF TypeOK, HeartbeatTimeout
<1> QED
  BY <1>5, <1>6, <1>7, <1>8, <1>9, <1>10, <1>11, <1>12, <1>13, <1>14, <1>15, <1>16, Zenon DEF FrameThread

\* The passing of time and the background tasks keep the types.
LEMMA TaskTypes ==
    ASSUME Counting, TypeOK,
           \/ TimePasses \/ ConfirmTask \/ DelayedTask \/ ReconnectTask
           \/ \E t \in Tasks : TimerExpires(t)
    PROVE  TypeOK'
<1> DEFINE RunSteps == ConfirmSteps \cup ReconnectSteps \cup {"join"}
           RunOK(r) == /\ r \in [Tasks -> RunSteps]
                       /\ r["Confirm"] \in ConfirmSteps /\ r["Reconnect"] \in ReconnectSteps
           Takers == {"Delayed", "Reconnect", "stop"}
<1>0. /\ due \in [Tasks -> Nat] /\ armed \in [Tasks -> BOOLEAN] /\ RunOK(run)
      /\ unconfirmed \in SUBSET Msgs /\ timed_out \in SUBSET Msgs
      /\ taken \in [Takers -> Sessions \cup {NoClient}] /\ client \in Sessions \cup {NoClient}
      /\ sess \in [Sessions -> SessionStates] /\ nsess \in 0 .. MaxSessions /\ faults \in 0 .. MaxFaults
  BY ZenonT(30) DEF TypeOK
<1>1. /\ \A x \in ConfirmSteps : RunOK([run EXCEPT !["Confirm"] = x])
      /\ \A x \in ReconnectSteps : RunOK([run EXCEPT !["Reconnect"] = x])
      /\ \A x \in {"idle", "join"} : RunOK([run EXCEPT !["Delayed"] = x])
  BY <1>0, Zenon DEF Tasks, ConfirmSteps, ReconnectSteps
<1>2. ASSUME NEW t \in Tasks, Ready(t) PROVE [due EXCEPT ![t] = @ - 1] \in [Tasks -> Nat]
  BY <1>0, <1>2 DEF Ready
<1>3. CASE TimePasses
  BY <1>3, ZenonT(60) DEF TypeOK, TimePasses, Stamped
<1>4. ASSUME NEW t \in Tasks, TimerExpires(t) PROVE TypeOK'
  <2>1. due' \in [Tasks -> Nat] /\ armed' \in [Tasks -> BOOLEAN]
    BY <1>0, <1>4 DEF TimerExpires
  <2> QED
    BY <1>4, <2>1, ZenonT(60) DEF TypeOK, TimerExpires
<1>5. CASE ConfirmScan
  <2>1. due' \in [Tasks -> Nat]
    BY <1>2, <1>5, Zenon DEF ConfirmScan, Tasks
  <2>2. timed_out' \in SUBSET Msgs /\ unconfirmed' \in SUBSET Msgs
    BY <1>0, <1>5, Zenon DEF ConfirmScan, TimedOut
  <2>3. RunOK(run')
    BY <1>1, <1>5, Zenon DEF ConfirmScan, ConfirmSteps
  <2> QED
    BY <1>5, <2>1, <2>2, <2>3, ZenonT(60) DEF TypeOK, ConfirmScan
<1>6. CASE ConfirmCall
  <2>1. run["Confirm"] \in Codes
    BY <1>0, <1>6, Zenon DEF ConfirmCall, ConfirmSteps, Codes
  <2>2. Call(timed_out, run["Confirm"]) /\ ReleasePermits(timed_out)
    BY <1>6, Zenon DEF ConfirmCall
  <2>3. calls' \in [Msgs -> Nat] /\ result' \in [Msgs -> Codes \cup {"none"}] /\ available' \in Nat
    BY <1>0, <2>1, <2>2, CallTypes, Zenon
  <2>4. RunOK(run')
    BY <1>1, <1>6, Zenon DEF ConfirmCall, ConfirmSteps
  <2>5. armed' \in [Tasks -> BOOLEAN]
    BY <1>6, ScheduleTypes, Zenon DEF ConfirmCall, Tasks
  <2> QED
    BY <1>6, <2>3, <2>4, <2>5, ZenonT(60) DEF TypeOK, ConfirmCall
<1>7. CASE DelayedBegin
  <2>1. due' \in [Tasks -> Nat]
    BY <1>2, <1>7, Zenon DEF DelayedBegin, Tasks
  <2>2. RunOK(run')
    BY <1>0, <1>1, <1>7, Zenon DEF DelayedBegin
  <2>3. /\ taken' \in [Takers -> Sessions \cup {NoClient}] /\ client' \in Sessions \cup {NoClient}
        /\ sess' \in [Sessions -> SessionStates]
    BY <1>0, <1>7, ClosingType DEF DelayedBegin
  <2>4. UNCHANGED <<status, starting, sendVars, semVars, accVars, old, unconfirmed, netVars, nsess, faults,
                    dropped, armed, destroyed, timed_out, stop, cbVars, brokerVars>>
    BY <1>7, SMTT(30) DEF DelayedBegin
  <2> QED
    BY <2>1, <2>2, <2>3, <2>4, ZenonT(30) DEF TypeOK
<1>8. CASE DelayedEnd
  <2>1. taken' \in [Takers -> Sessions \cup {NoClient}] /\ RunOK(run')
    BY <1>0, <1>1, <1>8, Zenon DEF DelayedEnd
  <2>2. armed' \in [Tasks -> BOOLEAN]
    BY <1>8, ScheduleTypes, Zenon DEF DelayedEnd, Tasks
  <2> QED
    BY <1>8, <2>1, <2>2, ZenonT(60) DEF TypeOK, DelayedEnd
<1>9. CASE ReconnectBegin
  <2>1. due' \in [Tasks -> Nat]
    BY <1>2, <1>9, Zenon DEF ReconnectBegin, Tasks
  <2>2. RunOK(run')
    BY <1>1, <1>9, Zenon DEF ReconnectBegin, ReconnectSteps
  <2> QED
    BY <1>9, <2>1, <2>2, ZenonT(60) DEF TypeOK, ReconnectBegin
<1>10. CASE ReconnectConnect
  <2>1. nsess' \in 0 .. MaxSessions /\ nsess' \in Sessions
    BY <1>0, <1>10, SessionsType DEF ReconnectConnect, Sessions
  <2>2. taken' \in [Takers -> Sessions \cup {NoClient}] /\ sess' \in [Sessions -> SessionStates]
    BY <1>0, <1>10, <2>1, Zenon DEF ReconnectConnect, SessionStates
  <2>3. RunOK(run')
    BY <1>1, <1>10, SMTT(30) DEF ReconnectConnect, ReconnectSteps
  <2> QED
    BY <1>10, <2>1, <2>2, <2>3, ZenonT(60) DEF TypeOK, ReconnectConnect
<1>11. CASE ReconnectRefused \/ ReconnectDeclare
  <2>1. RunOK(run')
    BY <1>1, <1>11, SMTT(30) DEF ReconnectRefused, ReconnectDeclare, ReconnectSteps
  <2>2. UNCHANGED <<status, starting, sendVars, semVars, accVars, old, unconfirmed, client, netVars, sessVars,
                    timerVars, destroyed, taken, timed_out, stop, cbVars, brokerVars>>
    BY <1>11, Zenon DEF ReconnectRefused, ReconnectDeclare
  <2> QED
    BY <2>1, <2>2, ZenonT(60) DEF TypeOK
<1>12. CASE ReconnectUndeclared
  <2>1. RunOK(run')
    BY <1>1, <1>12, SMTT(30) DEF ReconnectUndeclared, ReconnectSteps
  <2>2. sess' \in [Sessions -> SessionStates]
    BY <1>12, ClosingType, Zenon DEF ReconnectUndeclared
  <2>3. faults' \in 0 .. MaxFaults
    BY <1>0, <1>12, SizesAssumption DEF ReconnectUndeclared
  <2>4. UNCHANGED <<status, starting, sendVars, semVars, accVars, old, unconfirmed, client, netVars, nsess,
                    dropped, timerVars, destroyed, taken, timed_out, stop, cbVars, brokerVars>>
    BY <1>12, SMTT(30) DEF ReconnectUndeclared
  <2> QED
    BY <2>1, <2>2, <2>3, <2>4, ZenonT(60) DEF TypeOK
<1>13. CASE ReconnectRetry
  <2>1. RunOK(run') /\ taken' \in [Takers -> Sessions \cup {NoClient}]
    BY <1>0, <1>1, <1>13, SMTT(30) DEF ReconnectRetry, ReconnectSteps
  <2>2. schedule_now("Deleted") \/ (armed' = ArmedAfter("Reconnect") /\ UNCHANGED due)
    BY <1>13, Zenon DEF ReconnectRetry
  <2>3. due' \in [Tasks -> Nat] /\ armed' \in [Tasks -> BOOLEAN]
    BY <1>0, <2>2, ScheduleTypes, Zenon DEF Tasks
  <2>4. UNCHANGED <<status, starting, sendVars, semVars, accVars, old, unconfirmed, client, netVars, sessVars,
                    destroyed, timed_out, stop, cbVars, brokerVars>>
    BY <1>13, Zenon DEF ReconnectRetry
  <2> QED
    BY <2>1, <2>3, <2>4, ZenonT(60) DEF TypeOK
<1>14. CASE ReconnectInstall
  <2>1. RunOK(run') /\ taken' \in [Takers -> Sessions \cup {NoClient}]
    BY <1>0, <1>1, <1>14, Zenon DEF ReconnectInstall, ReconnectSteps
  <2>2. client' \in Sessions \cup {NoClient} /\ sess' \in [Sessions -> SessionStates]
    BY <1>0, <1>14, ClosingType, Zenon DEF ReconnectInstall
  <2>3. wire' \in [Sessions -> Seq(Msgs)] /\ sent' \in Seq(Msgs)
    <3>1. \/ UNCHANGED <<sent, wire>>
          \/ \E q \in Resent : Publish(taken["Reconnect"], q) /\ sent' = q
      BY <1>14, Zenon DEF ReconnectInstall
    <3>2. CASE UNCHANGED <<sent, wire>>
      BY <3>2, ZenonT(30) DEF TypeOK
    <3> QED
      BY <3>1, <3>2, ResentType, PublishType, Zenon
  <2>4. UNCHANGED <<status, starting, sendVars, semVars, accVars, old, unconfirmed, inbox, frame, nsess, faults,
                    dropped, timerVars, destroyed, timed_out, stop, cbVars, brokerVars>>
    BY <1>14, Zenon DEF ReconnectInstall
  <2> QED
    BY <2>1, <2>2, <2>3, <2>4, ZenonT(30) DEF TypeOK
<1>15. CASE ReconnectOverflow
  <2>1. RunOK(run') /\ sess' \in [Sessions -> SessionStates]
    BY <1>1, <1>15, ClosingType, Zenon DEF ReconnectOverflow, ReconnectSteps
  <2>2. wire' \in [Sessions -> Seq(Msgs)]
    BY <1>15, ResentType, CutShortType, PublishType, Zenon DEF ReconnectOverflow
  <2> QED
    BY <1>15, <2>1, <2>2, ZenonT(30) DEF TypeOK, ReconnectOverflow
<1> QED
  BY <1>3, <1>4, <1>5, <1>6, <1>7, <1>8, <1>9, <1>10, <1>11, <1>12, <1>13, <1>14, <1>15, Zenon
     DEF ConfirmTask, DelayedTask, ReconnectTask

\* stop(), internal_stop and the stream deleted task keep the types.
LEMMA StopTypes ==
    ASSUME Counting, TypeOK,
           StopCall \/ DeletedBegin \/ \E a \in Stoppers : Stop(a)
    PROVE  TypeOK'
<1> DEFINE Takers == {"Delayed", "Reconnect", "stop"}
<1>0. /\ due \in [Tasks -> Nat] /\ destroyed \in [Tasks -> BOOLEAN] /\ stop \in [Stoppers -> StopStates]
      /\ taken \in [Takers -> Sessions \cup {NoClient}] /\ client \in Sessions \cup {NoClient}
      /\ unconfirmed \in SUBSET Msgs /\ pending \in Seq(Msgs)
  BY ZenonT(30) DEF TypeOK
<1>1. CASE StopCall
  <2>1. stop' \in [Stoppers -> StopStates] /\ destroyed' \in [Tasks -> BOOLEAN]
    BY <1>0, <1>1, Zenon DEF StopCall, StopStates
  <2> QED
    BY <1>1, <2>1, ZenonT(30) DEF TypeOK, StopCall
<1>2. CASE DeletedBegin
  <2>1. stop' \in [Stoppers -> StopStates] /\ destroyed' \in [Tasks -> BOOLEAN]
    BY <1>0, <1>2, Zenon DEF DeletedBegin, DeletedInternalStop, StopStates
  <2>2. due' \in [Tasks -> Nat]
    BY <1>0, <1>2 DEF DeletedBegin, Ready, Tasks
  <2> QED
    BY <1>2, <2>1, <2>2, ZenonT(60) DEF TypeOK, DeletedBegin
<1>3. ASSUME NEW a \in Stoppers, StopDestroys(a) PROVE TypeOK'
  <2>1. DestroyOrder[stop[a]] \in StopStates
    <3>1. stop[a] \in {"Deleted", "Batch", "Confirm", "Delayed"}
      BY <1>3, Zenon DEF StopDestroys, DestroyOrder
    <3>2. /\ DestroyOrder["Deleted"] = "Batch" /\ DestroyOrder["Batch"] = "Confirm"
          /\ DestroyOrder["Confirm"] = "Delayed" /\ DestroyOrder["Delayed"] = "Reconnect"
      BY Zenon DEF DestroyOrder
    <3> QED
      BY <3>1, <3>2, Zenon DEF StopStates
  <2>2. stop' \in [Stoppers -> StopStates] /\ destroyed' \in [Tasks -> BOOLEAN]
    BY <1>0, <1>3, <2>1, Zenon DEF StopDestroys
  <2> QED
    BY <1>3, <2>2, ZenonT(60) DEF TypeOK, StopDestroys
<1>4. ASSUME NEW a \in Stoppers, StopExchange(a) \/ StopAccumulator(a) \/ StopSemaphore(a) PROVE TypeOK'
  <2>1. stop' \in [Stoppers -> StopStates]
    BY <1>0, <1>4, Zenon DEF StopExchange, StopAccumulator, StopSemaphore, StopEnd, StopStates
  <2> QED
    BY <1>4, <2>1, ZenonT(60) DEF TypeOK, StopExchange, StopAccumulator, StopSemaphore
<1>5. ASSUME NEW a \in Stoppers, StopClient(a) PROVE TypeOK'
  <2>1. stop' \in [Stoppers -> StopStates] /\ taken' \in [Takers -> Sessions \cup {NoClient}]
    BY <1>0, <1>5, Zenon DEF StopClient, StopStates
  <2>2. sess' \in [Sessions -> SessionStates]
    BY <1>5, ClosingType, Zenon DEF StopClient
  <2> QED
    BY <1>5, <2>1, <2>2, ZenonT(30) DEF TypeOK, StopClient
<1>6. ASSUME NEW a \in Stoppers, StopFail(a) PROVE TypeOK'
  <2>1. stop' \in [Stoppers -> StopStates] /\ taken' \in [Takers -> Sessions \cup {NoClient}]
    BY <1>0, <1>6, Zenon DEF StopFail, StopEnd, StopStates
  <2>2. Failed \in SUBSET Msgs /\ Failed = unconfirmed \cup Elements(pending)
    BY <1>0, ElementsType, Zenon DEF Failed
  <2>3. PICK r \in Codes : Call(Failed, r) /\ ReleasePermits(Failed)
    BY <1>6, <2>2, Zenon DEF StopFail, Codes
  <2>4. calls' \in [Msgs -> Nat] /\ result' \in [Msgs -> Codes \cup {"none"}] /\ available' \in Nat
    BY <2>2, <2>3, CallTypes, Zenon
  <2>5. /\ unconfirmed' = {} /\ pending' = <<>>
        /\ UNCHANGED <<status, starting, sendVars, sem_destroyed, acc_destroyed, old, client, netVars, sessVars,
                       timerVars, destroyed, run, timed_out, brokerVars>>
    BY <1>6, Zenon DEF StopFail
  <2>6. unconfirmed' \in SUBSET Msgs /\ pending' \in Seq(Msgs)
    BY <2>5
  <2>7. UNCHANGED <<status, starting, sendVars, sem_destroyed, acc_destroyed, old, client, netVars, sessVars,
                    timerVars, destroyed, run, timed_out, brokerVars>>
    BY <2>5, SMTT(30)
  <2> QED
    BY <2>1, <2>4, <2>6, <2>7, ZenonT(60) DEF TypeOK
<1> QED
  BY <1>1, <1>2, <1>3, <1>4, <1>5, <1>6, SMTT(30) DEF Stop

\* A producer that has just been built has the right types.
LEMMA TypeInitial == Init => TypeOK
<1> SUFFICES ASSUME Init PROVE TypeOK
  OBVIOUS
<1>1. /\ MaxUnconfirmed \in Nat /\ 0 \in 0 .. MaxSessions /\ 0 \in 0 .. MaxFaults
  BY SizesAssumption, SessionsType
<1>2. NoFrame \in [id : Ids, ok : BOOLEAN, msg : Msgs \cup {NoMsg}]
  BY Zenon DEF NoFrame, Ids
<1>3. /\ status \in {"Initialized", "Starting", "Started", "Stopped"}
      /\ starting \in {"init", "connect", "declare", "finish", "done", "failed"}
      /\ next_id \in Nat /\ id \in [Msgs -> Ids] /\ pc \in [Msgs -> SendStates]
      /\ available \in Nat /\ pending \in Seq(Msgs)
      /\ old \in SUBSET Msgs /\ unconfirmed \in SUBSET Msgs /\ timed_out \in SUBSET Msgs
  BY <1>1 DEF Init, Ids, SendStates
<1>4. /\ client \in Sessions \cup {NoClient} /\ dropped \in Sessions \cup {NoClient}
      /\ sess \in [Sessions -> SessionStates]
      /\ nsess \in 0 .. MaxSessions /\ faults \in 0 .. MaxFaults
      /\ wire \in [Sessions -> Seq(Msgs)] /\ sent \in Seq(Msgs)
  BY <1>1 DEF Init, SessionStates
<1>5. inbox \in [Sessions -> Seq([id : Ids, ok : BOOLEAN])]
  BY DEF Init
<1>6. frame \in [Sessions -> [id : Ids, ok : BOOLEAN, msg : Msgs \cup {NoMsg}]]
  BY <1>2, Zenon DEF Init
<1>7. /\ due \in [Tasks -> Nat] /\ armed \in [Tasks -> BOOLEAN]
      /\ destroyed \in [Tasks -> BOOLEAN]
      /\ run \in [Tasks -> ConfirmSteps \cup ReconnectSteps \cup {"join"}]
      /\ run["Confirm"] \in ConfirmSteps /\ run["Reconnect"] \in ReconnectSteps
      /\ taken \in [{"Delayed", "Reconnect", "stop"} -> Sessions \cup {NoClient}]
      /\ stop \in [Stoppers -> StopStates]
  BY Zenon DEF Init, ConfirmSteps, ReconnectSteps, StopStates, Tasks
<1>8. /\ calls \in [Msgs -> Nat] /\ result \in [Msgs -> Codes \cup {"none"}]
      /\ stored \in [Msgs -> Nat] /\ last_seq \in Ids
  BY Zenon DEF Init, Ids
<1>9. sem_destroyed \in BOOLEAN /\ acc_destroyed \in BOOLEAN
  BY Zenon DEF Init
<1> QED
  BY <1>3, <1>4, <1>5, <1>6, <1>7, <1>8, <1>9, ZenonT(30) DEF TypeOK

\* Every step of every thread, of the broker and of the connections keeps the
\* types.
LEMMA TypeStep == ASSUME Counting, TypeOK, [Next]_vars PROVE TypeOK'
<1>1. CASE UNCHANGED vars
  BY <1>1, ZenonT(60) DEF TypeOK, vars
<1> QED
  BY <1>1, StartTypes, SendTypes, SessionTypes, TaskTypes, StopTypes, Zenon DEF Next, Steps, Inputs

-----------------------------------------------------------------------------
(* Handlers and permits                                                    *)

\* Past send(), a message is in one place at most until it is reported.
Placed == Elements(pending) \cup unconfirmed \cup InFrame \cup timed_out
PlacedIsAccepted == \A m \in Placed : pc[m] \in {"publish", "sent"} /\ calls[m] = 0
OnePlace ==
    /\ Elements(pending) \cap (unconfirmed \cup InFrame \cup timed_out) = {}
    /\ unconfirmed \cap (InFrame \cup timed_out) = {}
    /\ InFrame \cap timed_out = {}

\* Nor do two frame threads, or two entries of m_unconfirmed, share it.
OneFrame == \A s, t \in Sessions : frame[s].msg = frame[t].msg /\ frame[s].msg # NoMsg => s = t
OneUnderAnId == \A m, n \in unconfirmed : id[m] = id[n] => m = n

\* timed_out lives as long as the invocation of check_confirm_timeout.
TimedOutIsLocal == run["Confirm"] = "idle" => timed_out = {}

ReportedIsAccepted == \A m \in Msgs : calls[m] > 0 => pc[m] \in {"publish", "sent"}

IInv ==
    /\ TypeOK
    /\ PlacedIsAccepted /\ OnePlace /\ OneFrame /\ OneUnderAnId /\ TimedOutIsLocal /\ ReportedIsAccepted
    /\ HandlerAtMostOnce /\ PermitsConserved

\* The places of a message hold messages, and the holders of permits are the
\* senders past the semaphore and the placed messages.
LEMMA PlaceTypes ==
    ASSUME TypeOK
    PROVE  /\ Elements(pending) \in SUBSET Msgs /\ unconfirmed \in SUBSET Msgs
           /\ InFrame \in SUBSET Msgs /\ timed_out \in SUBSET Msgs
           /\ Placed \in SUBSET Msgs /\ Holding \in SUBSET Msgs
           /\ Holders = Holding \cup Placed
<1>1. InFrame \in SUBSET Msgs
  BY SMTT(30) DEF InFrame, TypeOK
<1>2. Elements(pending) \in SUBSET Msgs
  BY ElementsType, ZenonT(30) DEF TypeOK
<1>3. unconfirmed \in SUBSET Msgs /\ timed_out \in SUBSET Msgs
  BY ZenonT(30) DEF TypeOK
<1> QED
  BY <1>1, <1>2, <1>3, Zenon DEF Placed, Holding, Holders

\* An empty accumulator, and one that a message has been added to.
LEMMA ElementsFacts ==
    /\ Elements(<<>>) = {}
    /\ \A q \in Seq(Msgs), m \in Msgs : Elements(Append(q, m)) = Elements(q) \cup {m}
<1>1. Elements(<<>>) = {}
  BY DEF Elements
<1>2. ASSUME NEW q \in Seq(Msgs), NEW m \in Msgs
      PROVE  Elements(Append(q, m)) = Elements(q) \cup {m}
  <2>1. /\ Len(q) \in Nat /\ DOMAIN q = 1 .. Len(q)
        /\ DOMAIN Append(q, m) = 1 .. Len(q) + 1
        /\ \A i \in 1 .. Len(q) : Append(q, m)[i] = q[i]
        /\ Append(q, m)[Len(q) + 1] = m
    OBVIOUS
  <2>2. Elements(Append(q, m)) \subseteq Elements(q) \cup {m}
    BY <2>1 DEF Elements
  <2>3. Elements(q) \cup {m} \subseteq Elements(Append(q, m))
    BY <2>1 DEF Elements
  <2> QED
    BY <2>2, <2>3, Zenon
<1> QED
  BY <1>1, <1>2, Zenon

\* Permits released by messages that held one are available again.
LEMMA PermitsReleased ==
    ASSUME Counting, TypeOK, TypeOK', PermitsConserved, NEW R, R \subseteq Holders,
           Holders' = Holders \ R, available' = available + Cardinality(R)
    PROVE  PermitsConserved'
<1>1. Holders \in SUBSET Msgs /\ R \in SUBSET Msgs
  BY PlaceTypes, Zenon
<1>2. Cardinality(Holders) \in Nat /\ Cardinality(R) \in Nat
  BY <1>1, Zenon DEF Counting
<1>3. Cardinality(Holders \ R) = Cardinality(Holders) - Cardinality(R)
  BY <1>1, Zenon DEF Counting
<1>4. available \in Nat /\ MaxUnconfirmed \in Nat
  BY SizesAssumption, ZenonT(30) DEF TypeOK
<1>5. Cardinality(Holders') = Cardinality(Holders) - Cardinality(R)
  BY <1>3, Zenon
<1> QED
  BY <1>2, <1>4, <1>5, SMTT(30) DEF PermitsConserved

\* Who holds a permit, and what is available, has not changed.
LEMMA PermitsKept ==
    ASSUME PermitsConserved, Holders' = Holders, available' = available
    PROVE  PermitsConserved'
  BY Zenon DEF PermitsConserved

\* Calling the handlers of some placed messages, for the first time.
LEMMA CallsOnce ==
    ASSUME IInv, NEW R, R \subseteq Placed, NEW r, Call(R, r)
    PROVE  /\ HandlerAtMostOnce'
           /\ \A m \in Msgs : calls'[m] = IF m \in R THEN 1 ELSE calls[m]
<1>1. \A m \in Msgs : calls[m] \in Nat
  BY Zenon DEF IInv, TypeOK
<1>2. \A m \in R : m \in Msgs /\ calls[m] = 0
  BY PlaceTypes, Zenon DEF IInv, PlacedIsAccepted
<1>3. \A m \in Msgs : calls'[m] = IF m \in R THEN calls[m] + 1 ELSE calls[m]
  BY Zenon DEF Call
<1>4. \A m \in Msgs : calls'[m] = IF m \in R THEN 1 ELSE calls[m]
  BY <1>2, <1>3, SMTT(30)
<1> QED
  BY <1>1, <1>4, SMTT(30) DEF IInv, HandlerAtMostOnce

\* Steps that touch nothing the invariant is about.
LEMMA QuietStep ==
    ASSUME IInv, TypeOK',
           UNCHANGED <<id, pc, available, pending, unconfirmed, frame, timed_out, calls>>,
           run'["Confirm"] = run["Confirm"]
    PROVE  IInv'
<1>1. UNCHANGED <<Elements(pending), InFrame, Holding>>
  BY Zenon DEF Elements, InFrame, Holding
<1>2. UNCHANGED <<Placed, Holders>>
  BY <1>1, SMTT(30) DEF Placed, Holders
<1>3. PermitsConserved' /\ HandlerAtMostOnce' /\ ReportedIsAccepted' /\ OneFrame' /\ OneUnderAnId'
  BY <1>2, SMTT(30) DEF IInv, PermitsConserved, HandlerAtMostOnce, ReportedIsAccepted, OneFrame, OneUnderAnId
<1>4. PlacedIsAccepted' /\ OnePlace' /\ TimedOutIsLocal'
  BY <1>1, <1>2, Zenon DEF IInv, PlacedIsAccepted, OnePlace, TimedOutIsLocal
<1> QED
  BY <1>3, <1>4, Zenon DEF IInv

\* A step of a send() whose message is not yet in the accumulator.
LEMMA SenderStep ==
    ASSUME IInv, NEW m \in Msgs, pc[m] \notin {"publish", "sent"},
           \A n \in Msgs : n # m => pc'[n] = pc[n] /\ id'[n] = id[n],
           UNCHANGED <<pending, unconfirmed, frame, timed_out, calls, run>>
    PROVE  /\ Placed' = Placed /\ m \notin Placed
           /\ PlacedIsAccepted' /\ OnePlace' /\ OneFrame' /\ OneUnderAnId' /\ TimedOutIsLocal'
           /\ ReportedIsAccepted' /\ HandlerAtMostOnce'
<1>1. UNCHANGED <<Elements(pending), InFrame>>
  BY Zenon DEF Elements, InFrame
<1>2. Placed' = Placed /\ Placed \in SUBSET Msgs /\ unconfirmed \subseteq Placed
  BY <1>1, PlaceTypes, Zenon DEF Placed, IInv
<1>3. m \notin Placed
  BY ZenonT(30) DEF IInv, PlacedIsAccepted
<1>4. OneFrame' /\ TimedOutIsLocal' /\ HandlerAtMostOnce'
  BY Zenon DEF IInv, OneFrame, TimedOutIsLocal, HandlerAtMostOnce
<1>5. OnePlace'
  BY <1>1, Zenon DEF IInv, OnePlace
<1>6. PlacedIsAccepted' /\ OneUnderAnId'
  BY <1>2, <1>3, SMTT(30) DEF IInv, PlacedIsAccepted, OneUnderAnId
<1>7. ReportedIsAccepted'
  BY Zenon DEF IInv, ReportedIsAccepted
<1> QED
  BY <1>2, <1>3, <1>4, <1>5, <1>6, <1>7, Zenon

\* send() up to the accumulator keeps the invariant.
LEMMA SendKeepsInv ==
    ASSUME Counting, IInv, TypeOK', NEW m \in Msgs,
           \/ SendBegin(m) \/ Acquire(m) \/ AcquireFails(m) \/ AddFails(m) \/ AddWaits(m) \/ Add(m)
    PROVE  IInv'
<1>0. /\ pc \in [Msgs -> SendStates] /\ id \in [Msgs -> Ids] /\ available \in Nat /\ pending \in Seq(Msgs)
      /\ Placed \in SUBSET Msgs /\ Holding \in SUBSET Msgs /\ Holders = Holding \cup Placed
      /\ MaxUnconfirmed \in Nat
  BY PlaceTypes, SizesAssumption, Zenon DEF IInv, TypeOK
<1>1. Holders' = Holding' \cup Placed'
  BY Zenon DEF Holders, Placed
<1>2. CASE SendBegin(m)
  <2>1. /\ pc[m] = "new" /\ pc'[m] \in {"acquire", "rejected"}
        /\ \A n \in Msgs : n # m => pc'[n] = pc[n] /\ id'[n] = id[n]
        /\ UNCHANGED <<pending, unconfirmed, frame, timed_out, calls, run, available>>
    BY <1>0, <1>2, Zenon DEF SendBegin
  <2>2. Holding' = Holding
    BY <2>1, Zenon DEF Holding
  <2>3. PermitsConserved'
    BY <1>0, <1>1, <2>1, <2>2, SenderStep, PermitsKept, Zenon DEF IInv
  <2> QED
    BY <2>1, <2>3, SenderStep, Zenon DEF IInv
<1>3. CASE Acquire(m)
  <2>1. /\ pc[m] = "acquire" /\ pc'[m] = "add" /\ available' = available - 1
        /\ \A n \in Msgs : n # m => pc'[n] = pc[n] /\ id'[n] = id[n]
        /\ UNCHANGED <<pending, unconfirmed, frame, timed_out, calls, run>>
    BY <1>0, <1>3, Zenon DEF Acquire
  <2>2. Holding' = Holding \cup {m} /\ m \notin Holding
    BY <2>1, Zenon DEF Holding
  <2>3. Placed' = Placed /\ m \notin Placed
    BY <2>1, SenderStep, Zenon
  <2>4. Holders' = Holders \cup {m} /\ m \notin Holders /\ Holders \in SUBSET Msgs
    BY <1>0, <1>1, <2>2, <2>3, Zenon
  <2>5. Cardinality(Holders') = Cardinality(Holders) + 1 /\ Cardinality(Holders) \in Nat
    BY <2>4, Zenon DEF Counting
  <2>6. PermitsConserved'
    BY <1>0, <2>1, <2>5, SMTT(30) DEF PermitsConserved, IInv
  <2> QED
    BY <2>1, <2>6, SenderStep, ZenonT(30) DEF IInv
<1>4. CASE AcquireFails(m) \/ AddWaits(m)
  <2>1. /\ \/ pc[m] = "acquire" /\ pc'[m] = "rejected"
           \/ pc[m] = "add" /\ pc'[m] = "wait"
        /\ \A n \in Msgs : n # m => pc'[n] = pc[n] /\ id'[n] = id[n]
        /\ UNCHANGED <<pending, unconfirmed, frame, timed_out, calls, run, available>>
    BY <1>0, <1>4, Zenon DEF AcquireFails, AddWaits
  <2>2. Holding' = Holding
    BY <2>1, Zenon DEF Holding
  <2>3. PermitsConserved'
    BY <1>0, <1>1, <2>1, <2>2, SenderStep, PermitsKept, Zenon DEF IInv
  <2> QED
    BY <2>1, <2>3, SenderStep, Zenon DEF IInv
<1>5. CASE AddFails(m)
  <2>1. /\ pc[m] \in {"add", "wait"} /\ pc'[m] = "rejected"
        /\ available' = available + Cardinality({m})
        /\ \A n \in Msgs : n # m => pc'[n] = pc[n] /\ id'[n] = id[n]
        /\ UNCHANGED <<pending, unconfirmed, frame, timed_out, calls, run>>
    BY <1>0, <1>5, Zenon DEF AddFails, PermitReturned, ReleasePermits
  <2>2. Holding' = Holding \ {m} /\ m \in Holding
    BY <2>1, Zenon DEF Holding
  <2>3. Placed' = Placed /\ m \notin Placed
    BY <2>1, SenderStep, Zenon
  <2>4. Holders' = Holders \ {m} /\ {m} \subseteq Holders
    BY <1>0, <1>1, <2>2, <2>3, Zenon
  <2>5. PermitsConserved'
    BY <2>1, <2>4, PermitsReleased, Zenon DEF IInv
  <2> QED
    BY <2>1, <2>5, SenderStep, Zenon DEF IInv
<1>6. CASE Add(m)
  <2>1. /\ pc[m] \in {"add", "wait"} /\ pc'[m] \in {"publish", "sent"}
        /\ \A n \in Msgs : n # m => pc'[n] = pc[n]
        /\ pending' = Append(pending, m)
        /\ UNCHANGED <<id, unconfirmed, frame, timed_out, calls, run, available>>
    BY <1>0, <1>6, Zenon DEF Add
  <2>2. Elements(pending)' = Elements(pending) \cup {m} /\ InFrame' = InFrame
    BY <1>0, <2>1, ElementsFacts, ZenonT(60) DEF InFrame
  <2>3. Placed' = Placed \cup {m} /\ m \notin Placed /\ m \in Holding /\ Holding' = Holding \ {m}
    BY <2>1, <2>2, Zenon DEF Placed, Holding, IInv, PlacedIsAccepted
  <2>4. Holders' = Holders
    BY <1>0, <1>1, <2>3, Zenon
  <2>5. PermitsConserved'
    BY <2>1, <2>4, PermitsKept, Zenon DEF IInv
  <2>6. calls[m] = 0
    <3>1. calls[m] \in Nat
      BY Zenon DEF IInv, TypeOK
    <3>2. ~(calls[m] > 0)
      BY <2>1, Zenon DEF IInv, ReportedIsAccepted
    <3> QED
      BY <3>1, <3>2, SMTT(30)
  <2>7. PlacedIsAccepted' /\ ReportedIsAccepted'
    BY <1>0, <2>1, <2>3, <2>6, Zenon DEF IInv, PlacedIsAccepted, ReportedIsAccepted
  <2>8. OnePlace'
    BY <2>1, <2>2, <2>3, SMTT(30) DEF IInv, OnePlace, Placed
  <2>9. OneFrame' /\ OneUnderAnId' /\ TimedOutIsLocal' /\ HandlerAtMostOnce'
    BY <2>1, Zenon DEF IInv, OneFrame, OneUnderAnId, TimedOutIsLocal, HandlerAtMostOnce
  <2> QED
    BY <2>5, <2>7, <2>8, <2>9, Zenon DEF IInv
<1> QED
  BY <1>2, <1>3, <1>4, <1>5, <1>6, Zenon

\* What publish_batch enters into m_unconfirmed comes from the batch, and has
\* ids of its own.
LEMMA EmplacedFacts ==
    ASSUME IInv
    PROVE  /\ Emplaced(pending) \subseteq Elements(pending)
           /\ \A m, n \in unconfirmed \cup Emplaced(pending) : id[m] = id[n] => m = n
<1>1. Emplaced(pending) \subseteq Elements(pending)
  BY SMTT(30) DEF Emplaced, Elements
<1>2. \A m \in Emplaced(pending), u \in unconfirmed : id[m] # id[u]
  BY Zenon DEF Emplaced
<1>3. ASSUME NEW m \in Emplaced(pending), NEW n \in Emplaced(pending), id[m] = id[n]
      PROVE  m = n
  <2>1. DOMAIN pending = 1 .. Len(pending) /\ Len(pending) \in Nat
    BY SequenceTypes, Zenon DEF IInv, TypeOK
  <2>2. PICK i \in DOMAIN pending : m = pending[i] /\ \A k \in 1 .. i - 1 : id[pending[k]] # id[pending[i]]
    BY ZenonT(30) DEF Emplaced
  <2>3. PICK j \in DOMAIN pending : n = pending[j] /\ \A k \in 1 .. j - 1 : id[pending[k]] # id[pending[j]]
    BY Zenon DEF Emplaced
  <2>4. i \notin 1 .. j - 1 /\ j \notin 1 .. i - 1
    BY <1>3, <2>2, <2>3, Zenon
  <2>5. i = j
    BY <2>1, <2>4, SMTT(30)
  <2> QED
    BY <2>2, <2>3, <2>5, SMTT(30)
<1>4. \A m, n \in unconfirmed : id[m] = id[n] => m = n
  BY Zenon DEF IInv, OneUnderAnId
<1> QED
  BY <1>1, <1>2, <1>3, <1>4, Zenon

\* publish_batch keeps the invariant, whoever calls it.
LEMMA PublishBatchKeepsInv ==
    ASSUME Counting, IInv, TypeOK', publish_batch,
           \A m \in Msgs : pc'[m] = pc[m] \/ (pc[m] = "publish" /\ pc'[m] = "sent")
    PROVE  IInv'
<1>0. Placed \in SUBSET Msgs /\ Holders = Holding \cup Placed /\ Holders' = Holding' \cup Placed'
  BY PlaceTypes, Zenon DEF IInv, Holders, Placed
<1>1. UNCHANGED <<id, frame, timed_out, calls, run>>
  BY ZenonT(30) DEF publish_batch
<1>2. InFrame' = InFrame /\ Holding' = Holding
  BY <1>1, Zenon DEF InFrame, Holding
<1>3. OneFrame' /\ TimedOutIsLocal' /\ HandlerAtMostOnce'
  BY <1>1, ZenonT(30) DEF IInv, OneFrame, TimedOutIsLocal, HandlerAtMostOnce
<1>4. ReportedIsAccepted'
  BY <1>1, Zenon DEF IInv, ReportedIsAccepted
<1>5. \A m \in Placed : pc'[m] \in {"publish", "sent"} /\ calls'[m] = 0
  BY <1>0, <1>1, Zenon DEF IInv, PlacedIsAccepted
<1>6. CASE status # "Started"
  <2>1. UNCHANGED <<pending, unconfirmed, available>>
    BY <1>6, Zenon DEF publish_batch
  <2>2. Elements(pending)' = Elements(pending)
    BY <2>1, SMTT(30) DEF Elements
  <2>3. Placed' = Placed
    BY <1>1, <1>2, <2>1, <2>2, Zenon DEF Placed
  <2>4. PermitsConserved'
    BY <1>0, <1>2, <2>1, <2>3, PermitsKept, Zenon DEF IInv
  <2>5. OnePlace' /\ OneUnderAnId' /\ PlacedIsAccepted'
    BY <1>1, <1>2, <1>5, <2>1, <2>2, <2>3, Zenon DEF IInv, OnePlace, OneUnderAnId, PlacedIsAccepted
  <2> QED
    BY <1>3, <1>4, <2>4, <2>5, Zenon DEF IInv
<1>7. CASE status = "Started"
  <2> DEFINE E == Elements(pending)
             P == Emplaced(pending)
  <2>1. /\ pending' = <<>> /\ unconfirmed' = unconfirmed \cup P
        /\ available' = available + Cardinality(E \ P)
    BY <1>7, ZenonT(30) DEF publish_batch, ReleasePermits
  <2>2. Elements(pending)' = {}
    BY <2>1, ElementsFacts, SMTT(30)
  <2>3. P \subseteq E /\ \A m, n \in unconfirmed \cup P : id[m] = id[n] => m = n
    BY EmplacedFacts, SMTT(30)
  <2>4. OneUnderAnId'
    BY <1>1, <2>1, <2>3, Zenon DEF OneUnderAnId
  <2> HIDE DEF E, P
  <2>5. E \cap (unconfirmed \cup InFrame \cup timed_out) = {} /\ Placed = E \cup unconfirmed \cup InFrame \cup timed_out
    BY Zenon DEF E, Placed, IInv, OnePlace
  <2>6. Placed' = P \cup unconfirmed \cup InFrame \cup timed_out
    BY <1>1, <1>2, <2>1, <2>2, Zenon DEF Placed
  <2>7. Placed' = Placed \ (E \ P)
    BY <2>3, <2>5, <2>6, Zenon
  <2>8. Holding \cap Placed = {}
    BY Zenon DEF Holding, IInv, PlacedIsAccepted
  <2>9. Holders' = Holders \ (E \ P) /\ (E \ P) \subseteq Holders
    BY <1>0, <1>2, <2>5, <2>7, <2>8, Zenon
  <2>10. PermitsConserved'
    BY <2>1, <2>9, PermitsReleased, SMTT(30) DEF IInv
  <2>11. PlacedIsAccepted'
    BY <1>5, <2>7, SMTT(30) DEF PlacedIsAccepted
  <2>12. OnePlace'
    BY <1>1, <1>2, <2>1, <2>2, <2>3, <2>5, Zenon DEF IInv, OnePlace
  <2> QED
    BY <1>3, <1>4, <2>4, <2>10, <2>11, <2>12, Zenon DEF IInv
<1> QED
  BY <1>6, <1>7, Zenon

\* The answers of the broker keep the invariant: a message that the frame
\* thread takes out of m_unconfirmed is reported by that thread alone.
LEMMA AnswerKeepsInv ==
    ASSUME Counting, IInv, TypeOK', NEW s \in Sessions,
           ReadAnswer(s) \/ HandleAnswer(s) \/ CallHandler(s)
    PROVE  IInv'
<1>0. /\ frame \in [Sessions -> [id : Ids, ok : BOOLEAN, msg : Msgs \cup {NoMsg}]]
      /\ unconfirmed \in SUBSET Msgs /\ NoMsg \notin Msgs /\ NoFrame.msg = NoMsg
      /\ Placed \in SUBSET Msgs /\ Holders = Holding \cup Placed /\ Holders' = Holding' \cup Placed'
  BY PlaceTypes, MsgsAssumption, Zenon DEF IInv, TypeOK, Holders, Placed, NoFrame
<1>1. /\ UNCHANGED <<id, pc, pending, timed_out, run>>
      /\ \A t \in Sessions : t # s => frame'[t] = frame[t]
  BY <1>0, SMTT(30) DEF ReadAnswer, HandleAnswer, CallHandler
<1>2. UNCHANGED <<Elements(pending), Holding>>
  BY <1>1, Zenon DEF Elements, Holding
<1>3. TimedOutIsLocal'
  BY <1>1, Zenon DEF IInv, TimedOutIsLocal
<1>4. ASSUME frame'[s].msg = NoMsg, frame[s].msg = NoMsg, UNCHANGED <<available, calls>>,
             unconfirmed' = unconfirmed
      PROVE  IInv'
  <2>1. \A t \in Sessions : frame'[t].msg = frame[t].msg
    BY <1>1, <1>4, Zenon
  <2>2. InFrame' = InFrame /\ OneFrame'
    BY <2>1, SMTT(30) DEF InFrame, OneFrame, IInv
  <2>3. Placed' = Placed /\ Holders' = Holders
    BY <1>0, <1>1, <1>2, <1>4, <2>2, Zenon DEF Placed
  <2>4. PermitsConserved'
    BY <1>4, <2>3, PermitsKept, Zenon DEF IInv
  <2>5. HandlerAtMostOnce' /\ ReportedIsAccepted' /\ OneUnderAnId'
    BY <1>1, <1>4, Zenon DEF IInv, HandlerAtMostOnce, ReportedIsAccepted, OneUnderAnId
  <2>6. PlacedIsAccepted' /\ OnePlace'
    BY <1>1, <1>2, <1>4, <2>2, <2>3, Zenon DEF IInv, PlacedIsAccepted, OnePlace
  <2> QED
    BY <1>3, <2>2, <2>4, <2>5, <2>6, Zenon DEF IInv
<1>5. CASE ReadAnswer(s)
  <2>1. frame'[s].msg = NoMsg /\ frame[s].msg = NoMsg
    BY <1>0, <1>5, Zenon DEF ReadAnswer
  <2> QED
    BY <1>4, <1>5, <2>1, Zenon DEF ReadAnswer
<1>6. CASE HandleAnswer(s)
  <2>1. /\ frame[s].msg = NoMsg /\ UNCHANGED <<available, calls>>
        /\ unconfirmed' = {m \in unconfirmed : id[m] # frame[s].id}
    BY <1>6, Zenon DEF HandleAnswer, Erased
  <2>2. CASE \A m \in unconfirmed : id[m] # frame[s].id
    <3>1. unconfirmed' = unconfirmed
      BY <2>1, <2>2, Zenon
    <3>2. frame' = [frame EXCEPT ![s] = NoFrame]
      BY <1>6, <2>2, Zenon DEF HandleAnswer
    <3>3. frame'[s].msg = NoMsg
      BY <1>0, <3>2, Zenon
    <3> QED
      BY <1>4, <2>1, <3>1, <3>3, Zenon
  <2>3. CASE \E m \in unconfirmed : id[m] = frame[s].id
    <3>1. PICK m \in unconfirmed : id[m] = frame[s].id /\ frame' = [frame EXCEPT ![s].msg = m]
      BY <1>6, <2>3, Zenon DEF HandleAnswer
    <3>2. frame'[s].msg = m /\ m \in Msgs /\ m # NoMsg
      BY <1>0, <3>1, Zenon
    <3>3. unconfirmed' = unconfirmed \ {m}
      BY <2>1, <3>1, Zenon DEF IInv, OneUnderAnId
    <3>4. InFrame' = InFrame \cup {m}
      <4>1. \A t \in Sessions : t # s => frame'[t].msg = frame[t].msg
        BY <1>1, Zenon
      <4> QED
        BY <2>1, <3>2, <4>1, Zenon DEF InFrame
    <3>5. m \notin InFrame /\ m \notin timed_out /\ m \notin Elements(pending)
      BY Zenon DEF IInv, OnePlace
    <3>6. Placed' = Placed /\ Holders' = Holders
      BY <1>0, <1>1, <1>2, <3>3, <3>4, Zenon DEF Placed
    <3>7. PermitsConserved'
      BY <2>1, <3>6, PermitsKept, Zenon DEF IInv
    <3>8. OneFrame'
      <4>1. \A t \in Sessions : t # s => frame'[t].msg = frame[t].msg /\ frame[t].msg # m
        BY <1>1, <3>2, <3>5, Zenon DEF InFrame
      <4> QED
        BY <3>2, <4>1, Zenon DEF IInv, OneFrame
    <3>9. OneUnderAnId' /\ HandlerAtMostOnce' /\ ReportedIsAccepted'
      BY <1>1, <2>1, <3>3, Zenon DEF IInv, OneUnderAnId, HandlerAtMostOnce, ReportedIsAccepted
    <3>10. PlacedIsAccepted' /\ OnePlace'
      <4>1. PlacedIsAccepted'
        BY <1>1, <1>2, <2>1, <3>3, <3>4, <3>5, <3>6, Zenon DEF IInv, PlacedIsAccepted
      <4>2. OnePlace'
        BY <1>1, <1>2, <2>1, <3>3, <3>4, <3>5, <3>6, ZenonT(60) DEF IInv, OnePlace
      <4> QED
        BY <4>1, <4>2, Zenon
    <3> QED
      BY <1>3, <3>7, <3>8, <3>9, <3>10, Zenon DEF IInv
  <2> QED
    BY <2>2, <2>3, Zenon
<1>7. CASE CallHandler(s)
  <2> DEFINE m == frame[s].msg
  <2>1. /\ m # NoMsg /\ Call({m}, AnswerCode(frame[s].ok)) /\ available' = available + Cardinality({m})
        /\ frame' = [frame EXCEPT ![s] = NoFrame] /\ unconfirmed' = unconfirmed
    BY <1>7, Zenon DEF CallHandler, ReleasePermits
  <2>2. m \in Msgs /\ m \in InFrame
    BY <1>0, <2>1, SMTT(30) DEF InFrame
  <2>3. frame'[s].msg = NoMsg /\ \A t \in Sessions : t # s => frame'[t].msg = frame[t].msg /\ frame[t].msg # m
    BY <1>0, <1>1, <2>1, Zenon DEF IInv, OneFrame
  <2>4. InFrame' = InFrame \ {m}
    BY <2>1, <2>3, ZenonT(60) DEF InFrame
  <2>5. OneFrame'
    BY <2>3, Zenon DEF IInv, OneFrame
  <2> HIDE DEF m
  <2>6. m \in Placed /\ m \notin Elements(pending) /\ m \notin unconfirmed /\ m \notin timed_out /\ m \notin Holding
    BY <2>2, Zenon DEF Placed, IInv, OnePlace, PlacedIsAccepted, Holding
  <2>7. Placed' = Placed \ {m}
    BY <1>1, <1>2, <2>1, <2>4, <2>6, Zenon DEF Placed
  <2>8. Holders' = Holders \ {m} /\ {m} \subseteq Holders
    BY <1>0, <1>2, <2>6, <2>7, Zenon
  <2>9. PermitsConserved'
    BY <2>1, <2>8, PermitsReleased, Zenon DEF IInv
  <2>10. HandlerAtMostOnce' /\ \A n \in Msgs : calls'[n] = IF n \in {m} THEN 1 ELSE calls[n]
    BY <2>1, <2>6, CallsOnce, Zenon
  <2>11. pc[m] \in {"publish", "sent"}
    BY <2>6, Zenon DEF IInv, PlacedIsAccepted
  <2>12. ReportedIsAccepted'
    BY <1>1, <2>10, <2>11, Zenon DEF IInv, ReportedIsAccepted
  <2>13. PlacedIsAccepted'
    BY <1>0, <1>1, <2>7, <2>10, ZenonT(30) DEF IInv, PlacedIsAccepted
  <2>14. OnePlace' /\ OneUnderAnId'
    BY <1>1, <1>2, <2>1, <2>4, Zenon DEF IInv, OnePlace, OneUnderAnId
  <2> QED
    BY <1>3, <2>5, <2>9, <2>10, <2>12, <2>13, <2>14, Zenon DEF IInv
<1> QED
  BY <1>5, <1>6, <1>7, Zenon

\* check_confirm_timeout keeps the invariant: what it moves from m_unconfirmed
\* to timed_out is out of the reach of the frame threads and of stop().
LEMMA ConfirmKeepsInv ==
    ASSUME Counting, IInv, TypeOK', ConfirmScan \/ ConfirmCall
    PROVE  IInv'
<1>0. /\ Placed \in SUBSET Msgs /\ Holders = Holding \cup Placed /\ Holders' = Holding' \cup Placed'
      /\ run \in [Tasks -> ConfirmSteps \cup ReconnectSteps \cup {"join"}]
  BY PlaceTypes, ZenonT(30) DEF IInv, TypeOK, Holders, Placed
<1>1. UNCHANGED <<id, pc, pending, frame>>
  BY Zenon DEF ConfirmScan, ConfirmCall
<1>2. UNCHANGED <<Elements(pending), InFrame, Holding>>
  BY <1>1, Zenon DEF Elements, InFrame, Holding
<1>3. OneFrame'
  BY <1>1, Zenon DEF IInv, OneFrame
<1>4. CASE ConfirmScan
  <2>1. /\ timed_out = {} /\ timed_out' = TimedOut /\ TimedOut \subseteq unconfirmed
        /\ unconfirmed' = unconfirmed \ TimedOut
        /\ UNCHANGED <<available, calls>>
    BY <1>4, ZenonT(30) DEF ConfirmScan, Ready, IInv, TimedOutIsLocal, TimedOut
  <2>2. run'["Confirm"] # "idle"
    BY <1>0, <1>4, Zenon DEF ConfirmScan, Tasks
  <2>3. Placed' = Placed /\ Holders' = Holders
    BY <1>0, <1>2, <2>1, Zenon DEF Placed
  <2>4. PermitsConserved'
    BY <2>1, <2>3, PermitsKept, Zenon DEF IInv
  <2>5. OneUnderAnId' /\ HandlerAtMostOnce' /\ ReportedIsAccepted' /\ TimedOutIsLocal'
    BY <1>1, <2>1, <2>2, ZenonT(30) DEF IInv, OneUnderAnId, HandlerAtMostOnce, ReportedIsAccepted, TimedOutIsLocal
  <2>6. PlacedIsAccepted'
    BY <1>1, <2>1, <2>3, Zenon DEF IInv, PlacedIsAccepted
  <2>7. OnePlace'
    BY <1>2, <2>1, SMTT(30) DEF IInv, OnePlace
  <2> QED
    BY <1>3, <2>4, <2>5, <2>6, <2>7, Zenon DEF IInv
<1>5. CASE ConfirmCall
  <2>1. /\ Call(timed_out, run["Confirm"]) /\ available' = available + Cardinality(timed_out)
        /\ timed_out' = {} /\ unconfirmed' = unconfirmed
    BY <1>5, SMTT(30) DEF ConfirmCall, ReleasePermits
  <2>2. /\ timed_out \subseteq Placed /\ timed_out \cap (Elements(pending) \cup unconfirmed \cup InFrame) = {}
        /\ timed_out \cap Holding = {}
    BY Zenon DEF Placed, IInv, OnePlace, PlacedIsAccepted, Holding
  <2>3. Placed' = Placed \ timed_out
    BY <1>2, <2>1, <2>2, Zenon DEF Placed
  <2>4. Holders' = Holders \ timed_out /\ timed_out \subseteq Holders
    BY <1>0, <1>2, <2>2, <2>3, Zenon
  <2>5. PermitsConserved'
    BY <2>1, <2>4, PermitsReleased, SMTT(30) DEF IInv
  <2>6. HandlerAtMostOnce' /\ \A n \in Msgs : calls'[n] = IF n \in timed_out THEN 1 ELSE calls[n]
    BY <2>1, <2>2, CallsOnce, SMTT(30)
  <2>7. \A n \in timed_out : pc[n] \in {"publish", "sent"}
    BY <2>2, Zenon DEF IInv, PlacedIsAccepted
  <2>8. ReportedIsAccepted'
    BY <1>1, <2>6, <2>7, SMTT(30) DEF IInv, ReportedIsAccepted
  <2>9. PlacedIsAccepted'
    BY <1>0, <1>1, <2>3, <2>6, Zenon DEF IInv, PlacedIsAccepted
  <2>10. OnePlace' /\ OneUnderAnId' /\ TimedOutIsLocal'
    BY <1>1, <1>2, <2>1, SMTT(30) DEF IInv, OnePlace, OneUnderAnId, TimedOutIsLocal
  <2> QED
    BY <1>3, <2>5, <2>6, <2>8, <2>9, <2>10, SMTT(30) DEF IInv
<1> QED
  BY <1>4, <1>5, Zenon

\* fail_all_unconfirmed keeps the invariant.
LEMMA StopFailKeepsInv ==
    ASSUME Counting, IInv, TypeOK', NEW a \in Stoppers, StopFail(a)
    PROVE  IInv'
<1>0. /\ Placed \in SUBSET Msgs /\ Holders = Holding \cup Placed /\ Holders' = Holding' \cup Placed'
      /\ Elements(<<>>) = {}
  BY PlaceTypes, ElementsFacts, SMTT(30) DEF IInv, Holders, Placed
<1>1. /\ UNCHANGED <<id, pc, frame, timed_out, run>> /\ unconfirmed' = {} /\ pending' = <<>>
      /\ available' = available + Cardinality(Failed)
      /\ \E r \in Codes : Call(Failed, r)
  BY Zenon DEF StopFail, ReleasePermits, Failed, Codes
<1>2. UNCHANGED <<InFrame, Holding>> /\ Elements(pending)' = {}
  BY <1>0, <1>1, Zenon DEF InFrame, Holding
<1>3. Failed \subseteq Placed /\ Failed \cap (InFrame \cup timed_out) = {} /\ Failed \cap Holding = {}
  BY ZenonT(30) DEF Failed, Placed, IInv, OnePlace, PlacedIsAccepted, Holding
<1>4. Placed' = Placed \ Failed
  BY <1>1, <1>2, <1>3, Zenon DEF Placed, Failed
<1>5. Holders' = Holders \ Failed /\ Failed \subseteq Holders
  BY <1>0, <1>2, <1>3, <1>4, Zenon
<1>6. PermitsConserved'
  BY <1>1, <1>5, PermitsReleased, Zenon DEF IInv
<1>7. HandlerAtMostOnce' /\ \A n \in Msgs : calls'[n] = IF n \in Failed THEN 1 ELSE calls[n]
  BY <1>1, <1>3, CallsOnce, ZenonT(30)
<1>8. \A n \in Failed : pc[n] \in {"publish", "sent"}
  BY <1>3, Zenon DEF IInv, PlacedIsAccepted
<1>9. ReportedIsAccepted'
  BY <1>1, <1>7, <1>8, Zenon DEF IInv, ReportedIsAccepted
<1>10. PlacedIsAccepted'
  BY <1>0, <1>1, <1>4, <1>7, ZenonT(30) DEF IInv, PlacedIsAccepted
<1>11. OnePlace' /\ OneUnderAnId' /\ TimedOutIsLocal' /\ OneFrame'
  BY <1>1, <1>2, Zenon DEF IInv, OnePlace, OneUnderAnId, TimedOutIsLocal, OneFrame
<1> QED
  BY <1>6, <1>7, <1>9, <1>10, <1>11, SMTT(30) DEF IInv

\* A producer that has just been built satisfies the invariant.
LEMMA InvInitial == ASSUME Counting, Init PROVE IInv
<1>1. TypeOK
  BY TypeInitial, SMTT(30)
<1>2. /\ pending = <<>> /\ unconfirmed = {} /\ timed_out = {} /\ frame = [s \in Sessions |-> NoFrame]
      /\ available = MaxUnconfirmed /\ pc = [m \in Msgs |-> "new"] /\ calls = [m \in Msgs |-> 0]
  BY SMTT(30) DEF Init
<1>3. Elements(pending) = {} /\ InFrame = {} /\ Holding = {}
  BY <1>2, ElementsFacts, Zenon DEF InFrame, NoFrame, Holding
<1>4. Placed = {} /\ Holders = {}
  BY <1>2, <1>3, Zenon DEF Placed, Holders
<1>5. PermitsConserved
  BY <1>2, <1>4, SizesAssumption, SMTT(30) DEF PermitsConserved, Counting
<1>6. PlacedIsAccepted /\ OnePlace /\ OneUnderAnId /\ TimedOutIsLocal
  BY <1>2, <1>3, <1>4, ZenonT(30) DEF PlacedIsAccepted, OnePlace, OneUnderAnId, TimedOutIsLocal
<1>7. OneFrame
  BY <1>2, Zenon DEF OneFrame, NoFrame
<1>8. ReportedIsAccepted /\ HandlerAtMostOnce
  BY <1>2, SMTT(30) DEF ReportedIsAccepted, HandlerAtMostOnce
<1> QED
  BY <1>1, <1>5, <1>6, <1>7, <1>8, Zenon DEF IInv

\* Every step keeps the invariant; most do not touch what it is about.
LEMMA InvStep == ASSUME Counting, IInv, [Next]_vars PROVE IInv'
<1> DEFINE Quiet == /\ UNCHANGED <<id, pc, available, pending, unconfirmed, frame, timed_out, calls>>
                    /\ run'["Confirm"] = run["Confirm"]
<1>1. TypeOK'
  BY TypeStep, Zenon DEF IInv
<1>2. run \in [Tasks -> ConfirmSteps \cup ReconnectSteps \cup {"join"}] /\ pc \in [Msgs -> SendStates]
  BY ZenonT(30) DEF IInv, TypeOK
<1>3. Quiet => IInv'
  BY <1>1, QuietStep, Zenon
<1> HIDE DEF Quiet
<1>4. CASE Start
  <2>1. Quiet
    BY <1>4, Zenon DEF Start, StartBegin, StartConnect, StartDeclare, StartFinish, Quiet
  <2> QED
    BY <1>3, <2>1, Zenon
<1>5. CASE flush \/ BatchTask
  BY <1>1, <1>5, PublishBatchKeepsInv, Zenon DEF flush, BatchTask
<1>6. CASE \E m \in Msgs : SendBegin(m) \/ Send(m)
  <2>1. PICK m \in Msgs : SendBegin(m) \/ Send(m)
    BY <1>6, SMTT(30)
  <2>2. CASE SendPublish(m)
    <3>1. publish_batch /\ \A n \in Msgs : pc'[n] = pc[n] \/ (pc[n] = "publish" /\ pc'[n] = "sent")
      BY <1>2, <2>2, Zenon DEF SendPublish
    <3> QED
      BY <1>1, <3>1, PublishBatchKeepsInv, Zenon
  <2> QED
    BY <1>1, <2>1, <2>2, SendKeepsInv, Zenon DEF Send
<1>7. CASE StopCall \/ DeletedBegin \/ TimePasses
  <2>1. Quiet
    BY <1>7, Zenon DEF StopCall, DeletedBegin, TimePasses, Quiet
  <2> QED
    BY <1>3, <2>1, Zenon
<1>8. CASE ConfirmTask
  BY <1>1, <1>8, ConfirmKeepsInv, Zenon DEF ConfirmTask
<1>9. CASE DelayedTask
  <2>1. Quiet
    BY <1>2, <1>9, ZenonT(30) DEF DelayedTask, DelayedBegin, DelayedEnd, Quiet, Tasks
  <2> QED
    BY <1>3, <2>1, Zenon
<1>10. CASE ReconnectTask
  <2>1. UNCHANGED <<id, pc, available, pending, unconfirmed, frame, timed_out, calls>>
    BY <1>10, Zenon DEF ReconnectTask, ReconnectBegin, ReconnectConnect, ReconnectRefused, ReconnectDeclare,
                 ReconnectUndeclared, ReconnectRetry, ReconnectInstall, ReconnectOverflow
  <2>2. \E r : run' = [run EXCEPT !["Reconnect"] = r]
    BY <1>10, Zenon DEF ReconnectTask, ReconnectBegin, ReconnectConnect, ReconnectRefused, ReconnectDeclare,
                 ReconnectUndeclared, ReconnectRetry, ReconnectInstall, ReconnectOverflow
  <2>3. run'["Confirm"] = run["Confirm"]
    BY <1>2, <2>2, Zenon DEF Tasks
  <2> QED
    BY <1>3, <2>1, <2>3, Zenon DEF Quiet
<1>11. CASE \E t \in Tasks : TimerExpires(t)
  <2>1. Quiet
    BY <1>11, Zenon DEF TimerExpires, Quiet
  <2> QED
    BY <1>3, <2>1, Zenon
<1>12. ASSUME NEW a \in Stoppers, Stop(a) PROVE IInv'
  <2>1. CASE StopFail(a)
    BY <1>1, <2>1, StopFailKeepsInv, Zenon
  <2>2. CASE ~StopFail(a)
    <3>1. Quiet
      BY <1>12, <2>2, Zenon DEF Stop, StopDestroys, StopExchange, StopAccumulator, StopSemaphore, StopClient, Quiet
    <3> QED
      BY <1>3, <3>1, Zenon
  <2> QED
    BY <2>1, <2>2, Zenon
<1>13. ASSUME NEW s \in Sessions, FrameThread(s) PROVE IInv'
  <2>1. CASE ReadAnswer(s) \/ HandleAnswer(s) \/ CallHandler(s)
    BY <1>1, <2>1, AnswerKeepsInv, Zenon
  <2>2. CASE NoticeDisconnect(s) \/ handle_shutdown(s) \/ ShutdownDropped(s) \/ FrameThreadEnds(s)
    <3>1. Quiet
      BY <2>2, Zenon DEF NoticeDisconnect, handle_shutdown, ShutdownDropped, FrameThreadEnds, Quiet
    <3> QED
      BY <1>3, <3>1, Zenon
  <2> QED
    BY <1>13, <2>1, <2>2, Zenon DEF FrameThread
<1>14. ASSUME NEW s \in Sessions,
              handle_metadata_update(s) \/ Disconnect(s) \/ HeartbeatTimeout(s) \/ BrokerStores(s)
              \/ BrokerRefuses(s)
       PROVE  IInv'
  <2>1. Quiet
    BY <1>14, ZenonT(30) DEF handle_metadata_update, Disconnect, HeartbeatTimeout, BrokerStores, BrokerRefuses, Quiet
  <2> QED
    BY <1>3, <2>1, Zenon
<1>15. CASE UNCHANGED vars
  <2>1. Quiet
    BY <1>15, Zenon DEF vars, Quiet
  <2> QED
    BY <1>3, <2>1, Zenon
<1> QED
  BY <1>4, <1>5, <1>6, <1>7, <1>8, <1>9, <1>10, <1>11, <1>12, <1>13, <1>14, <1>15, Zenon DEF Next, Steps, Inputs

-----------------------------------------------------------------------------
(* The control: start(), the sessions, the recovery tasks and stop()       *)

\* start() holds the lock and comes before everything else.
StartInv ==
    /\ status = "Started" => starting = "done"
    /\ starting \in {"connect", "declare", "finish"} => status = "Starting"
    /\ starting \in {"declare", "finish"} => client # NoClient
    /\ starting \in {"init", "connect"} => \A s \in Sessions : sess[s] = "none"
    /\ \A a \in Stoppers : stop[a] # "idle" => starting \in {"done", "failed"}
    /\ due["Deleted"] > 0 \/ armed["Deleted"] \/ run["Reconnect"] # "idle" => starting = "done"

\* A task or stop() has a session in hand between two of its own steps only,
\* and reconnect_to_server runs while there is no client.
TakenInv ==
    /\ run["Delayed"] = "idle" => taken["Delayed"] = NoClient
    /\ run["Reconnect"] \in {"idle", "connect"} => taken["Reconnect"] = NoClient
    /\ run["Reconnect"] \in {"declare", "install"} => taken["Reconnect"] # NoClient
    /\ run["Reconnect"] # "idle" => client = NoClient
    /\ (\A a \in Stoppers : stop[a] # "fail") => taken["stop"] = NoClient

\* Somebody will join every session whose frame thread has not ended.
Owned ==
    \A s \in Sessions : sess[s] \notin {"none", "closed"} =>
        s \in {client, dropped, taken["Delayed"], taken["Reconnect"], taken["stop"]}

\* A frame thread inside a handler has not ended.
FrameLive == \A s \in Sessions : frame[s] # NoFrame => sess[s] \notin {"none", "closed", "locking"}

\* The order in which internal_stop destroys the tasks, and stop() waits for
\* an internal_stop of m_stream_deleted_task.
Over(t) == destroyed[t] /\ run[t] = "idle"
Closers == {"accumulator", "semaphore", "client", "fail"}

StopOrder ==
    /\ stop["user"] # "idle" => destroyed["Deleted"]
    /\ destroyed["Deleted"] => stop["user"] # "idle"
    /\ stop["user"] \notin {"idle", "Deleted"} => stop["Deleted"] = "idle"
    /\ \A a \in Stoppers :
        /\ stop[a] \in {"Confirm", "Delayed", "Reconnect"} => destroyed[stop[a]]
        /\ stop[a] \in {"Delayed", "Reconnect"} => Over("Confirm")
        /\ stop[a] = "Reconnect" => Over("Delayed")
        /\ stop[a] \in Closers => status = "Stopped"
        /\ stop[a] \in {"semaphore", "client", "fail"} => acc_destroyed
        /\ stop[a] = "fail" => client = NoClient /\ dropped = NoClient
    /\ status = "Stopped" => Over("Confirm") /\ Over("Delayed") /\ Over("Reconnect")
    /\ stop["user"] = "done" => status = "Stopped"

\* Once the first internal_stop is through, nothing is left to act.
Stopped == status = "Stopped" /\ \A a \in Stoppers : stop[a] \notin Closers

\* All that remains is closed.
StopOver ==
    Stopped => /\ acc_destroyed /\ client = NoClient /\ dropped = NoClient
               /\ \A s \in Sessions : sess[s] \in {"none", "closed"}

\* The invariant of the control.
ControlInv ==
    /\ StartInv /\ TakenInv /\ Owned /\ FrameLive /\ StopOrder /\ StopOver
    /\ ReconnectOnlyWhileStarted /\ RecoveryUnderWay

\* The functions of the control.
ControlTypes ==
    /\ sess \in [Sessions -> SessionStates] /\ frame \in [Sessions -> [id : Ids, ok : BOOLEAN, msg : Msgs \cup {NoMsg}]]
    /\ run \in [Tasks -> ConfirmSteps \cup ReconnectSteps \cup {"join"}]
    /\ due \in [Tasks -> Nat] /\ armed \in [Tasks -> BOOLEAN] /\ destroyed \in [Tasks -> BOOLEAN]
    /\ taken \in [{"Delayed", "Reconnect", "stop"} -> Sessions \cup {NoClient}]
    /\ stop \in [Stoppers -> StopStates]
    /\ client \in Sessions \cup {NoClient} /\ dropped \in Sessions \cup {NoClient}
    /\ NoClient \notin Sessions /\ 1 \in Sessions

\* NoClient is no session, and there is at least one.
LEMMA SessionNames ==
    1 \in Sessions /\ NoClient \notin Sessions
  BY SizesAssumption, SMTT(30) DEF Sessions, MaxSessions, NoClient

\* A typed state has the types the control is about.
LEMMA ControlTyped == TypeOK => ControlTypes
  BY SessionNames, Zenon DEF TypeOK, ControlTypes

\* Steps that leave the control as it is.
LEMMA QuietControl ==
    ASSUME ControlInv,
           UNCHANGED <<status, starting, client, dropped, sess, frame, taken, stop, destroyed, acc_destroyed, run>>,
           \A t \in {"Reconnect", "Deleted"} : due'[t] = due[t] /\ armed'[t] = armed[t]
    PROVE  ControlInv'
<1>1. StartInv' /\ TakenInv'
  BY Zenon DEF ControlInv, StartInv, TakenInv
<1>2. Owned' /\ FrameLive'
  BY Zenon DEF ControlInv, Owned, FrameLive
<1>3. StopOrder'
  BY Zenon DEF ControlInv, StopOrder, Over
<1>4. StopOver'
  BY Zenon DEF ControlInv, StopOver, Stopped
<1>5. ReconnectOnlyWhileStarted' /\ RecoveryUnderWay'
  BY Zenon DEF ControlInv, ReconnectOnlyWhileStarted, RecoveryUnderWay, Running
<1> QED
  BY <1>1, <1>2, <1>3, <1>4, <1>5, Zenon DEF ControlInv

\* ClientImpl::stop() of a session neither ends nor revives a frame thread.
LEMMA ClosingKeeps ==
    ASSUME ControlTypes, NEW c
    PROVE  \A s \in Sessions : /\ Closing(c)[s] \in {"none", "closed"} <=> sess[s] \in {"none", "closed"}
                               /\ Closing(c)[s] = sess[s] \/ (Closing(c)[s] = "closing" /\ sess[s] \in {"up", "dead"})
  BY Zenon DEF Closing, ControlTypes

\* start() keeps the control.
LEMMA StartControl == ASSUME ControlTypes, ControlInv, Start PROVE ControlInv'
<1>0. UNCHANGED <<frame, taken, dropped, stop, destroyed, acc_destroyed, run, due>>
  BY Zenon DEF Start, StartBegin, StartConnect, StartDeclare, StartFinish
<1> USE <1>0
<1>1. status # "Stopped" /\ status # "Started" /\ run["Reconnect"] = "idle" /\ \A a \in Stoppers : stop[a] = "idle"
  BY Zenon DEF Start, StartBegin, StartConnect, StartDeclare, StartFinish, ControlInv, StartInv
<1> USE <1>1
<1>2. /\ armed'["Deleted"] = armed["Deleted"] /\ armed'["Reconnect"] = armed["Reconnect"]
      /\ status' \in {"Starting", "Started"} \cup {status}
      /\ status' = "Started" => client # NoClient /\ client' = client
  BY Zenon DEF Start, StartBegin, StartConnect, StartDeclare, StartFinish, ControlInv, StartInv, ControlTypes, Tasks
<1> USE <1>2
<1>3. StopOrder' /\ StopOver' /\ ReconnectOnlyWhileStarted' /\ RecoveryUnderWay'
  <2>1. status' # "Stopped" /\ run'["Reconnect"] = "idle"
    OBVIOUS
  <2>2. StopOver' /\ ReconnectOnlyWhileStarted' /\ RecoveryUnderWay'
    BY <2>1, Zenon DEF StopOver, Stopped, ReconnectOnlyWhileStarted, RecoveryUnderWay
  <2>3. \A a \in Stoppers : stop'[a] = "idle"
    OBVIOUS
  <2>4. StopOrder'
    BY <2>1, <2>3, Zenon DEF StopOrder, ControlInv, Closers, Stoppers
  <2> QED
    BY <2>2, <2>4, Zenon
<1>4. CASE StartConnect
  <2> USE <1>4
  <2>1. \A s \in Sessions : sess[s] = "none"
    BY Zenon DEF StartConnect, ControlInv, StartInv
  <2>2. \A s \in Sessions : s # 1 => sess'[s] = "none"
    BY <2>1, Zenon DEF StartConnect, ControlTypes
  <2>3. sess'[1] \in {"up", "closed"} /\ (sess'[1] = "up" => client' = 1)
    BY Zenon DEF StartConnect, ControlTypes
  <2>4. Owned' /\ FrameLive'
    BY <2>1, <2>2, <2>3, Zenon DEF Owned, FrameLive, ControlInv
  <2>5. StartInv'
    BY ZenonT(60) DEF StartConnect, ControlInv, StartInv, ControlTypes
  <2>6. TakenInv'
    BY Zenon DEF ControlInv, TakenInv
  <2> QED
    BY <1>3, <2>4, <2>5, <2>6, Zenon DEF ControlInv
<1>5. CASE StartBegin \/ StartDeclare \/ StartFinish
  <2>1. UNCHANGED <<client, sess>>
    BY <1>5, Zenon DEF StartBegin, StartDeclare, StartFinish
  <2> USE <2>1
  <2>2. Owned' /\ FrameLive'
    BY Zenon DEF Owned, FrameLive, ControlInv
  <2>3. StartInv'
    BY <1>5, Zenon DEF StartBegin, StartDeclare, StartFinish, ControlInv, StartInv
  <2>4. TakenInv'
    BY Zenon DEF ControlInv, TakenInv
  <2> QED
    BY <1>3, <2>2, <2>3, <2>4, Zenon DEF ControlInv
<1> QED
  BY <1>4, <1>5, Zenon DEF Start

\* delayed_reconnect takes the client and joins it.
LEMMA DelayedControl == ASSUME ControlTypes, ControlInv, DelayedTask PROVE ControlInv'
<1>1. CASE DelayedBegin /\ status # "Started"
  <2>1. /\ UNCHANGED <<status, starting, client, dropped, sess, frame, taken, stop, destroyed, acc_destroyed, run, armed>>
        /\ due' = [due EXCEPT !["Delayed"] = @ - 1]
    BY <1>1, Zenon DEF DelayedBegin
  <2>2. \A t \in {"Reconnect", "Deleted"} : due'[t] = due[t] /\ armed'[t] = armed[t]
    BY <2>1, Zenon DEF ControlTypes, Tasks
  <2> QED
    BY <2>1, <2>2, QuietControl, Zenon
<1>2. CASE DelayedBegin /\ status = "Started"
  <2> USE <1>2
  <2>1. /\ UNCHANGED <<status, starting, dropped, frame, stop, destroyed, acc_destroyed, armed>>
        /\ taken' = [taken EXCEPT !["Delayed"] = client] /\ client' = NoClient /\ sess' = Closing(client)
        /\ run' = [run EXCEPT !["Delayed"] = "join"] /\ due' = [due EXCEPT !["Delayed"] = @ - 1]
        /\ run["Delayed"] = "idle" /\ ~destroyed["Delayed"]
    BY Zenon DEF DelayedBegin, Ready
  <2> USE <2>1
  <2>2. /\ taken'["Delayed"] = client /\ taken'["Reconnect"] = taken["Reconnect"] /\ taken'["stop"] = taken["stop"]
        /\ run'["Delayed"] = "join" /\ run'["Reconnect"] = run["Reconnect"] /\ run'["Confirm"] = run["Confirm"]
        /\ due'["Deleted"] = due["Deleted"]
    BY Zenon DEF ControlTypes, Tasks
  <2> USE <2>2
  <2>3. starting = "done"
    BY Zenon DEF ControlInv, StartInv
  <2>4. StartInv'
    BY <2>3, Zenon DEF ControlInv, StartInv
  <2>5. TakenInv'
    BY Zenon DEF ControlInv, TakenInv
  <2>6. Owned'
    BY ClosingKeeps, Zenon DEF ControlInv, Owned, TakenInv
  <2>7. FrameLive'
    BY ClosingKeeps, Zenon DEF ControlInv, FrameLive
  <2>8. StopOrder'
    BY Zenon DEF ControlInv, StopOrder, Over
  <2>9. StopOver' /\ ReconnectOnlyWhileStarted' /\ RecoveryUnderWay'
    BY Zenon DEF ControlInv, StopOver, Stopped, ReconnectOnlyWhileStarted, RecoveryUnderWay
  <2> QED
    BY <2>4, <2>5, <2>6, <2>7, <2>8, <2>9, Zenon DEF ControlInv
<1>3. CASE DelayedEnd
  <2>1. /\ UNCHANGED <<status, starting, client, dropped, sess, frame, stop, destroyed, acc_destroyed, due>>
        /\ taken' = [taken EXCEPT !["Delayed"] = NoClient] /\ run' = [run EXCEPT !["Delayed"] = "idle"]
        /\ armed' = ArmedAfter("Reconnect") /\ Joined(taken["Delayed"]) /\ run["Delayed"] = "join"
    BY <1>3, Zenon DEF DelayedEnd
  <2> USE <2>1
  <2>2. /\ taken'["Delayed"] = NoClient /\ taken'["Reconnect"] = taken["Reconnect"] /\ taken'["stop"] = taken["stop"]
        /\ run'["Delayed"] = "idle" /\ run'["Reconnect"] = run["Reconnect"] /\ run'["Confirm"] = run["Confirm"]
        /\ armed'["Deleted"] = armed["Deleted"] /\ (armed'["Reconnect"] \/ destroyed["Reconnect"])
    BY Zenon DEF ControlTypes, Tasks, ArmedAfter, Valid
  <2> USE <2>2
  <2>3. StartInv' /\ TakenInv'
    BY Zenon DEF ControlInv, StartInv, TakenInv
  <2>4. Owned' /\ FrameLive'
    BY Zenon DEF ControlInv, Owned, FrameLive, Joined, ControlTypes
  <2>5. StopOrder'
    BY Zenon DEF ControlInv, StopOrder, Over
  <2>6. StopOver' /\ ReconnectOnlyWhileStarted' /\ RecoveryUnderWay'
    BY Zenon DEF ControlInv, StopOver, Stopped, ReconnectOnlyWhileStarted, RecoveryUnderWay
  <2> QED
    BY <2>3, <2>4, <2>5, <2>6, Zenon DEF ControlInv
<1> QED
  BY <1>1, <1>2, <1>3, Zenon DEF DelayedTask

\* reconnect_to_server keeps the control.  It changes nothing of stop(), and
\* its only effects on the sessions are a new one, and the one it has in hand.
LEMMA ReconnectControl ==
    ASSUME TypeOK, ControlTypes, ControlInv, ReconnectTask, ~ReconnectBegin
    PROVE  ControlInv'
<1> DEFINE mine == taken["Reconnect"]
<1>0. /\ UNCHANGED <<status, starting, dropped, frame, stop, destroyed, acc_destroyed>>
      /\ run["Reconnect"] # "idle"
      /\ \E r : run' = [run EXCEPT !["Reconnect"] = r]
      /\ taken' = taken \/ \E c : taken' = [taken EXCEPT !["Reconnect"] = c]
  BY Zenon DEF ReconnectTask, ReconnectConnect, ReconnectRefused, ReconnectDeclare,
               ReconnectUndeclared, ReconnectRetry, ReconnectInstall, ReconnectOverflow
<1> USE <1>0
<1>1. /\ status = "Started" /\ starting = "done" /\ client = NoClient /\ ~Over("Reconnect")
      /\ run'["Delayed"] = run["Delayed"] /\ run'["Confirm"] = run["Confirm"]
      /\ taken'["Delayed"] = taken["Delayed"] /\ taken'["stop"] = taken["stop"]
  BY Zenon DEF ControlInv, ReconnectOnlyWhileStarted, StartInv, TakenInv, Over, ControlTypes, Tasks
<1> USE <1>1
<1>2. StartInv' /\ StopOver' /\ ReconnectOnlyWhileStarted'
  BY Zenon DEF ControlInv, StartInv, StopOver, Stopped, ReconnectOnlyWhileStarted
<1> USE <1>2
<1>3. ASSUME client' = client PROVE StopOrder'
  BY <1>3, Zenon DEF ControlInv, StopOrder, Over
<1>4. CASE ReconnectConnect
  <2>1. /\ nsess + 1 \in Sessions /\ sess' = [sess EXCEPT ![nsess + 1] = "up"] /\ UNCHANGED client
        /\ taken' = [taken EXCEPT !["Reconnect"] = nsess + 1] /\ run' = [run EXCEPT !["Reconnect"] = "declare"]
        /\ run["Reconnect"] = "connect"
    <3>1. nsess < MaxSessions /\ nsess \in 0 .. MaxSessions
      BY <1>4, Zenon DEF ReconnectConnect, TypeOK
    <3>2. nsess + 1 \in Sessions
      BY <3>1, SizesAssumption, SMTT(30) DEF Sessions, MaxSessions
    <3> QED
      BY <1>4, <3>2, Zenon DEF ReconnectConnect
  <2> USE <2>1
  <2>2. taken'["Reconnect"] = nsess + 1 /\ taken'["Reconnect"] # NoClient /\ run'["Reconnect"] = "declare"
    BY Zenon DEF ControlTypes, Tasks
  <2> USE <2>2
  <2>3. TakenInv'
    BY Zenon DEF ControlInv, TakenInv
  <2>4. Owned'
    BY Zenon DEF ControlInv, Owned, TakenInv, ControlTypes
  <2>5. FrameLive'
    BY Zenon DEF ControlInv, FrameLive, ControlTypes
  <2>6. RecoveryUnderWay'
    BY Zenon DEF RecoveryUnderWay, Running
  <2> QED
    BY <1>3, <2>3, <2>4, <2>5, <2>6, Zenon DEF ControlInv
<1>5. CASE ReconnectRefused \/ ReconnectDeclare \/ ReconnectUndeclared \/ ReconnectOverflow
  <2>1. UNCHANGED <<client, taken>> /\ (sess' = sess \/ sess' = Closing(mine))
    BY <1>5, Zenon DEF ReconnectRefused, ReconnectDeclare, ReconnectUndeclared, ReconnectOverflow
  <2> USE <2>1
  <2>2. /\ run'["Reconnect"] \in {"install", "retry", "deleted"}
        /\ run'["Reconnect"] = "install" => mine # NoClient
    BY <1>5, Zenon DEF ReconnectRefused, ReconnectDeclare, ReconnectUndeclared, ReconnectOverflow, ControlTypes, Tasks,
                ControlInv, TakenInv
  <2>3. TakenInv'
    BY <2>2, Zenon DEF ControlInv, TakenInv
  <2>4. Owned' /\ FrameLive'
    BY ClosingKeeps, SMTT(30) DEF ControlInv, Owned, FrameLive
  <2>5. RecoveryUnderWay'
    BY <2>2, Zenon DEF RecoveryUnderWay, Running
  <2> QED
    BY <1>3, <2>3, <2>4, <2>5, Zenon DEF ControlInv
<1>6. CASE ReconnectRetry
  <2>1. /\ UNCHANGED <<client, sess>> /\ Joined(mine) /\ taken' = [taken EXCEPT !["Reconnect"] = NoClient]
        /\ run' = [run EXCEPT !["Reconnect"] = "idle"]
        /\ \/ schedule_now("Deleted")
           \/ armed' = ArmedAfter("Reconnect") /\ UNCHANGED due
    BY <1>6, Zenon DEF ReconnectRetry
  <2> USE <2>1
  <2>2. taken'["Reconnect"] = NoClient /\ run'["Reconnect"] = "idle"
    BY Zenon DEF ControlTypes, Tasks
  <2>3. TakenInv'
    BY <2>2, Zenon DEF ControlInv, TakenInv
  <2>4. Owned' /\ FrameLive'
    BY <2>2, Zenon DEF ControlInv, Owned, FrameLive, Joined, ControlTypes
  <2>5. \/ due'["Deleted"] > 0 \/ destroyed["Deleted"]
        \/ armed'["Reconnect"] \/ destroyed["Reconnect"]
    <3>1. CASE schedule_now("Deleted")
      BY <3>1, SMTT(30) DEF schedule_now, ControlTypes, Tasks
    <3>2. CASE armed' = ArmedAfter("Reconnect")
      BY <3>2, Zenon DEF ArmedAfter, Valid, ControlTypes, Tasks
    <3> QED
      BY <3>1, <3>2, Zenon
  <2>6. RecoveryUnderWay'
    BY <2>5, Zenon DEF RecoveryUnderWay
  <2> QED
    BY <1>3, <2>3, <2>4, <2>6, Zenon DEF ControlInv
<1>7. CASE ReconnectInstall
  <2>1. /\ client' = mine /\ UNCHANGED <<sess, due, armed>> /\ taken' = [taken EXCEPT !["Reconnect"] = NoClient]
        /\ run' = [run EXCEPT !["Reconnect"] = "idle"] /\ run["Reconnect"] = "install"
    BY <1>7, Zenon DEF ReconnectInstall
  <2> USE <2>1
  <2>2. taken'["Reconnect"] = NoClient /\ run'["Reconnect"] = "idle" /\ client' # NoClient
    BY Zenon DEF ControlTypes, Tasks, ControlInv, TakenInv
  <2> USE <2>2
  <2>3. TakenInv'
    BY Zenon DEF ControlInv, TakenInv
  <2>4. Owned' /\ FrameLive'
    BY Zenon DEF ControlInv, Owned, FrameLive, ControlTypes
  <2>5. RecoveryUnderWay'
    BY Zenon DEF RecoveryUnderWay
  <2>6. StopOrder'
    BY Zenon DEF ControlInv, StopOrder, Over, Closers
  <2> QED
    BY <2>3, <2>4, <2>5, <2>6, Zenon DEF ControlInv
<1> QED
  BY <1>4, <1>5, <1>6, <1>7, Zenon DEF ReconnectTask

\* A session that is lost, and its frame thread, keep the control.
LEMMA SessionControl ==
    ASSUME ControlTypes, ControlInv, NEW s \in Sessions,
           \/ ReadAnswer(s) \/ HandleAnswer(s) \/ CallHandler(s) \/ NoticeDisconnect(s) \/ FrameThreadEnds(s)
           \/ Disconnect(s) \/ HeartbeatTimeout(s)
    PROVE  ControlInv'
<1>1. /\ UNCHANGED <<status, starting, client, dropped, taken, stop, destroyed, acc_destroyed, run, due, armed>>
      /\ \A t \in Sessions : t # s => sess'[t] = sess[t] /\ frame'[t] = frame[t]
  <2>1. UNCHANGED <<status, starting, client, dropped, taken, stop, destroyed, acc_destroyed, run, due, armed>>
    BY Zenon DEF ReadAnswer, HandleAnswer, CallHandler, NoticeDisconnect, FrameThreadEnds, Disconnect, HeartbeatTimeout
  <2>2. \A t \in Sessions : t # s => sess'[t] = sess[t]
    BY Zenon DEF ReadAnswer, HandleAnswer, CallHandler, NoticeDisconnect, FrameThreadEnds, Disconnect, HeartbeatTimeout, ControlTypes
  <2>3. \A t \in Sessions : t # s => frame'[t] = frame[t]
    BY Zenon DEF ReadAnswer, HandleAnswer, CallHandler, NoticeDisconnect, FrameThreadEnds, Disconnect, HeartbeatTimeout, ControlTypes
  <2> QED
    BY <2>1, <2>2, <2>3, Zenon
<1> USE <1>1
<1>2. sess[s] \notin {"none", "closed"}
  <2>1. CASE ReadAnswer(s) \/ NoticeDisconnect(s) \/ FrameThreadEnds(s) \/ Disconnect(s) \/ HeartbeatTimeout(s)
    BY <2>1, ZenonT(60) DEF ReadAnswer, NoticeDisconnect, FrameThreadEnds, Disconnect, HeartbeatTimeout
  <2>2. CASE HandleAnswer(s) \/ CallHandler(s)
    BY <2>2, SMTT(30) DEF HandleAnswer, CallHandler, NoFrame, ControlInv, FrameLive
  <2> QED
    BY <2>1, <2>2, Zenon
<1> USE <1>2
<1>3. frame'[s] # NoFrame => sess'[s] \notin {"none", "closed", "locking"}
  <2>1. CASE ReadAnswer(s) \/ Disconnect(s) \/ HeartbeatTimeout(s)
    BY <2>1, ZenonT(60) DEF ReadAnswer, Disconnect, HeartbeatTimeout, ControlTypes
  <2>2. CASE HandleAnswer(s) \/ CallHandler(s)
    BY <2>2, SMTT(30) DEF HandleAnswer, CallHandler, NoFrame, ControlInv, FrameLive
  <2>3. CASE NoticeDisconnect(s) \/ FrameThreadEnds(s)
    BY <2>3, Zenon DEF NoticeDisconnect, FrameThreadEnds
  <2> QED
    BY <2>1, <2>2, <2>3, Zenon
<1>4. Owned' /\ FrameLive'
  BY <1>3, Zenon DEF ControlInv, Owned, FrameLive
<1>5. StartInv' /\ TakenInv'
  BY Zenon DEF ControlInv, StartInv, TakenInv
<1>6. StopOrder'
  BY Zenon DEF ControlInv, StopOrder, Over
<1>7. StopOver'
  BY Zenon DEF ControlInv, StopOver, Stopped
<1>8. ReconnectOnlyWhileStarted' /\ RecoveryUnderWay'
  BY Zenon DEF ControlInv, ReconnectOnlyWhileStarted, RecoveryUnderWay, Running
<1> QED
  BY <1>4, <1>5, <1>6, <1>7, <1>8, Zenon DEF ControlInv

\* handle_shutdown keeps the control: the session it drops is its own, or is
\* joined under the lock, and a reconnection is scheduled in the end.
LEMMA ShutdownControl ==
    ASSUME ControlTypes, ControlInv, NEW s \in Sessions, handle_shutdown(s) \/ ShutdownDropped(s)
    PROVE  ControlInv'
<1>1. /\ UNCHANGED <<status, starting, frame, taken, stop, destroyed, acc_destroyed, run>>
      /\ sess[s] \in {"locking", "silent", "dropping"}
  BY Zenon DEF handle_shutdown, ShutdownDropped
<1> USE <1>1
<1>2. ~Stopped /\ starting \notin {"init", "connect"}
  BY Zenon DEF ControlInv, StartInv, StopOver
<1> USE <1>2
<1>3. StopOver' /\ ReconnectOnlyWhileStarted'
  BY ZenonT(60) DEF ControlInv, StopOver, Stopped, ReconnectOnlyWhileStarted
<1> USE <1>3
<1>4. ASSUME schedule_now("Reconnect")
      PROVE  /\ due'["Deleted"] = due["Deleted"] /\ armed'["Deleted"] = armed["Deleted"]
             /\ due'["Reconnect"] > 0 \/ destroyed["Reconnect"]
  <2>1. due["Reconnect"] \in Nat /\ due["Deleted"] \in Nat /\ armed["Deleted"] \in BOOLEAN
    BY Zenon DEF ControlTypes, Tasks
  <2>2. \/ destroyed["Reconnect"] /\ UNCHANGED <<due, armed>>
        \/ due' = [due EXCEPT !["Reconnect"] = @ + 1] /\ armed' = [armed EXCEPT !["Reconnect"] = FALSE]
    BY <1>4, Zenon DEF schedule_now
  <2> QED
    BY <2>1, <2>2, SMTT(30) DEF ControlTypes, Tasks
<1>5. CASE handle_shutdown(s) /\ Detaches(s)
  <2>1. /\ client' = NoClient /\ UNCHANGED dropped /\ schedule_now("Reconnect") /\ Unlocked
        /\ sess' = [sess EXCEPT ![s] = IF @ = "locking" THEN "closed" ELSE "closing"]
    BY <1>5, Zenon DEF handle_shutdown
  <2> USE <2>1
  <2>2. StartInv'
    BY <1>4, Zenon DEF ControlInv, StartInv, Unlocked
  <2>3. TakenInv'
    BY Zenon DEF ControlInv, TakenInv
  <2>4. Owned'
    BY <1>5, Zenon DEF ControlInv, Owned, Detaches, ControlTypes
  <2>5. FrameLive'
    BY Zenon DEF ControlInv, FrameLive, ControlTypes
  <2>6. StopOrder'
    BY Zenon DEF ControlInv, StopOrder, Over
  <2>7. RecoveryUnderWay'
    BY <1>4, Zenon DEF RecoveryUnderWay
  <2> QED
    BY <2>2, <2>3, <2>4, <2>5, <2>6, <2>7, Zenon DEF ControlInv
<1>6. CASE handle_shutdown(s) /\ ~Detaches(s)
  <2>1. /\ client' = NoClient /\ dropped' = client /\ UNCHANGED <<due, armed>> /\ Unlocked /\ client # NoClient
        /\ sess' = [Closing(client) EXCEPT ![s] = IF client = s THEN "joining" ELSE "dropping"]
    BY <1>6, Zenon DEF handle_shutdown, Detaches
  <2> USE <2>1
  <2>2. \A t \in Sessions : t # s => sess'[t] = Closing(client)[t]
    BY Zenon DEF Closing, ControlTypes
  <2>3. sess'[s] \in {"joining", "dropping"}
    BY Zenon DEF Closing, ControlTypes
  <2>4. StartInv'
    BY Zenon DEF ControlInv, StartInv, Unlocked
  <2>5. TakenInv'
    BY Zenon DEF ControlInv, TakenInv
  <2>6. Owned'
    BY <2>2, ClosingKeeps, Zenon DEF ControlInv, Owned, Unlocked, ControlTypes
  <2>7. FrameLive'
    BY <2>2, <2>3, ClosingKeeps, ZenonT(60) DEF ControlInv, FrameLive
  <2>8. StopOrder'
    BY Zenon DEF ControlInv, StopOrder, Over
  <2>9. RecoveryUnderWay'
    BY Zenon DEF RecoveryUnderWay
  <2> QED
    BY <2>4, <2>5, <2>6, <2>7, <2>8, <2>9, Zenon DEF ControlInv
<1>7. CASE ShutdownDropped(s)
  <2>1. /\ dropped' = NoClient /\ UNCHANGED client /\ schedule_now("Reconnect") /\ Joined(dropped)
        /\ sess' = [sess EXCEPT ![s] = "closing"]
    BY <1>7, Zenon DEF ShutdownDropped
  <2> USE <2>1
  <2>2. StartInv' /\ TakenInv'
    BY <1>4, Zenon DEF ControlInv, StartInv, TakenInv
  <2>3. Owned'
    BY Zenon DEF ControlInv, Owned, Joined, ControlTypes
  <2>4. FrameLive'
    BY Zenon DEF ControlInv, FrameLive, ControlTypes
  <2>5. StopOrder'
    BY Zenon DEF ControlInv, StopOrder, Over
  <2>6. RecoveryUnderWay'
    BY <1>4, Zenon DEF RecoveryUnderWay
  <2> QED
    BY <2>2, <2>3, <2>4, <2>5, <2>6, Zenon DEF ControlInv
<1> QED
  BY <1>5, <1>6, <1>7, Zenon

\* internal_stop keeps the control, step by step.
LEMMA StopStepControl ==
    ASSUME ControlTypes, ControlInv, NEW a \in Stoppers, Stop(a)
    PROVE  ControlInv'
<1> DEFINE b == IF a = "user" THEN "Deleted" ELSE "user"
<1>0. /\ UNCHANGED <<starting, frame, run, due, armed>>
      /\ status' = status \/ status' = "Stopped"
      /\ \E r : stop' = [stop EXCEPT ![a] = r]
      /\ stop[a] # "idle"
  BY Zenon DEF Stop, StopDestroys, StopExchange, StopAccumulator, StopSemaphore, StopClient, StopFail, DestroyOrder
<1> USE <1>0
<1>1. /\ b \in Stoppers /\ b # a /\ \A c \in Stoppers : c = a \/ c = b
      /\ stop'[b] = stop[b]
      /\ a = "user" /\ stop[a] # "Deleted" => stop[b] = "idle"
      /\ a = "Deleted" => stop[b] \in {"idle", "Deleted"}
      /\ starting \in {"done", "failed"}
  <2>1. b \in Stoppers /\ b # a /\ \A c \in Stoppers : c = a \/ c = b
    BY Zenon DEF Stoppers
  <2>2. stop'[b] = stop[b]
    BY <2>1, Zenon DEF ControlTypes
  <2>3. a \in {"user", "Deleted"}
    BY Zenon DEF Stoppers
  <2>4. /\ a = "user" /\ stop[a] # "Deleted" => stop[b] = "idle"
        /\ a = "Deleted" => stop[b] \in {"idle", "Deleted"}
    BY Zenon DEF ControlInv, StopOrder
  <2>5. starting \in {"done", "failed"}
    BY <2>3, Zenon DEF ControlTypes, ControlInv, StartInv
  <2> QED
    BY <2>1, <2>2, <2>4, <2>5, Zenon
<1> USE <1>1
<1> HIDE DEF b
<1>2. ASSUME UNCHANGED <<client, sess>> PROVE StartInv'
  BY <1>2, Zenon DEF ControlInv, StartInv
<1>3. CASE StopDestroys(a)
  <2> DEFINE x == stop[a]
             y == DestroyOrder[x]
  <2>1. /\ UNCHANGED <<status, client, dropped, sess, taken, acc_destroyed>> /\ ~Running(x)
        /\ stop' = [stop EXCEPT ![a] = y] /\ destroyed' = [destroyed EXCEPT ![y] = TRUE]
        /\ x \in {"Deleted", "Batch", "Confirm", "Delayed"}
    BY <1>3, Zenon DEF StopDestroys, DestroyOrder
  <2> USE <2>1
  <2>2. \/ x = "Deleted" /\ y = "Batch"
        \/ x = "Batch" /\ y = "Confirm"
        \/ x = "Confirm" /\ y = "Delayed"
        \/ x = "Delayed" /\ y = "Reconnect"
    <3>1. /\ DestroyOrder["Deleted"] = "Batch" /\ DestroyOrder["Batch"] = "Confirm"
          /\ DestroyOrder["Confirm"] = "Delayed" /\ DestroyOrder["Delayed"] = "Reconnect"
      BY Zenon DEF DestroyOrder
    <3> QED
      BY <3>1, Zenon
  <2> USE <2>2
  <2> HIDE DEF y
  <2>3. stop'[a] = y /\ destroyed'[y] /\ \A t \in Tasks : t # y => destroyed'[t] = destroyed[t]
    BY Zenon DEF ControlTypes, Tasks
  <2> USE <2>3
  <2>4. stop["Deleted"] = "idle" \/ (a = "Deleted" /\ x # "Deleted")
    BY Zenon DEF Running, Stoppers
  <2>5. TakenInv'
    BY SMTT(30) DEF ControlInv, TakenInv
  <2>6. Owned' /\ FrameLive'
    BY ZenonT(60) DEF ControlInv, Owned, FrameLive
  <2>7. StopOrder'
    <3>1. /\ stop'["user"] # "idle" => destroyed'["Deleted"]
          /\ destroyed'["Deleted"] => stop'["user"] # "idle"
          /\ stop'["user"] \notin {"idle", "Deleted"} => stop'["Deleted"] = "idle"
      BY <2>4, Zenon DEF ControlInv, StopOrder, Stoppers, Tasks
    <3>2. \A t \in Tasks : Over(t) => Over(t)'
      BY Zenon DEF Over
    <3>3. /\ y \in {"Confirm", "Delayed", "Reconnect"} => destroyed'[y]
          /\ y \in {"Delayed", "Reconnect"} => Over("Confirm")
          /\ y = "Reconnect" => Over("Delayed")
      BY Zenon DEF ControlInv, StopOrder, Over, Running
    <3>4. /\ stop[b] \in {"Confirm", "Delayed", "Reconnect"} => destroyed'[stop[b]]
          /\ stop[b] \in {"Delayed", "Reconnect"} => Over("Confirm")
          /\ stop[b] = "Reconnect" => Over("Delayed")
      BY ZenonT(60) DEF ControlInv, StopOrder, Tasks
    <3>5. /\ status = "Stopped" => Over("Confirm") /\ Over("Delayed") /\ Over("Reconnect")
          /\ stop'["user"] = "done" => status = "Stopped"
      BY Zenon DEF ControlInv, StopOrder, Stoppers
    <3> QED
      BY <3>1, <3>2, <3>3, <3>4, <3>5, SMTT(30) DEF ControlInv, StopOrder, Closers, Tasks
  <2>8. StopOver'
    BY Zenon DEF ControlInv, StopOver, Stopped, Closers
  <2>9. ReconnectOnlyWhileStarted' /\ RecoveryUnderWay'
    BY Zenon DEF ControlInv, ReconnectOnlyWhileStarted, RecoveryUnderWay, Running, Stoppers, Tasks
  <2> QED
    BY <1>2, <2>5, <2>6, <2>7, <2>8, <2>9, Zenon DEF ControlInv
<1>4. CASE StopExchange(a)
  <2>1. /\ UNCHANGED <<client, dropped, sess, taken, acc_destroyed, destroyed>> /\ ~Running("Reconnect")
        /\ status' = "Stopped" /\ stop[a] = "Reconnect"
        /\ stop' = [stop EXCEPT ![a] = IF status = "Stopped" THEN StopEnd(a) ELSE "accumulator"]
    BY <1>4, Zenon DEF StopExchange
  <2> USE <2>1
  <2>2. /\ status = "Stopped" => stop'[a] \in {"idle", "done"} /\ (stop'[a] = "idle" <=> a = "Deleted")
        /\ status # "Stopped" => stop'[a] = "accumulator"
    BY Zenon DEF ControlTypes, StopEnd, Stoppers
  <2> USE <2>2
  <2>3. Over("Confirm") /\ Over("Delayed") /\ Over("Reconnect")
    BY Zenon DEF ControlInv, StopOrder, Over, Running
  <2>4. UNCHANGED <<Over("Confirm"), Over("Delayed"), Over("Reconnect")>>
    BY Zenon DEF Over
  <2>5. StartInv'
    BY Zenon DEF ControlInv, StartInv
  <2>6. TakenInv'
    BY Zenon DEF ControlInv, TakenInv
  <2>7. Owned' /\ FrameLive'
    BY Zenon DEF ControlInv, Owned, FrameLive
  <2>8. StopOrder'
    <3>1. /\ stop'["user"] # "idle" => destroyed'["Deleted"]
          /\ destroyed'["Deleted"] => stop'["user"] # "idle"
          /\ stop'["user"] \notin {"idle", "Deleted"} => stop'["Deleted"] = "idle"
      BY Zenon DEF ControlInv, StopOrder, Stoppers
    <3>2. stop'[a] \in {"idle", "done", "accumulator"}
      OBVIOUS
    <3> QED
      BY <2>3, <2>4, <3>1, <3>2, ZenonT(60) DEF ControlInv, StopOrder
  <2>9. StopOver'
    BY Zenon DEF ControlInv, StopOver, Stopped, Closers
  <2>10. ReconnectOnlyWhileStarted' /\ RecoveryUnderWay'
    BY Zenon DEF ReconnectOnlyWhileStarted, RecoveryUnderWay, Running
  <2> QED
    BY <2>5, <2>6, <2>7, <2>8, <2>9, <2>10, Zenon DEF ControlInv
<1>5. ASSUME stop[a] \in Closers, UNCHANGED <<status, destroyed>>
      PROVE  /\ status = "Stopped" /\ stop[b] \in {"idle", "Deleted"}
             /\ run["Delayed"] = "idle" /\ run["Reconnect"] = "idle"
             /\ UNCHANGED <<Over("Confirm"), Over("Delayed"), Over("Reconnect")>>
             /\ ReconnectOnlyWhileStarted' /\ RecoveryUnderWay'
  <2> USE <1>5
  <2>1. status = "Stopped" /\ Over("Delayed") /\ Over("Reconnect")
    BY Zenon DEF ControlInv, StopOrder
  <2>2. stop[b] \in {"idle", "Deleted"}
    BY Zenon DEF Closers, Stoppers
  <2>3. ReconnectOnlyWhileStarted' /\ RecoveryUnderWay'
    BY <2>1, Zenon DEF ReconnectOnlyWhileStarted, RecoveryUnderWay, Over
  <2> QED
    BY <2>1, <2>2, <2>3, Zenon DEF Over
<1>6. ASSUME stop[a] \in Closers, UNCHANGED <<status, destroyed>>,
             stop'[a] \in Closers \/ (a = "user" /\ stop'[a] = "done") \/ (a = "Deleted" /\ stop'[a] = "idle"),
             stop'[a] \in {"semaphore", "client", "fail"} => acc_destroyed',
             stop'[a] = "fail" => client' = NoClient /\ dropped' = NoClient
      PROVE  StopOrder'
  <2> USE <1>6
  <2>1. /\ stop'["user"] # "idle" => destroyed'["Deleted"]
        /\ destroyed'["Deleted"] => stop'["user"] # "idle"
        /\ stop'["user"] \notin {"idle", "Deleted"} => stop'["Deleted"] = "idle"
    BY Zenon DEF ControlInv, StopOrder, Stoppers, Closers
  <2>2. stop'[a] \notin {"Confirm", "Delayed", "Reconnect"} /\ stop'[b] \in {"idle", "Deleted"}
    BY <1>5, Zenon DEF Closers
  <2> QED
    BY <1>5, <2>1, <2>2, Zenon DEF ControlInv, StopOrder, Closers
<1>7. CASE StopAccumulator(a) \/ StopSemaphore(a)
  <2>1. /\ UNCHANGED <<status, client, dropped, sess, taken, destroyed>> /\ stop[a] \in {"accumulator", "semaphore"}
        /\ stop'[a] \in {"semaphore", "client"} /\ acc_destroyed'
    <3>1. CASE StopAccumulator(a)
      BY <3>1, Zenon DEF StopAccumulator, ControlTypes
    <3>2. CASE StopSemaphore(a)
      BY <3>2, Zenon DEF StopSemaphore, ControlTypes, ControlInv, StopOrder
    <3> QED
      BY <1>7, <3>1, <3>2, Zenon
  <2> USE <2>1
  <2>2. TakenInv'
    BY <1>5, Zenon DEF ControlInv, TakenInv, Closers
  <2>3. Owned' /\ FrameLive'
    BY Zenon DEF ControlInv, Owned, FrameLive
  <2>4. StopOrder'
    BY <1>6, Zenon DEF Closers
  <2>5. StopOver'
    BY Zenon DEF StopOver, Stopped, Closers
  <2> QED
    BY <1>2, <1>5, <2>2, <2>3, <2>4, <2>5, Zenon DEF ControlInv, Closers
<1>8. CASE StopClient(a)
  <2>1. /\ UNCHANGED <<status, dropped, destroyed, acc_destroyed>> /\ stop[a] = "client" /\ stop'[a] = "fail" /\ Unlocked
        /\ taken' = [taken EXCEPT !["stop"] = client] /\ client' = NoClient /\ sess' = Closing(client)
    BY <1>8, Zenon DEF StopClient, ControlTypes
  <2> USE <2>1
  <2>2. /\ taken'["stop"] = client /\ taken'["Delayed"] = taken["Delayed"] /\ taken'["Reconnect"] = taken["Reconnect"]
        /\ taken["stop"] = NoClient
    BY <1>5, Zenon DEF ControlTypes, ControlInv, TakenInv, Closers
  <2>3. StartInv'
    BY Zenon DEF ControlInv, StartInv
  <2>4. TakenInv'
    BY <1>5, <2>2, Zenon DEF ControlInv, TakenInv, Closers
  <2>5. Owned'
    BY <2>2, ClosingKeeps, Zenon DEF ControlInv, Owned, ControlTypes
  <2>6. FrameLive'
    BY ClosingKeeps, Zenon DEF ControlInv, FrameLive
  <2>7. StopOrder'
    BY <1>6, Zenon DEF Closers, Unlocked, ControlInv, StopOrder
  <2>8. StopOver'
    BY Zenon DEF StopOver, Stopped, Closers
  <2> QED
    BY <1>5, <2>3, <2>4, <2>5, <2>6, <2>7, <2>8, Zenon DEF ControlInv, Closers
<1>9. CASE StopFail(a)
  <2>1. /\ UNCHANGED <<status, client, dropped, sess, destroyed, acc_destroyed>> /\ stop[a] = "fail"
        /\ Joined(taken["stop"]) /\ taken' = [taken EXCEPT !["stop"] = NoClient] /\ stop' = [stop EXCEPT ![a] = StopEnd(a)]
    BY <1>9, Zenon DEF StopFail
  <2> USE <2>1
  <2>2. /\ (a = "user" /\ stop'[a] = "done") \/ (a = "Deleted" /\ stop'[a] = "idle")
        /\ taken'["stop"] = NoClient /\ taken'["Delayed"] = taken["Delayed"] /\ taken'["Reconnect"] = taken["Reconnect"]
    BY Zenon DEF StopEnd, Stoppers, ControlTypes
  <2>3. client = NoClient /\ dropped = NoClient /\ acc_destroyed
    BY Zenon DEF ControlInv, StopOrder
  <2> USE <2>3
  <2>4. taken["Delayed"] = NoClient /\ taken["Reconnect"] = NoClient
    BY <1>5, Zenon DEF ControlInv, TakenInv, Closers
  <2>5. \A s \in Sessions : sess[s] \in {"none", "closed"}
    BY <2>4, ZenonT(60) DEF ControlInv, Owned, Joined, ControlTypes
  <2>6. TakenInv'
    BY <2>2, <2>4, Zenon DEF ControlInv, TakenInv
  <2>7. Owned' /\ FrameLive'
    BY <2>5, Zenon DEF ControlInv, Owned, FrameLive
  <2>8. StopOrder'
    BY <1>6, <2>2, Zenon DEF Closers
  <2>9. StopOver'
    BY <2>5, Zenon DEF StopOver
  <2> QED
    BY <1>2, <1>5, <2>6, <2>7, <2>8, <2>9, Zenon DEF ControlInv, Closers
<1> QED
  BY <1>3, <1>4, <1>7, <1>8, <1>9, Zenon DEF Stop

\* stop() and m_stream_deleted_task keep the control.
LEMMA StopControl ==
    ASSUME ControlTypes, ControlInv, StopCall \/ DeletedBegin \/ \E a \in Stoppers : Stop(a)
    PROVE  ControlInv'
<1>0. Stoppers = {"user", "Deleted"}
  BY Zenon DEF Stoppers
<1> USE <1>0
<1>1. CASE StopCall
  <2>1. /\ UNCHANGED <<status, starting, client, dropped, sess, frame, taken, acc_destroyed, run, due, armed>>
        /\ stop' = [stop EXCEPT !["user"] = "Deleted"] /\ destroyed' = [destroyed EXCEPT !["Deleted"] = TRUE]
        /\ stop["user"] = "idle" /\ starting \in {"done", "failed"}
    BY <1>1, Zenon DEF StopCall
  <2> USE <2>1
  <2>2. /\ stop'["user"] = "Deleted" /\ stop'["Deleted"] = stop["Deleted"]
        /\ destroyed'["Deleted"] /\ \A t \in Tasks : t # "Deleted" => destroyed'[t] = destroyed[t]
    BY Zenon DEF ControlTypes, Tasks
  <2> USE <2>2
  <2>3. StartInv' /\ TakenInv'
    BY ZenonT(60) DEF ControlInv, StartInv, TakenInv
  <2>4. Owned' /\ FrameLive'
    BY Zenon DEF ControlInv, Owned, FrameLive
  <2>5. StopOrder'
    BY SMTT(30) DEF ControlInv, StopOrder, Over, Closers, Tasks
  <2>6. StopOver'
    BY Zenon DEF ControlInv, StopOver, Stopped, Closers
  <2>7. ReconnectOnlyWhileStarted' /\ RecoveryUnderWay'
    BY Zenon DEF ControlInv, ReconnectOnlyWhileStarted, RecoveryUnderWay
  <2> QED
    BY <2>3, <2>4, <2>5, <2>6, <2>7, Zenon DEF ControlInv
<1>2. CASE DeletedBegin
  <2>1. /\ UNCHANGED <<status, starting, client, dropped, sess, frame, taken, acc_destroyed, run, armed>>
        /\ stop' = [stop EXCEPT !["Deleted"] = "Batch"] /\ destroyed' = [destroyed EXCEPT !["Batch"] = TRUE]
        /\ due' = [due EXCEPT !["Deleted"] = @ - 1] /\ due["Deleted"] > 0
        /\ stop["Deleted"] = "idle" /\ ~destroyed["Deleted"]
    BY <1>2, Zenon DEF DeletedBegin, DeletedInternalStop, Ready
  <2> USE <2>1
  <2>2. /\ stop'["Deleted"] = "Batch" /\ stop'["user"] = stop["user"]
        /\ \A t \in Tasks : t # "Batch" => destroyed'[t] = destroyed[t]
    BY Zenon DEF ControlTypes, Tasks
  <2> USE <2>2
  <2>3. starting = "done" /\ stop["user"] = "idle"
    BY Zenon DEF ControlInv, StartInv, StopOrder
  <2>4. StartInv' /\ TakenInv'
    BY <2>3, Zenon DEF ControlInv, StartInv, TakenInv
  <2>5. Owned' /\ FrameLive'
    BY Zenon DEF ControlInv, Owned, FrameLive
  <2>6. StopOrder'
    BY <2>3, Zenon DEF ControlInv, StopOrder, Over, Closers, Tasks
  <2>7. StopOver'
    BY Zenon DEF ControlInv, StopOver, Stopped, Closers
  <2>8. ReconnectOnlyWhileStarted' /\ RecoveryUnderWay'
    BY Zenon DEF ControlInv, ReconnectOnlyWhileStarted, RecoveryUnderWay, Running
  <2> QED
    BY <2>4, <2>5, <2>6, <2>7, <2>8, Zenon DEF ControlInv
<1>3. ASSUME NEW a \in Stoppers, Stop(a) PROVE ControlInv'
  BY <1>3, StopStepControl, Zenon
<1> QED
  BY <1>1, <1>2, <1>3, Zenon

\* A new producer has the control.
LEMMA InitControl == Init => ControlInv
<1> SUFFICES ASSUME Init PROVE ControlInv
  OBVIOUS
<1>1. /\ status = "Initialized" /\ starting = "init" /\ client = NoClient
      /\ \A s \in Sessions : sess[s] = "none" /\ frame[s] = NoFrame
      /\ \A a \in Stoppers : stop[a] = "idle"
      /\ due["Deleted"] = 0 /\ ~armed["Deleted"] /\ run["Reconnect"] = "idle" /\ ~destroyed["Deleted"]
      /\ \A t \in {"Delayed", "Reconnect", "stop"} : taken[t] = NoClient
  BY ZenonT(60) DEF Init, Tasks
<1> USE <1>1
<1>2. StartInv /\ TakenInv /\ Owned /\ FrameLive
  <2>1. ~(due["Deleted"] > 0)
    <3>1. due["Deleted"] = 0
      BY Zenon
    <3> QED
      BY <3>1
  <2>2. StartInv
    BY <2>1, Zenon DEF StartInv
  <2>3. TakenInv /\ Owned /\ FrameLive
    BY Zenon DEF TakenInv, Owned, FrameLive
  <2> QED
    BY <2>2, <2>3
<1>3. StopOrder
  BY Zenon DEF StopOrder, Closers, Stoppers
<1>4. StopOver /\ ReconnectOnlyWhileStarted /\ RecoveryUnderWay
  BY Zenon DEF StopOver, Stopped, ReconnectOnlyWhileStarted, RecoveryUnderWay
<1> QED
  BY <1>2, <1>3, <1>4, Zenon DEF ControlInv

\* Every step keeps the control.
LEMMA StepControl == TypeOK /\ ControlInv /\ [Next]_vars => ControlInv'
<1> SUFFICES ASSUME TypeOK, ControlInv, [Next]_vars PROVE ControlInv'
  OBVIOUS
<1> DEFINE Same == UNCHANGED <<status, starting, client, dropped, sess, frame, taken, stop, destroyed, acc_destroyed>>
           Untimed == \A t \in {"Reconnect", "Deleted"} : due'[t] = due[t] /\ armed'[t] = armed[t]
<1>0. ControlTypes
  BY ControlTyped, Zenon
<1> USE <1>0
<1>1. CASE Start
  BY <1>1, StartControl, Zenon
<1>2. CASE flush \/ BatchTask \/ TimePasses \/ \E m \in Msgs : SendBegin(m) \/ Send(m)
  <2>1. Same /\ UNCHANGED run
    BY <1>2, Zenon DEF flush, BatchTask, TimePasses, publish_batch, SendBegin, Send, Acquire, AcquireFails, AddFails,
                AddWaits, Add, SendPublish
  <2>2. /\ armed' = armed \/ armed' = ArmedAfter("Batch")
        /\ due' = due \/ due' = [due EXCEPT !["Batch"] = @ - 1]
    BY <1>2, Zenon DEF flush, BatchTask, TimePasses, publish_batch, SendBegin, Send, Acquire, AcquireFails, AddFails,
                AddWaits, Add, SendPublish
  <2>3. Untimed
    BY <2>2, ZenonT(60) DEF ArmedAfter, ControlTypes, Tasks
  <2> QED
    BY <2>1, <2>3, QuietControl, Zenon
<1>3. CASE ConfirmTask
  <2>1. /\ Same /\ (due' = due \/ due' = [due EXCEPT !["Confirm"] = @ - 1])
        /\ armed' = armed \/ armed' = ArmedAfter("Confirm")
        /\ \E r : run' = [run EXCEPT !["Confirm"] = r]
        /\ Over("Confirm") => FALSE
    BY <1>3, Zenon DEF ConfirmTask, ConfirmScan, ConfirmCall, Ready, Over
  <2> USE <2>1
  <2>2. /\ Untimed /\ \A t \in Tasks : t # "Confirm" => run'[t] = run[t]
    BY SMTT(30) DEF ControlTypes, Tasks, ArmedAfter
  <2> USE <2>2
  <2>3. StartInv' /\ TakenInv'
    BY Zenon DEF ControlInv, StartInv, TakenInv, Tasks
  <2>4. Owned' /\ FrameLive'
    BY Zenon DEF ControlInv, Owned, FrameLive
  <2>5. StopOrder'
    BY Zenon DEF ControlInv, StopOrder, Over, Tasks
  <2>6. StopOver' /\ ReconnectOnlyWhileStarted' /\ RecoveryUnderWay'
    BY Zenon DEF ControlInv, StopOver, Stopped, ReconnectOnlyWhileStarted, RecoveryUnderWay, Running, Tasks
  <2> QED
    BY <2>3, <2>4, <2>5, <2>6, Zenon DEF ControlInv
<1>4. CASE DelayedTask
  BY <1>4, DelayedControl, Zenon
<1>5. CASE ReconnectBegin
  <2>1. /\ Same /\ due' = [due EXCEPT !["Reconnect"] = @ - 1] /\ UNCHANGED armed
        /\ run["Reconnect"] = "idle" /\ ~destroyed["Reconnect"]
        /\ run' = [run EXCEPT !["Reconnect"] = IF client # NoClient \/ status # "Started" THEN "idle" ELSE "connect"]
    BY <1>5, Zenon DEF ReconnectBegin, Ready
  <2> USE <2>1
  <2>2. /\ \A t \in Tasks : t # "Reconnect" => run'[t] = run[t] /\ due'[t] = due[t]
        /\ client # NoClient \/ status # "Started" => run'["Reconnect"] = "idle"
        /\ client = NoClient /\ status = "Started" => run'["Reconnect"] = "connect"
    BY Zenon DEF ControlTypes, Tasks
  <2> USE <2>2
  <2>3. StartInv' /\ TakenInv'
    BY Zenon DEF ControlInv, StartInv, TakenInv, Tasks
  <2>4. Owned' /\ FrameLive'
    BY Zenon DEF ControlInv, Owned, FrameLive
  <2>5. StopOrder'
    BY Zenon DEF ControlInv, StopOrder, Over, Tasks
  <2>6. StopOver' /\ ReconnectOnlyWhileStarted' /\ RecoveryUnderWay'
    BY Zenon DEF ControlInv, StopOver, Stopped, ReconnectOnlyWhileStarted, RecoveryUnderWay, Running
  <2> QED
    BY <2>3, <2>4, <2>5, <2>6, Zenon DEF ControlInv
<1>6. CASE ReconnectTask /\ ~ReconnectBegin
  BY <1>6, ReconnectControl, Zenon
<1>7. ASSUME NEW t \in Tasks, TimerExpires(t) PROVE ControlInv'
  <2>1. /\ Same /\ UNCHANGED run /\ armed[t]
        /\ due' = [due EXCEPT ![t] = @ + 1] /\ armed' = [armed EXCEPT ![t] = FALSE]
    BY <1>7, ZenonT(60) DEF TimerExpires
  <2> USE <2>1
  <2>2. /\ \A u \in Tasks : u # t => due'[u] = due[u] /\ armed'[u] = armed[u]
        /\ due'[t] > 0 /\ ~armed'[t]
    <3>1. due[t] \in Nat
      BY Zenon DEF ControlTypes
    <3> QED
      BY <3>1, SMTT(30) DEF ControlTypes
  <2>3. StartInv' /\ TakenInv'
    BY <2>2, Zenon DEF ControlInv, StartInv, TakenInv, Tasks
  <2>4. Owned' /\ FrameLive'
    BY Zenon DEF ControlInv, Owned, FrameLive
  <2>5. StopOrder'
    BY Zenon DEF ControlInv, StopOrder, Over
  <2>6. StopOver' /\ ReconnectOnlyWhileStarted' /\ RecoveryUnderWay'
    BY <2>2, ZenonT(60) DEF ControlInv, StopOver, Stopped, ReconnectOnlyWhileStarted, RecoveryUnderWay, Running, Tasks
  <2> QED
    BY <2>3, <2>4, <2>5, <2>6, Zenon DEF ControlInv
<1>8. CASE StopCall \/ DeletedBegin \/ \E a \in Stoppers : Stop(a)
  BY <1>8, StopControl, Zenon
<1>9. ASSUME NEW s \in Sessions,
             \/ FrameThread(s) \/ handle_metadata_update(s) \/ Disconnect(s)
             \/ HeartbeatTimeout(s) \/ BrokerStores(s) \/ BrokerRefuses(s)
      PROVE  ControlInv'
  <2>1. CASE handle_shutdown(s) \/ ShutdownDropped(s)
    BY <2>1, ShutdownControl, Zenon
  <2>2. CASE handle_metadata_update(s) \/ BrokerStores(s) \/ BrokerRefuses(s)
    <3>1. Same /\ UNCHANGED run
      BY <2>2, Zenon DEF handle_metadata_update, BrokerStores, BrokerRefuses
    <3>2. UNCHANGED <<due, armed>> \/ schedule_now("Delayed")
      BY <2>2, Zenon DEF handle_metadata_update, BrokerStores, BrokerRefuses
    <3>3. Untimed
      BY <3>2, SMTT(30) DEF schedule_now, ControlTypes, Tasks
    <3> QED
      BY <3>1, <3>3, QuietControl, Zenon
  <2> QED
    BY <1>9, <2>1, <2>2, SessionControl, Zenon DEF FrameThread
<1>10. CASE UNCHANGED vars
  BY <1>10, QuietControl, Zenon DEF vars
<1> QED
  BY <1>1, <1>2, <1>3, <1>4, <1>5, <1>6, <1>7, <1>8, <1>9, <1>10, Zenon DEF Next, Steps, Inputs, ReconnectTask
=============================================================================
