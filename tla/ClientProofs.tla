---------------------------- MODULE ClientProofs ----------------------------
(***************************************************************************)
(* Proofs about Client, for any number of application threads and any      *)
(* scenarios: one shutdown at most, and no request left behind.            *)
(***************************************************************************)
EXTENDS Client, TLAPS

-----------------------------------------------------------------------------
(* ShutdownOnce                                                            *)

ClosingStates == {"no", "socket", "strand", "fail", "notify", "done"}

ShutType ==
    /\ m_status \in {"Initialized", "Starting", "Started", "Stopping"}
    /\ closing \in [Closers -> [at : ClosingStates, reason : BOOLEAN]]
    /\ notified \in {0, 1}

\* Whoever shuts the client down has made it stopping, and was the only one to.
ShutInv ==
    /\ ShutType
    /\ step = "initial" => m_status = "Initialized"
    /\ m_status = "Started" => step = "started"
    /\ \A a \in Closers : closing[a].at # "no" => m_status = "Stopping"
    /\ \A a, b \in Closers : closing[a].at # "no" /\ closing[b].at # "no" => a = b
    /\ \A a \in Closers : closing[a].at # "no" /\ closing[a].reason => step = "started"
    /\ stopper = "request" => /\ m_status = "Stopping" /\ step = "started"
                              /\ \A a \in Closers : closing[a].at = "no"
    /\ notified = 1 => \E a \in Closers : closing[a].at = "done" /\ closing[a].reason

\* The order of the steps of shutdown().
LEMMA ShutdownSteps ==
    /\ Head(ShutdownOrder) = "socket"
    /\ Following("socket") = "strand"
    /\ Following("strand") = "fail"
    /\ Following("fail") = "notify"
PROOF
<1>1. Len(ShutdownOrder) = 5 /\ Head(ShutdownOrder) = "socket"
  BY DEF ShutdownOrder
<1>2. /\ ShutdownOrder[1] = "socket" /\ ShutdownOrder[2] = "strand" /\ ShutdownOrder[3] = "fail"
      /\ ShutdownOrder[4] = "notify" /\ ShutdownOrder[5] = "done"
  BY Zenon DEF ShutdownOrder
<1>3. \A at : \A j \in 2 .. 5 :
        (\A i \in 2 .. 5 : ShutdownOrder[i - 1] = at <=> i = j) => Following(at) = ShutdownOrder[j]
  <2>1. SUFFICES ASSUME NEW at, NEW j \in 2 .. 5, \A i \in 2 .. 5 : ShutdownOrder[i - 1] = at <=> i = j
                 PROVE  Following(at) = ShutdownOrder[j]
    OBVIOUS
  <2>2. (CHOOSE i \in 2 .. 5 : ShutdownOrder[i - 1] = at) = j
    BY <2>1, Zenon
  <2>3. QED
    BY <2>2, <1>1, Zenon DEF Following
<1>4. \A i \in 2 .. 5 : i = 2 \/ i = 3 \/ i = 4 \/ i = 5
  OBVIOUS
<1>5. Following("socket") = "strand"
  <2>1. \A i \in 2 .. 5 : ShutdownOrder[i - 1] = "socket" <=> i = 2
    BY <1>2, <1>4
  <2>2. QED
    BY <2>1, <1>2, <1>3
<1>6. Following("strand") = "fail"
  <2>1. \A i \in 2 .. 5 : ShutdownOrder[i - 1] = "strand" <=> i = 3
    BY <1>2, <1>4
  <2>2. QED
    BY <2>1, <1>2, <1>3
<1>7. Following("fail") = "notify"
  <2>1. \A i \in 2 .. 5 : ShutdownOrder[i - 1] = "fail" <=> i = 4
    BY <1>2, <1>4
  <2>2. QED
    BY <2>1, <1>2, <1>3
<1>8. QED
  BY <1>1, <1>5, <1>6, <1>7, Zenon

ShutVars == <<m_status, step, stopper, closing, notified>>

\* Steps that leave status, start(), stop(), shutdown() and the listener alone.
LEMMA ShutVarsUnchanged ==
    ShutInv /\ UNCHANGED ShutVars => ShutInv'
PROOF BY Zenon DEF ShutInv, ShutType, ShutVars

\* Requests and their writes do.
LEMMA RequestsKeepShutVars ==
    ASSUME NEW c, RequestStep(c) \/ UserCalls(c)
    PROVE  UNCHANGED ShutVars
PROOF
BY Zenon DEF ShutVars, RequestStep, SendRequest, SendThrows, Written, Answered, TimedOut, DropLate, UserCalls, requestVars

\* The frame thread up to the point where it leaves its loop, and after shutdown().
LEMMA FramesKeepShutVars ==
    ASSUME FrameSteps, ~FrameExits
    PROVE  UNCHANGED ShutVars
PROOF
BY Zenon DEF ShutVars, FrameSteps, FrameReads, FrameGot, HandleResponse, HandleThrows, HandleClose, HandleTune, HandleTuned,
       SkipFrame, FrameEnds, frameVars

\* The strand of the connection, the socket, and the broker.
LEMMA NetworkKeepsShutVars ==
    ASSUME \/ StrandSteps \/ SocketWrites \/ SocketRefuses \/ WriterIdle \/ BrokerCloses \/ ConnectionLost
           \/ \E id \in asked : BrokerAnswers(id) \/ BrokerFails(id)
    PROVE  UNCHANGED ShutVars
PROOF
BY Zenon DEF ShutVars, StrandSteps, StrandWrite, StrandRead, StrandWriter, StrandReader, WriteCallback, FrameArrives, ReadFails,
       strandVars, SocketWrites, SocketRefuses, WriterIdle, BrokerCloses, ConnectionLost, BrokerAnswers, BrokerFails,
       BrokerSends, clientVars

\* The invariant is inductive.
LEMMA ShutInvInductive == ShutInv /\ [Next]_vars => ShutInv'
PROOF
<1>1. SUFFICES ASSUME ShutInv, [Next]_vars PROVE ShutInv'
  OBVIOUS
<1>2. CASE UNCHANGED vars
  <2>1. UNCHANGED ShutVars
    BY <1>2, Zenon DEF vars, clientVars, ShutVars
  <2>2. QED
    BY <1>1, <2>1, ShutVarsUnchanged, Zenon
<1>3. CASE StartConnects \/ StartRefused
  BY <1>1, <1>3, Zenon DEF ShutInv, ShutType, StartConnects, StartRefused, startVars
<1>4. CASE StartRequests \/ StartSkipsVersions \/ StartAnswered \/ StartTuned
  <2>1. step' # "initial" /\ (step # step' => step # "started") /\ UNCHANGED <<m_status, stopper, closing, notified>>
    BY <1>4, Zenon DEF StartRequests, StartSkipsVersions, StartAnswered, StartTuned, startVars, RequestSteps, After
  <2>2. QED
    BY <1>1, <2>1, Zenon DEF ShutInv, ShutType
<1>5. CASE StartEnds
  BY <1>1, <1>5, Zenon DEF ShutInv, ShutType, StartEnds, startVars
<1>6. CASE StopExchange
  <2>1. CASE m_status \in {"Started", "Stopping"}
    BY <1>1, <1>6, <2>1, Zenon DEF ShutInv, ShutType, StopExchange
  <2>2. CASE m_status \notin {"Started", "Stopping"}
    <3>1. \A a \in Closers : closing[a].at = "no"
      BY <1>1, <2>2, Zenon DEF ShutInv
    <3>2. /\ closing' = [closing EXCEPT !["stop"] = [at |-> "socket", reason |-> FALSE]]
          /\ m_status' = "Stopping" /\ stopper' = "shutdown" /\ UNCHANGED <<step, notified>>
          /\ step # "initial"
      BY <1>6, <2>2, ShutdownSteps, Zenon DEF StopExchange, BeginShutdown
    <3>3. QED
      BY <1>1, <3>1, <3>2, Zenon DEF ShutInv, ShutType, Closers, ClosingStates
  <2>3. QED
    BY <2>1, <2>2, Zenon
<1>7. CASE StopRequested
  <2>1. /\ closing' = [closing EXCEPT !["stop"] = [at |-> "socket", reason |-> TRUE]]
        /\ stopper = "request" /\ stopper' = "shutdown" /\ UNCHANGED <<m_status, step, notified>>
    BY <1>7, ShutdownSteps, Zenon DEF StopRequested, BeginShutdown
  <2>2. QED
    BY <1>1, <2>1, Zenon DEF ShutInv, ShutType, Closers, ClosingStates
<1>8. CASE StopJoins
  BY <1>1, <1>8, Zenon DEF ShutInv, ShutType, StopJoins
<1>9. CASE FrameExits
  <2>1. CASE Exchanged
    <3>1. /\ closing' = [closing EXCEPT !["frame"] = [at |-> "socket", reason |-> TRUE]]
          /\ m_status = "Started" /\ m_status' = "Stopping" /\ UNCHANGED <<step, stopper, notified>>
      BY <1>9, <2>1, ShutdownSteps, Zenon DEF FrameExits, BeginShutdown, Exchanged, frameVars
    <3>2. \A a \in Closers : closing[a].at = "no"
      BY <1>1, <3>1, Zenon DEF ShutInv
    <3>3. QED
      BY <1>1, <3>1, <3>2, Zenon DEF ShutInv, ShutType, Closers, ClosingStates
  <2>2. CASE ~Exchanged
    <3>1. UNCHANGED ShutVars
      BY <1>9, <2>2, Zenon DEF FrameExits, frameVars, ShutVars
    <3>2. QED
      BY <1>1, <3>1, ShutVarsUnchanged, Zenon
  <2>3. QED
    BY <2>1, <2>2, Zenon
<1>10. CASE ReaderIdle
  <2>1. CASE Exchanged
    <3>1. /\ closing' = [closing EXCEPT !["idle"] = [at |-> "socket", reason |-> TRUE]]
          /\ m_status = "Started" /\ m_status' = "Stopping" /\ UNCHANGED <<step, stopper, notified>>
      BY <1>10, <2>1, ShutdownSteps, Zenon DEF ReaderIdle, BeginShutdown, Exchanged
    <3>2. \A a \in Closers : closing[a].at = "no"
      BY <1>1, <3>1, Zenon DEF ShutInv
    <3>3. QED
      BY <1>1, <3>1, <3>2, Zenon DEF ShutInv, ShutType, Closers, ClosingStates
  <2>2. CASE ~Exchanged
    <3>1. UNCHANGED ShutVars
      BY <1>10, <2>2, Zenon DEF ReaderIdle, ShutVars
    <3>2. QED
      BY <1>1, <3>1, ShutVarsUnchanged, Zenon
  <2>3. QED
    BY <2>1, <2>2, Zenon
<1>11. ASSUME NEW a \in Closers, CloseSocket(a) \/ StrandShutdown(a) \/ fail_all_outstanding_requests(a) PROVE ShutInv'
  <2>1. /\ closing[a].at \in {"socket", "strand", "fail"} /\ UNCHANGED <<m_status, step, stopper, notified>>
        /\ \E at \in {"strand", "fail", "notify"} : closing' = [closing EXCEPT ![a].at = at]
    BY <1>11, ShutdownSteps, Zenon DEF CloseSocket, StrandShutdown, fail_all_outstanding_requests
  <2>2. QED
    BY <1>1, <2>1 DEF ShutInv, ShutType, ClosingStates
<1>12. ASSUME NEW a \in Closers, Notify(a) PROVE ShutInv'
  <2>1. notified = 0
    BY <1>1, <1>12, Zenon DEF ShutInv, ShutType, Notify
  <2>2. QED
    BY <1>1, <1>12, <2>1 DEF ShutInv, ShutType, Notify, ClosingStates
<1>13. CASE UNCHANGED ShutVars
  BY <1>1, <1>13, ShutVarsUnchanged, Zenon
<1>14. QED
  <2>1. CASE \E c \in Callers : RequestStep(c)
    BY <1>13, <2>1, RequestsKeepShutVars, Zenon
  <2>2. CASE \E u \in Users : UserCalls(u)
    BY <1>13, <2>2, RequestsKeepShutVars, Zenon
  <2>3. CASE FrameSteps
    BY <1>9, <1>13, <2>3, FramesKeepShutVars, Zenon
  <2>4. CASE \/ StrandSteps \/ SocketWrites \/ SocketRefuses \/ WriterIdle \/ BrokerCloses \/ ConnectionLost
             \/ \E id \in asked : BrokerAnswers(id) \/ BrokerFails(id)
    BY <1>13, <2>4, NetworkKeepsShutVars, Zenon
  <2>5. QED
    BY <1>1, <1>2, <1>3, <1>4, <1>5, <1>6, <1>7, <1>8, <1>10, <1>11, <1>12, <2>1, <2>2, <2>3, <2>4, Zenon
       DEF Next, StartSteps, StopSteps, ShutdownStep

\* In every behaviour, with any number of threads that use the client, the frame
\* thread, the idle handler and stop() agree on one of them to shut it down, and
\* the listener is called at most once, for a client that was started.
THEOREM OneShutdown == Spec => []ShutdownOnce
PROOF
<1>1. Init => ShutInv
  BY DEF Init, ShutInv, ShutType, Closers, ClosingStates
<1>2. ShutInv => ShutdownOnce
  BY DEF ShutInv, ShutType, ShutdownOnce
<1>3. QED
  BY <1>1, <1>2, ShutInvInductive, PTL DEF Spec

-----------------------------------------------------------------------------
(* NoLeakedRequest, WrittenWasSent and NobodyLeftWaiting                   *)

\* The entries of m_outstanding_requests are the calls without an answer.
CallInv ==
    /\ m_correlation_sequence \in Nat
    /\ call \in [Callers -> Call]
    /\ \A c \in Callers : call[c].id <= m_correlation_sequence
    /\ \A c \in Callers : Busy(c) => call[c].id >= 1
    /\ \A c, d \in Callers : Busy(c) /\ Busy(d) /\ call[c].id = call[d].id => c = d
    /\ \A c \in Callers : Busy(c) /\ call[c].answer = "none" => call[c].id \in m_outstanding_requests
    /\ \A id \in m_outstanding_requests :
           \E c \in Callers : Busy(c) /\ call[c].answer = "none" /\ call[c].id = id
    /\ Busy("stop") => stopper = "request"

\* What the strand holds was numbered before.
Entries == [op : {"write", "read", "writer", "reader", "shutdown"}, by : Callers \cup Closers \cup {"none"}, id : Nat]

Numbered(q, n) == q \in Seq(Entries) /\ \A i \in 1 .. Len(q) : q[i].id <= n

OutInv ==
    /\ Numbered(m_outbox, m_correlation_sequence)
    /\ sending \in [n : Nat, state : {"none", "pending", "ok", "failed"}]
    /\ sending.n <= Len(m_outbox)
    /\ \A id \in heard : id \in Nat /\ id <= m_correlation_sequence
    /\ sending.state = "ok" => \A i \in 1 .. sending.n : m_outbox[i].by # "none" => m_outbox[i].id \in heard

\* Who waits for an answer has been heard.
HeardInv ==
    /\ WrittenWasSent
    /\ \A c \in Callers : call[c].pc = "waiting" => call[c].id \in heard

SendInv == Numbered(posted, m_correlation_sequence) /\ OutInv /\ HeardInv

\* After the requests were failed, what is registered reaches no open socket.
LastInv ==
    /\ \A a \in Closers : closing[a].at \notin {"no", "socket"} => socket = "closed"
    /\ \A a \in Closers, c \in Callers :
           closing[a].at \in {"notify", "done"} /\ Busy(c) /\ call[c].answer = "none" => call[c].id \notin heard

CallVars == <<m_correlation_sequence, m_outstanding_requests, call, stopper>>

\* Steps that leave the requests alone.
LEMMA CallVarsUnchanged == CallInv /\ UNCHANGED CallVars => CallInv'
PROOF BY DEF CallInv, CallVars, Busy

\* A caller that has no request under way registers one.
LEMMA RegisterCalls ==
    ASSUME CallInv, NEW c \in Callers, ~Busy(c), Register(c), c = "stop" => stopper' = "request",
           stopper' = stopper \/ ~Busy("stop")
    PROVE  CallInv'
PROOF
<1> DEFINE n == m_correlation_sequence + 1
           r == [pc |-> "registered", id |-> n, wrote |-> "none", answer |-> "none"]
<1>1. /\ m_correlation_sequence \in Nat /\ n \in Nat /\ m_correlation_sequence' = n
      /\ m_outstanding_requests' = m_outstanding_requests \cup {n} /\ call' = [call EXCEPT ![c] = r]
      /\ call \in [Callers -> Call] /\ r \in Call
  BY DEF CallInv, Register, Call
<1>2. /\ call'[c] = r /\ \A d \in Callers : d # c => call'[d] = call[d]
      /\ call' \in [Callers -> Call]
  BY <1>1, Zenon
<1>3. \A d \in Callers : call[d].id \in Nat /\ call[d].id < n
  BY <1>1 DEF CallInv, Call
<1> HIDE DEF n
<1>4. QED
  BY <1>1, <1>2, <1>3 DEF CallInv, Busy

\* A call goes on, or ends with its entry gone.
LEMMA CallMoves ==
    ASSUME CallInv, NEW c \in Callers, Busy(c), stopper' = stopper, m_correlation_sequence' = m_correlation_sequence,
           NEW at \in {"writing", "waiting", "late", "ok", "error", "failed"},
           call' = [call EXCEPT ![c].pc = at],
           \/ at \in {"writing", "waiting", "late"} /\ UNCHANGED m_outstanding_requests
           \/ /\ at \in {"ok", "error", "failed"}
              /\ \/ m_outstanding_requests' = m_outstanding_requests \ {call[c].id}
                 \/ call[c].answer # "none" /\ UNCHANGED m_outstanding_requests
    PROVE  CallInv'
PROOF
<1>1. call \in [Callers -> Call]
  BY Zenon DEF CallInv
<1>2. /\ \A d \in Callers : d # c => call'[d] = call[d]
      /\ call'[c].pc = at /\ call'[c].id = call[c].id /\ call'[c].answer = call[c].answer
  BY <1>1, Zenon DEF Call
<1>3. call' \in [Callers -> Call]
  BY <1>1, ZenonT(60) DEF Call
<1>4. CASE at \in {"writing", "waiting", "late"} /\ UNCHANGED m_outstanding_requests
  BY <1>2, <1>3, <1>4 DEF CallInv, Busy
<1>5. CASE at \in {"ok", "error", "failed"}
  <2>1. ~Busy(c)' /\ (\A d \in Callers : d # c => (Busy(d)' <=> Busy(d)))
    BY <1>2, <1>5, Zenon DEF Busy
  <2>2. \A d \in Callers : Busy(d) /\ d # c => call[d].id # call[c].id
    BY Zenon DEF CallInv
  <2>3. \A id \in m_outstanding_requests' :
           \E d \in Callers : d # c /\ Busy(d) /\ call[d].answer = "none" /\ call[d].id = id
    <3>1. \A id \in m_outstanding_requests' :
             id \in m_outstanding_requests /\ (id # call[c].id \/ call[c].answer # "none")
      BY <1>5, Zenon
    <3>2. QED
      BY <3>1, Zenon DEF CallInv
  <2>4. \A id \in m_outstanding_requests' :
           \E d \in Callers : Busy(d)' /\ call'[d].answer = "none" /\ call'[d].id = id
    BY <1>2, <2>1, <2>3
  <2>5. \A d \in Callers : Busy(d)' /\ call'[d].answer = "none" => call'[d].id \in m_outstanding_requests'
    BY <1>2, <1>5, <2>1, <2>2, ZenonT(60) DEF CallInv
  <2>6. "stop" \in Callers
    BY Zenon DEF Callers
  <2>7. QED
    BY <1>2, <1>3, <2>1, <2>4, <2>5, <2>6 DEF CallInv
<1>6. QED
  BY <1>4, <1>5, Zenon

\* complete_outstanding_request and fail_all_outstanding_requests: the calls in
\* S get their answer as their entries go.
LEMMA CallsAnswered ==
    ASSUME CallInv, UNCHANGED <<stopper, m_correlation_sequence>>,
           NEW S, S \subseteq m_outstanding_requests, NEW k \in {"ok", "error", "failed"},
           m_outstanding_requests' = m_outstanding_requests \ S,
           call' = [c \in Callers |-> IF Busy(c) /\ call[c].id \in S THEN [call[c] EXCEPT !.answer = k] ELSE call[c]]
    PROVE  CallInv'
PROOF
<1>1. call \in [Callers -> Call]
  BY Zenon DEF CallInv
<1>2. \A c \in Callers : /\ call'[c].pc = call[c].pc /\ call'[c].id = call[c].id
                         /\ call'[c].answer = IF Busy(c) /\ call[c].id \in S THEN k ELSE call[c].answer
  BY <1>1, Zenon DEF Call
<1>3. call' \in [Callers -> Call]
  BY <1>1, ZenonT(60) DEF Call
<1>4. \A c \in Callers : Busy(c)' <=> Busy(c)
  BY <1>2, Zenon DEF Busy
<1>5. "stop" \in Callers
  BY Zenon DEF Callers
<1>6. QED
  BY <1>2, <1>3, <1>4, <1>5 DEF CallInv

\* The steps of a call.
LEMMA RequestStepCalls ==
    ASSUME CallInv, NEW c \in Callers, RequestStep(c)
    PROVE  CallInv'
PROOF
<1>1. call \in [Callers -> Call]
  BY Zenon DEF CallInv
<1>2. CASE SendRequest(c)
  <2>1. Busy(c) /\ call' = [call EXCEPT ![c].pc = "writing"]
        /\ UNCHANGED <<stopper, m_correlation_sequence, m_outstanding_requests>>
    BY <1>2, Zenon DEF SendRequest, Busy
  <2>2. QED
    BY <2>1, CallMoves, Zenon
<1>3. CASE SendThrows(c) \/ DropLate(c)
  <2>1. /\ Busy(c) /\ call' = [call EXCEPT ![c].pc = "failed"] /\ UNCHANGED <<stopper, m_correlation_sequence>>
        /\ m_outstanding_requests' = m_outstanding_requests \ {call[c].id}
    BY <1>3, Zenon DEF SendThrows, DropLate, Busy, DroppedRequest, requestVars
  <2>2. QED
    BY <2>1, CallMoves, Zenon
<1>4. CASE Written(c)
  <2>1. Busy(c) /\ UNCHANGED <<stopper, m_correlation_sequence>>
    BY <1>4, Zenon DEF Written, Busy, requestVars
  <2>2. \/ call' = [call EXCEPT ![c].pc = "waiting"] /\ UNCHANGED m_outstanding_requests
        \/ call' = [call EXCEPT ![c].pc = "failed"] /\ m_outstanding_requests' = m_outstanding_requests \ {call[c].id}
    BY <1>4, Zenon DEF Written, DroppedRequest
  <2>3. QED
    BY <2>1, <2>2, CallMoves, Zenon
<1>5. CASE Answered(c)
  <2>1. /\ Busy(c) /\ UNCHANGED <<stopper, m_correlation_sequence>> /\ call[c].answer # "none"
        /\ call' = [call EXCEPT ![c].pc = call[c].answer]
        /\ \/ m_outstanding_requests' = m_outstanding_requests \ {call[c].id}
           \/ UNCHANGED m_outstanding_requests
    BY <1>5, Zenon DEF Answered, Busy, DroppedRequest, requestVars
  <2>2. call[c].answer \in {"ok", "error", "failed"}
    BY <1>1, <2>1, Zenon DEF Call
  <2>3. QED
    BY <2>1, <2>2, CallMoves, Zenon
<1>6. CASE TimedOut(c)
  <2>1. Busy(c) /\ call' = [call EXCEPT ![c].pc = "late"]
        /\ UNCHANGED <<stopper, m_correlation_sequence, m_outstanding_requests>>
    BY <1>6, Zenon DEF TimedOut, Busy
  <2>2. QED
    BY <2>1, CallMoves, Zenon
<1>7. QED
  BY <1>2, <1>3, <1>4, <1>5, <1>6, Zenon DEF RequestStep

\* The write of a request changes neither its entry nor its answer.
LEMMA WriteCallbackCalls ==
    ASSUME CallInv, SendInv, WriteCallback
    PROVE  CallInv'
PROOF
<1>1. call \in [Callers -> Call] /\ sending.state \in {"ok", "failed"}
      /\ UNCHANGED <<m_correlation_sequence, m_outstanding_requests, stopper>>
  BY Zenon DEF CallInv, WriteCallback, strandVars
<1>2. call' = [c \in Callers |-> IF \E i \in 1 .. Handled : m_outbox[i].by = c /\ m_outbox[i].id = call[c].id
                                  THEN [call[c] EXCEPT !.wrote = sending.state] ELSE call[c]]
  BY Zenon DEF WriteCallback
<1>3. call' \in [Callers -> Call]
  BY <1>1, <1>2, ZenonT(60) DEF Call
<1>4. \A c \in Callers : call'[c].pc = call[c].pc /\ call'[c].id = call[c].id /\ call'[c].answer = call[c].answer
  BY <1>1, <1>2, Zenon DEF Call
<1>5. "stop" \in Callers
  BY Zenon DEF Callers
<1>6. QED
  BY <1>1, <1>3, <1>4, <1>5 DEF CallInv, Busy

\* The rest of the frame thread and of the strand, the socket and the broker.
LEMMA OthersKeepCallVars ==
    ASSUME \/ FrameReads \/ FrameGot \/ HandleThrows \/ HandleClose \/ HandleTune \/ HandleTuned \/ FrameExits \/ FrameEnds
           \/ StrandWrite \/ StrandRead \/ StrandWriter \/ StrandReader \/ FrameArrives \/ ReadFails
           \/ SocketWrites \/ SocketRefuses \/ ReaderIdle \/ WriterIdle \/ BrokerCloses \/ ConnectionLost
           \/ \E id \in asked : BrokerAnswers(id) \/ BrokerFails(id)
           \/ \E a \in Closers : CloseSocket(a) \/ StrandShutdown(a) \/ Notify(a)
    PROVE  UNCHANGED CallVars
PROOF
<1>1. CASE \/ FrameReads \/ FrameGot \/ HandleThrows \/ HandleClose \/ HandleTune \/ HandleTuned \/ FrameExits \/ FrameEnds
  BY <1>1, Zenon DEF CallVars, FrameReads, FrameGot, HandleThrows, HandleClose, HandleTune, HandleTuned, FrameExits, FrameEnds,
              frameVars
<1>2. CASE StrandWrite \/ StrandRead \/ StrandWriter \/ StrandReader \/ FrameArrives \/ ReadFails
  BY <1>2, Zenon DEF CallVars, StrandWrite, StrandRead, StrandWriter, StrandReader, FrameArrives, ReadFails, strandVars
<1>3. CASE SocketWrites \/ SocketRefuses \/ ReaderIdle \/ WriterIdle \/ BrokerCloses \/ ConnectionLost
  BY <1>3, Zenon DEF CallVars, SocketWrites, SocketRefuses, ReaderIdle, WriterIdle, BrokerCloses, ConnectionLost, BrokerSends,
              clientVars
<1>4. CASE \E id \in asked : BrokerAnswers(id) \/ BrokerFails(id)
  BY <1>4, Zenon DEF CallVars, BrokerAnswers, BrokerFails, BrokerSends, clientVars
<1>5. CASE \E a \in Closers : CloseSocket(a) \/ StrandShutdown(a) \/ Notify(a)
  BY <1>5, Zenon DEF CallVars, CloseSocket, StrandShutdown, Notify
<1>6. QED
  BY <1>1, <1>2, <1>3, <1>4, <1>5, Zenon

\* start(), stop(), and the application.
LEMMA CallersCall ==
    ASSUME CallInv, StartSteps \/ StopSteps \/ \E u \in Users : UserCalls(u)
    PROVE  CallInv'
PROOF
<1>1. /\ "start" \in Callers /\ "stop" \in Callers /\ Users \subseteq Callers /\ "stop" \notin Users
      /\ call \in [Callers -> Call]
  BY ClientAssumption, Zenon DEF Callers, CallInv
<1>2. CASE StartConnects \/ StartRefused \/ StartSkipsVersions \/ StartTuned \/ StartEnds
  <2>1. UNCHANGED CallVars
    BY <1>2, Zenon DEF CallVars, StartConnects, StartRefused, StartSkipsVersions, StartTuned, StartEnds, startVars
  <2>2. QED
    BY <2>1, CallVarsUnchanged, Zenon
<1>3. CASE StartRequests
  <2>1. ~Busy("start") /\ Register("start") /\ stopper' = stopper
    BY <1>3, Zenon DEF StartRequests, Busy, startVars
  <2>2. QED
    BY <1>1, <2>1, RegisterCalls, Zenon
<1>4. CASE StartAnswered
  <2>1. /\ ~Busy("start") /\ call' = [call EXCEPT !["start"].pc = "none"]
        /\ UNCHANGED <<stopper, m_correlation_sequence, m_outstanding_requests>>
    BY <1>4, Zenon DEF StartAnswered, Busy, startVars
  <2>2. call' \in [Callers -> Call]
    BY <1>1, <2>1, ZenonT(60) DEF Call
  <2>3. /\ call'["start"].pc = "none" /\ call'["start"].id = call["start"].id
        /\ \A c \in Callers : c # "start" => call'[c] = call[c]
    BY <1>1, <2>1, Zenon DEF Call
  <2>4. ~Busy("start")' /\ \A c \in Callers : (Busy(c)' <=> Busy(c)) /\ call'[c].id = call[c].id
    BY <2>1, <2>3, Zenon DEF Busy
  <2>5. QED
    BY <1>1, <2>1, <2>2, <2>3, <2>4 DEF CallInv
<1>5. CASE StopExchange
  <2>1. stopper = "none" /\ ~Busy("stop")
    BY <1>5, Zenon DEF StopExchange, CallInv
  <2>2. CASE m_status = "Started"
    <3>1. Register("stop") /\ stopper' = "request"
      BY <1>5, <2>2, Zenon DEF StopExchange
    <3>2. QED
      BY <1>1, <2>1, <3>1, RegisterCalls, Zenon
  <2>3. CASE m_status # "Started"
    <3>1. UNCHANGED <<m_correlation_sequence, m_outstanding_requests, call>>
      BY <1>5, <2>3, Zenon DEF StopExchange
    <3>2. QED
      BY <2>1, <3>1, Zenon DEF CallInv, Busy
  <2>4. QED
    BY <2>2, <2>3, Zenon
<1>6. CASE StopRequested \/ StopJoins
  <2>1. UNCHANGED <<m_correlation_sequence, m_outstanding_requests, call>>
    BY <1>6, Zenon DEF StopRequested, StopJoins
  <2>2. ~Busy("stop")
    BY <1>6, Zenon DEF StopRequested, StopJoins, CallInv
  <2>3. QED
    BY <2>1, <2>2, Zenon DEF CallInv, Busy
<1>7. ASSUME NEW u \in Users, UserCalls(u) PROVE CallInv'
  <2>1. ~Busy(u) /\ Register(u) /\ stopper' = stopper
    BY <1>7, Zenon DEF UserCalls
  <2>2. QED
    BY <1>1, <2>1, RegisterCalls, Zenon
<1>8. QED
  BY <1>2, <1>3, <1>4, <1>5, <1>6, <1>7, Zenon DEF StartSteps, StopSteps

\* The entries of m_outstanding_requests stay the calls without an answer.
LEMMA CallInvInductive == CallInv /\ SendInv /\ [Next]_vars => CallInv'
PROOF
<1>1. SUFFICES ASSUME CallInv, SendInv, [Next]_vars PROVE CallInv'
  OBVIOUS
<1>2. CASE UNCHANGED vars
  <2>1. UNCHANGED CallVars
    BY <1>2, Zenon DEF vars, clientVars, CallVars
  <2>2. QED
    BY <1>1, <2>1, CallVarsUnchanged, Zenon
<1>3. ASSUME complete_outstanding_request(frame.got), frame.got.kind \in {"ok", "error"},
             UNCHANGED <<stopper, m_correlation_sequence>>
      PROVE  CallInv'
  <2> DEFINE S == m_outstanding_requests \cap {frame.got.id}
  <2>1. /\ S \subseteq m_outstanding_requests /\ m_outstanding_requests' = m_outstanding_requests \ S
        /\ call' = [c \in Callers |-> IF Busy(c) /\ call[c].id \in S THEN [call[c] EXCEPT !.answer = frame.got.kind]
                                      ELSE call[c]]
    BY <1>3, Zenon DEF complete_outstanding_request
  <2> HIDE DEF S
  <2>2. QED
    BY <1>1, <1>3, <2>1, CallsAnswered, Zenon
<1>4. CASE HandleResponse
  BY <1>3, <1>4, Zenon DEF HandleResponse, frameVars
<1>5. CASE SkipFrame
  <2>1. CASE frame.got.kind \in {"ok", "error"} /\ frame.got.id = call["stop"].id
    BY <1>3, <1>5, <2>1, Zenon DEF SkipFrame, frameVars
  <2>2. CASE ~(frame.got.kind \in {"ok", "error"} /\ frame.got.id = call["stop"].id)
    <3>1. UNCHANGED CallVars
      BY <1>5, <2>2, Zenon DEF SkipFrame, frameVars, CallVars
    <3>2. QED
      BY <1>1, <3>1, CallVarsUnchanged, Zenon
  <2>3. QED
    BY <2>1, <2>2, Zenon
<1>6. ASSUME NEW a \in Closers, fail_all_outstanding_requests(a) PROVE CallInv'
  <2>1. /\ m_outstanding_requests' = m_outstanding_requests \ m_outstanding_requests
        /\ UNCHANGED <<stopper, m_correlation_sequence>>
        /\ call' = [c \in Callers |-> IF Busy(c) /\ call[c].id \in m_outstanding_requests
                                      THEN [call[c] EXCEPT !.answer = "failed"] ELSE call[c]]
    BY <1>6, Zenon DEF fail_all_outstanding_requests
  <2>2. QED
    BY <1>1, <2>1, CallsAnswered, Zenon
<1>7. CASE UNCHANGED CallVars
  BY <1>1, <1>7, CallVarsUnchanged, Zenon
<1>8. QED
  BY <1>1, <1>2, <1>4, <1>5, <1>6, <1>7, CallersCall, RequestStepCalls, WriteCallbackCalls, OthersKeepCallVars, Zenon
     DEF Next, FrameSteps, StrandSteps, ShutdownStep

\* The entries of a queue of the strand stay numbered by appending one, ...
LEMMA NumberedAppend ==
    ASSUME NEW q, NEW n \in Nat, Numbered(q, n), NEW e \in Entries, e.id <= n
    PROVE  Numbered(Append(q, e), n) /\ \A i \in 1 .. Len(q) : Append(q, e)[i] = q[i]
PROOF
<1>1. /\ q \in Seq(Entries) /\ Append(q, e) \in Seq(Entries) /\ Len(Append(q, e)) = Len(q) + 1
      /\ Append(q, e)[Len(q) + 1] = e /\ \A i \in 1 .. Len(q) : Append(q, e)[i] = q[i]
  BY DEF Numbered
<1>2. \A i \in 1 .. Len(Append(q, e)) : i \in 1 .. Len(q) \/ i = Len(q) + 1
  BY <1>1
<1>3. QED
  BY <1>1, <1>2, Zenon DEF Numbered

\* ... taking the first entry,
LEMMA NumberedTail ==
    ASSUME NEW q, NEW n \in Nat, Numbered(q, n), q # <<>>
    PROVE  Numbered(Tail(q), n) /\ Head(q) \in Entries /\ Head(q).id <= n
PROOF
<1>1. /\ q \in Seq(Entries) /\ Len(q) \in Nat /\ Len(q) >= 1 /\ Head(q) = q[1] /\ Tail(q) \in Seq(Entries)
      /\ Len(Tail(q)) = Len(q) - 1 /\ \A i \in 1 .. Len(Tail(q)) : Tail(q)[i] = q[i + 1]
  BY DEF Numbered
<1>2. \A i \in 1 .. Len(Tail(q)) : i + 1 \in 1 .. Len(q)
  BY <1>1
<1>3. q[1] \in Entries /\ 1 \in 1 .. Len(q)
  BY <1>1
<1>4. QED
  BY <1>1, <1>2, <1>3, Zenon DEF Numbered

\* ... dropping the entries that were written,
LEMMA NumberedRest ==
    ASSUME NEW q, NEW n \in Nat, Numbered(q, n), NEW k \in Nat, k <= Len(q)
    PROVE  Numbered(SubSeq(q, k + 1, Len(q)), n)
PROOF
<1> DEFINE r == SubSeq(q, k + 1, Len(q))
<1>1. q \in Seq(Entries) /\ Len(q) \in Nat
  BY DEF Numbered
<1>2. /\ r \in Seq(Entries) /\ Len(r) = Len(q) - k /\ \A i \in 1 .. Len(r) : r[i] = q[k + i]
  BY <1>1
<1>3. \A i \in 1 .. Len(r) : k + i \in 1 .. Len(q)
  BY <1>1, <1>2
<1>4. QED
  BY <1>2, <1>3, Zenon DEF Numbered

\* ... and, when nothing happens to the queue, a new correlation id.
LEMMA NumberedMore ==
    ASSUME NEW q, NEW n \in Nat, Numbered(q, n)
    PROVE  Numbered(q, n + 1)
PROOF
<1>1. q \in Seq(Entries) /\ \A i \in 1 .. Len(q) : q[i].id <= n
  BY Zenon DEF Numbered
<1>2. \A i \in 1 .. Len(q) : q[i] \in Entries
  BY <1>1
<1>3. \A e \in Entries : e.id \in Nat
  BY Zenon DEF Entries
<1>4. \A i \in 1 .. Len(q) : q[i].id <= n + 1
  BY <1>1, <1>2, <1>3
<1>5. QED
  BY <1>1, <1>4, Zenon DEF Numbered

\* Correlation ids only grow.
LEMMA SequenceGrows ==
    ASSUME CallInv, [Next]_vars
    PROVE  m_correlation_sequence' \in {m_correlation_sequence, m_correlation_sequence + 1}
PROOF
<1>1. CASE UNCHANGED vars
  BY <1>1, Zenon DEF vars, clientVars
<1>2. CASE StartSteps \/ StopSteps \/ \E u \in Users : UserCalls(u)
  BY <1>2, Zenon DEF StartSteps, StopSteps, UserCalls, StartConnects, StartRefused, StartRequests, StartSkipsVersions,
              StartAnswered, StartTuned, StartEnds, StopExchange, StopRequested, StopJoins, Register
<1>3. CASE \E c \in Callers : RequestStep(c)
  BY <1>3, Zenon DEF RequestStep, SendRequest, SendThrows, Written, Answered, TimedOut, DropLate, requestVars
<1>4. CASE HandleResponse \/ SkipFrame \/ WriteCallback \/ \E a \in Closers : fail_all_outstanding_requests(a)
  BY <1>4, Zenon DEF HandleResponse, SkipFrame, WriteCallback, fail_all_outstanding_requests, frameVars, strandVars
<1>5. CASE UNCHANGED CallVars
  BY <1>5, Zenon DEF CallVars
<1>6. QED
  BY <1>1, <1>2, <1>3, <1>4, <1>5, OthersKeepCallVars, Zenon DEF Next, FrameSteps, StrandSteps, ShutdownStep

\* How a step changes what is posted: one or two entries more, or the first less.
LEMMA PostedSteps ==
    ASSUME CallInv, [Next]_vars
    PROVE  \/ UNCHANGED posted
           \/ \E e \in Entries : e.id <= m_correlation_sequence /\ posted' = Append(posted, e)
           \/ \E d, e \in Entries : d.id = 0 /\ e.id = 0 /\ posted' = posted \o <<d, e>>
           \/ posted # <<>> /\ posted' = Tail(posted)
           \/ \E e \in Entries : posted # <<>> /\ e.id = 0 /\ posted' = Append(Tail(posted), e)
PROOF
<1>1. /\ m_correlation_sequence \in Nat /\ 0 <= m_correlation_sequence
      /\ Unwatched \in Entries /\ Unwatched.id = 0
      /\ \A a \in Closers : [op |-> "shutdown", by |-> a, id |-> 0] \in Entries
      /\ [op |-> "read", by |-> "none", id |-> 0] \in Entries
      /\ [op |-> "writer", by |-> "none", id |-> 0] \in Entries
      /\ [op |-> "reader", by |-> "none", id |-> 0] \in Entries
  BY DEF CallInv, Unwatched, Entries
<1>2. CASE UNCHANGED vars
  BY <1>2, Zenon DEF vars, connectionVars
<1>3. CASE StartSteps \/ StopSteps \/ \E u \in Users : UserCalls(u)
  BY <1>3, Zenon DEF StartSteps, StopSteps, UserCalls, StartConnects, StartRefused, StartRequests, StartSkipsVersions,
              StartAnswered, StartTuned, StartEnds, StopExchange, StopRequested, StopJoins, startVars, connectionVars
<1>4. ASSUME NEW c \in Callers, SendRequest(c)
      PROVE  \E e \in Entries : e.id <= m_correlation_sequence /\ posted' = Append(posted, e)
  <2>1. Entry(c) \in Entries /\ Entry(c).id <= m_correlation_sequence
    BY Zenon DEF Entry, Entries, CallInv, Call
  <2>2. QED
    BY <1>4, <2>1, Zenon DEF SendRequest
<1>5. CASE \E c \in Callers : SendThrows(c) \/ Written(c) \/ Answered(c) \/ TimedOut(c) \/ DropLate(c)
  BY <1>5, Zenon DEF SendThrows, Written, Answered, TimedOut, DropLate, requestVars, connectionVars
<1>6. CASE FrameReads \/ HandleClose \/ WriterIdle
  <2>1. \/ posted' = Append(posted, [op |-> "read", by |-> "none", id |-> 0])
        \/ posted' = Append(posted, Unwatched)
    BY <1>6, Zenon DEF FrameReads, HandleClose, WriterIdle
  <2>2. QED
    BY <1>1, <2>1, Zenon
<1>7. CASE HandleTune
  <2>1. \/ posted' = posted \o <<Unwatched, [op |-> "writer", by |-> "none", id |-> 0]>>
        \/ posted' = Append(posted, Unwatched)
    BY <1>7, Zenon DEF HandleTune
  <2>2. QED
    BY <1>1, <2>1, Zenon
<1>8. CASE FrameGot \/ HandleResponse \/ HandleThrows \/ HandleTuned \/ SkipFrame \/ FrameExits \/ FrameEnds
  BY <1>8, Zenon DEF FrameGot, HandleResponse, HandleThrows, HandleTuned, SkipFrame, FrameExits, FrameEnds, connectionVars
<1>9. CASE StrandWrite \/ StrandRead \/ StrandReader
  BY <1>9, Zenon DEF StrandWrite, StrandRead, StrandReader, Runs
<1>10. CASE StrandWriter
  <2>1. posted # <<>> /\ posted' = Append(Tail(posted), [op |-> "reader", by |-> "none", id |-> 0])
    BY <1>10, Zenon DEF StrandWriter
  <2>2. QED
    BY <1>1, <2>1, Zenon
<1>11. CASE WriteCallback \/ FrameArrives \/ ReadFails \/ SocketWrites \/ SocketRefuses \/ ReaderIdle \/ BrokerCloses
            \/ ConnectionLost \/ \E id \in asked : BrokerAnswers(id) \/ BrokerFails(id)
  BY <1>11, Zenon DEF WriteCallback, FrameArrives, ReadFails, SocketWrites, SocketRefuses, ReaderIdle, BrokerCloses,
               ConnectionLost, BrokerAnswers, BrokerFails, BrokerSends, connectionVars
<1>12. CASE \E a \in Closers : CloseSocket(a)
  <2>1. UNCHANGED posted \/ \E a \in Closers : posted' = Append(posted, [op |-> "shutdown", by |-> a, id |-> 0])
    BY <1>12, Zenon DEF CloseSocket
  <2>2. QED
    BY <1>1, <2>1, Zenon
<1>13. CASE \E a \in Closers : StrandShutdown(a) \/ fail_all_outstanding_requests(a) \/ Notify(a)
  BY <1>13, Zenon DEF StrandShutdown, fail_all_outstanding_requests, Notify, connectionVars
<1>14. QED
  BY <1>2, <1>3, <1>4, <1>5, <1>6, <1>7, <1>8, <1>9, <1>10, <1>11, <1>12, <1>13, Zenon
     DEF Next, FrameSteps, StrandSteps, ShutdownStep, RequestStep

\* Every entry posted to the strand has a correlation id that was given out.
LEMMA NumberedPosted ==
    ASSUME CallInv, SendInv, [Next]_vars
    PROVE  Numbered(posted, m_correlation_sequence)'
PROOF
<1> DEFINE n == m_correlation_sequence
<1>1. n \in Nat /\ Numbered(posted, n)
  BY Zenon DEF CallInv, SendInv
<1>2. Numbered(posted', n)
  <2>1. ASSUME NEW d \in Entries, NEW e \in Entries, d.id = 0, e.id = 0, posted' = posted \o <<d, e>>
        PROVE  Numbered(posted', n)
    <3>1. posted \in Seq(Entries) /\ <<d, e>> \in Seq(Entries) /\ Len(<<d, e>>) = 2
      BY <1>1, <2>1 DEF Numbered
    <3>2. posted' \in Seq(Entries) /\ Len(posted') = Len(posted) + 2
      BY <2>1, <3>1
    <3>3. /\ \A i \in 1 .. Len(posted) : posted'[i] = posted[i]
          /\ posted'[Len(posted) + 1] = d /\ posted'[Len(posted) + 2] = e
      BY <2>1, <3>1
    <3>4. \A i \in 1 .. Len(posted') : i \in 1 .. Len(posted) \/ i = Len(posted) + 1 \/ i = Len(posted) + 2
      BY <3>1, <3>2
    <3>5. QED
      BY <1>1, <2>1, <3>2, <3>3, <3>4 DEF Numbered
  <2>2. ASSUME posted # <<>>, NEW e \in Entries, e.id = 0, posted' = Append(Tail(posted), e)
        PROVE  Numbered(posted', n)
    BY <1>1, <2>2, NumberedTail, NumberedAppend
  <2>3. ASSUME NEW e \in Entries, e.id <= n, posted' = Append(posted, e)
        PROVE  Numbered(posted', n)
    BY <1>1, <2>3, NumberedAppend, Zenon
  <2>4. ASSUME posted # <<>>, posted' = Tail(posted)
        PROVE  Numbered(posted', n)
    BY <1>1, <2>4, NumberedTail, Zenon
  <2>5. QED
    BY <1>1, <2>1, <2>2, <2>3, <2>4, PostedSteps, Zenon
<1>3. m_correlation_sequence' \in {n, n + 1}
  BY SequenceGrows, Zenon
<1>4. QED
  BY <1>1, <1>2, <1>3, NumberedMore, Zenon

\* Only the strand touches the outbox and the write in flight, and only the
\* socket makes the broker hear of a request.
LEMMA OutboxSteps ==
    ASSUME [Next]_vars
    PROVE  \/ UNCHANGED <<m_outbox, sending, heard>>
           \/ StrandWrite \/ WriteCallback \/ SocketWrites \/ SocketRefuses
PROOF
<1>1. CASE UNCHANGED vars
  BY <1>1, Zenon DEF vars, connectionVars, envVars
<1>2. CASE StartSteps \/ StopSteps \/ \E u \in Users : UserCalls(u)
  BY <1>2, Zenon DEF StartSteps, StopSteps, UserCalls, StartConnects, StartRefused, StartRequests, StartSkipsVersions,
              StartAnswered, StartTuned, StartEnds, StopExchange, StopRequested, StopJoins, startVars, connectionVars,
              envVars
<1>3. CASE \E c \in Callers : RequestStep(c)
  BY <1>3, Zenon DEF RequestStep, SendRequest, SendThrows, Written, Answered, TimedOut, DropLate, requestVars, connectionVars,
              envVars
<1>4. CASE FrameSteps
  BY <1>4, Zenon DEF FrameSteps, FrameReads, FrameGot, HandleResponse, HandleThrows, HandleClose, HandleTune, HandleTuned,
              SkipFrame, FrameExits, FrameEnds, frameVars, connectionVars, envVars
<1>5. CASE StrandRead \/ StrandWriter \/ StrandReader \/ FrameArrives \/ ReadFails
  BY <1>5, Zenon DEF StrandRead, StrandWriter, StrandReader, FrameArrives, ReadFails, strandVars, envVars
<1>6. CASE ReaderIdle \/ WriterIdle \/ BrokerCloses \/ ConnectionLost \/ \E id \in asked : BrokerAnswers(id) \/ BrokerFails(id)
  BY <1>6, Zenon DEF ReaderIdle, WriterIdle, BrokerCloses, ConnectionLost, BrokerAnswers, BrokerFails, BrokerSends,
              connectionVars, envVars
<1>7. CASE \E a \in Closers : ShutdownStep(a)
  BY <1>7, Zenon DEF ShutdownStep, CloseSocket, StrandShutdown, fail_all_outstanding_requests, Notify, connectionVars, envVars
<1>8. QED
  BY <1>1, <1>2, <1>3, <1>4, <1>5, <1>6, <1>7, Zenon DEF Next, StrandSteps

\* The same of the outbox, and a write that succeeded was heard.
LEMMA OutInvInductive ==
    ASSUME CallInv, SendInv, [Next]_vars
    PROVE  OutInv'
PROOF
<1> DEFINE n == m_correlation_sequence
<1>1. n \in Nat /\ Numbered(posted, n) /\ Numbered(m_outbox, n) /\ m_outbox \in Seq(Entries)
  BY Zenon DEF CallInv, SendInv, OutInv, Numbered
<1>2. n' \in {n, n + 1}
  BY SequenceGrows, Zenon
<1>3. CASE UNCHANGED <<m_outbox, sending, heard>>
  <2>1. Numbered(m_outbox, n)'
    BY <1>1, <1>2, <1>3, NumberedMore, Zenon
  <2>2. \A id \in heard : id \in Nat /\ id <= n'
    BY <1>1, <1>2 DEF SendInv, OutInv
  <2>3. QED
    BY <1>3, <2>1, <2>2, Zenon DEF SendInv, OutInv
<1>4. CASE StrandWrite
  <2> DEFINE e == Head(posted)
  <2>1. /\ posted # <<>> /\ m_outbox' = Append(m_outbox, e) /\ n' = n /\ heard' = heard
        /\ \/ Len(m_outbox') = 1 /\ m_outbox' # <<>> /\ sending' = [n |-> Len(m_outbox'), state |-> "pending"]
           \/ Len(m_outbox') # 1 /\ sending' = sending
    BY <1>1, <1>4 DEF StrandWrite, Runs, send_outbox, strandVars, envVars
  <2>2. e \in Entries /\ e.id <= n
    BY <1>1, <2>1, NumberedTail, Zenon
  <2>3. /\ Numbered(m_outbox', n) /\ Len(m_outbox') = Len(m_outbox) + 1 /\ Len(m_outbox) \in Nat
        /\ \A i \in 1 .. Len(m_outbox) : m_outbox'[i] = m_outbox[i]
    BY <1>1, <2>1, <2>2, NumberedAppend
  <2> HIDE DEF e
  <2>4. QED
    BY <1>1, <2>1, <2>3 DEF SendInv, OutInv
<1>5. CASE WriteCallback
  <2>1. /\ m_outbox' = SubSeq(m_outbox, sending.n + 1, Len(m_outbox)) /\ n' = n /\ heard' = heard
        /\ sending' = [n |-> 0, state |-> "none"] \/ sending' = [n |-> Len(m_outbox'), state |-> "pending"]
    BY <1>5, Zenon DEF WriteCallback, Handled, send_outbox, strandVars, envVars
  <2>2. sending.n \in Nat /\ sending.n <= Len(m_outbox)
    BY Zenon DEF SendInv, OutInv
  <2>3. Numbered(m_outbox', n)
    BY <1>1, <2>1, <2>2, NumberedRest, Zenon
  <2>4. Len(m_outbox') \in Nat
    BY <2>3 DEF Numbered
  <2>5. QED
    BY <2>1, <2>3, <2>4 DEF SendInv, OutInv
<1>6. CASE SocketWrites
  <2> DEFINE ids == {m_outbox[i].id : i \in {j \in 1 .. sending.n : m_outbox[j].by # "none"}}
  <2>1. /\ sending' = [sending EXCEPT !.state = "ok"] /\ heard' = heard \cup ids
        /\ UNCHANGED <<m_outbox, m_correlation_sequence>>
    BY <1>6, Zenon DEF SocketWrites, clientVars
  <2>2. /\ sending.n \in Nat /\ sending.n <= Len(m_outbox) /\ Len(m_outbox) \in Nat
        /\ sending' \in [n : Nat, state : {"none", "pending", "ok", "failed"}] /\ sending'.n = sending.n
    BY <1>1, <2>1 DEF SendInv, OutInv
  <2>3. \A i \in 1 .. sending.n : m_outbox[i] \in Entries /\ m_outbox[i].id <= n
    BY <1>1, <2>2 DEF Numbered
  <2>4. \A id \in ids : id \in Nat /\ id <= n
    BY <2>3, Zenon DEF Entries
  <2>5. \A i \in 1 .. sending.n : m_outbox[i].by # "none" => m_outbox[i].id \in heard'
    BY <2>1, Zenon
  <2>6. \A id \in heard' : id \in Nat /\ id <= n
    BY <2>1, <2>4, Zenon DEF SendInv, OutInv
  <2>7. QED
    BY <1>1, <2>1, <2>2, <2>5, <2>6, Zenon DEF OutInv
<1>7. CASE SocketRefuses
  <2>1. sending' = [sending EXCEPT !.state = "failed"] /\ UNCHANGED <<m_outbox, heard, m_correlation_sequence>>
    BY <1>7, Zenon DEF SocketRefuses, clientVars, envVars
  <2>2. sending' \in [n : Nat, state : {"none", "pending", "ok", "failed"}] /\ sending'.n = sending.n
        /\ sending'.state = "failed"
    BY <2>1, Zenon DEF SendInv, OutInv
  <2>3. QED
    BY <1>1, <2>1, <2>2, Zenon DEF SendInv, OutInv
<1>8. QED
  BY <1>3, <1>4, <1>5, <1>6, <1>7, OutboxSteps, Zenon

\* Of the fields of a call, a step that is not its own changes the answer or
\* the report of the write, which the socket has decided.
LEMMA HeardInvInductive ==
    ASSUME CallInv, CallInv', SendInv, [Next]_vars
    PROVE  HeardInv'
PROOF
<1>1. call \in [Callers -> Call] /\ "start" \in Callers /\ "stop" \in Callers /\ Users \subseteq Callers
  BY Zenon DEF CallInv, Callers
<1>2. heard \subseteq heard'
  <2>1. CASE UNCHANGED heard
    BY <2>1, Zenon
  <2>2. CASE StrandWrite \/ WriteCallback \/ SocketWrites \/ SocketRefuses
    BY <2>2, Zenon DEF StrandWrite, WriteCallback, SocketWrites, SocketRefuses, strandVars, envVars
  <2>3. QED
    BY <2>1, <2>2, OutboxSteps, Zenon
<1>3. SUFFICES ASSUME NEW c \in Callers
               PROVE  /\ Busy(c)' /\ call'[c].wrote = "ok" => call'[c].id \in heard'
                      /\ call'[c].pc = "waiting" => call'[c].id \in heard'
  BY Zenon DEF HeardInv, WrittenWasSent
<1>4. /\ Busy(c) /\ call[c].wrote = "ok" => call[c].id \in heard
      /\ call[c].pc = "waiting" => call[c].id \in heard
  BY Zenon DEF SendInv, HeardInv, WrittenWasSent
<1>5. CASE call'[c] = call[c]
  BY <1>2, <1>4, <1>5, Zenon DEF Busy
<1>6. ASSUME NEW d \in Callers, Register(d) PROVE call'[c] = call[c] \/ (call'[c].pc = "registered" /\ call'[c].wrote = "none")
  BY <1>1, <1>6, Zenon DEF Register
<1>7. CASE StartSteps \/ StopSteps \/ \E u \in Users : UserCalls(u)
  <2>1. \/ call'[c] = call[c] \/ (call'[c].pc = "registered" /\ call'[c].wrote = "none")
        \/ StartAnswered
    BY <1>1, <1>6, <1>7, Zenon DEF StartSteps, StopSteps, UserCalls, StartConnects, StartRefused, StartRequests,
       StartSkipsVersions, StartTuned, StartEnds, StopExchange, StopRequested, StopJoins
  <2>2. CASE StartAnswered
    <3>1. call'[c] = call[c] \/ call'[c].pc = "none"
      BY <1>1, <2>2, Zenon DEF StartAnswered, Call
    <3>2. QED
      BY <1>5, <3>1, Zenon DEF Busy
  <2>3. QED
    BY <1>5, <2>1, <2>2, Zenon
<1>8. ASSUME NEW d \in Callers, RequestStep(d)
      PROVE  /\ Busy(c)' /\ call'[c].wrote = "ok" => call'[c].id \in heard'
             /\ call'[c].pc = "waiting" => call'[c].id \in heard'
  <2>1. CASE d # c
    <3>1. call'[c] = call[c]
      BY <1>1, <1>8, <2>1, Zenon DEF RequestStep, SendRequest, SendThrows, Written, Answered, TimedOut, DropLate
    <3>2. QED
      BY <1>5, <3>1, Zenon
  <2>2. CASE d = c
    <3>1. /\ Busy(c) /\ call'[c].id = call[c].id /\ call'[c].wrote = call[c].wrote
          /\ call'[c].pc = "waiting" => call[c].wrote = "ok" \/ call[c].answer = "waiting"
      BY <1>1, <1>8, <2>2 DEF RequestStep, SendRequest, SendThrows, Written, Answered, TimedOut, DropLate, Busy, Call
    <3>2. call[c].answer # "waiting"
      BY <1>1, Zenon DEF Call
    <3>3. QED
      BY <1>2, <1>4, <3>1, <3>2, Zenon
  <2>3. QED
    BY <2>1, <2>2, Zenon
<1>9. CASE HandleResponse \/ SkipFrame \/ \E a \in Closers : fail_all_outstanding_requests(a)
  <2>1. call'[c].pc = call[c].pc /\ call'[c].id = call[c].id /\ call'[c].wrote = call[c].wrote
    BY <1>1, <1>9 DEF HandleResponse, SkipFrame, complete_outstanding_request, fail_all_outstanding_requests, Call
  <2>2. QED
    BY <1>2, <1>4, <2>1, Zenon DEF Busy
<1>10. CASE WriteCallback
  <2>1. /\ call'[c].pc = call[c].pc /\ call'[c].id = call[c].id
        /\ \/ call'[c].wrote = call[c].wrote
           \/ /\ call'[c].wrote = sending.state
              /\ \E i \in 1 .. sending.n : m_outbox[i].by = c /\ m_outbox[i].id = call[c].id
    BY <1>1, <1>10, Zenon DEF WriteCallback, Handled, Call
  <2>2. c # "none"
    BY ClientAssumption, Zenon DEF Callers
  <2>3. call'[c].wrote = "ok" => call'[c].wrote = call[c].wrote \/ call[c].id \in heard
    BY <2>1, <2>2, Zenon DEF SendInv, OutInv
  <2>4. QED
    BY <1>2, <1>4, <2>1, <2>3, Zenon DEF Busy
<1>11. CASE UNCHANGED CallVars
  BY <1>5, <1>11, Zenon DEF CallVars
<1>12. CASE UNCHANGED vars
  BY <1>5, <1>12, Zenon DEF vars, clientVars
<1>13. QED
  BY <1>7, <1>8, <1>9, <1>10, <1>11, <1>12, OthersKeepCallVars, Zenon DEF Next, FrameSteps, StrandSteps, ShutdownStep

\* A step that begins, or goes on with, a shutdown.
LEMMA ClosingSteps ==
    ASSUME ShutInv, [Next]_vars
    PROVE  \/ UNCHANGED closing
           \/ \E a \in Closers, r \in BOOLEAN : closing' = [closing EXCEPT ![a] = [at |-> "socket", reason |-> r]]
           \/ \E a \in Closers : ShutdownStep(a)
PROOF
<1>1. Head(ShutdownOrder) = "socket" /\ {"stop", "frame", "idle"} \subseteq Closers
  BY ShutdownSteps, Zenon DEF Closers
<1>2. CASE UNCHANGED vars
  BY <1>2, Zenon DEF vars, clientVars
<1>3. CASE StartSteps \/ \E u \in Users : UserCalls(u)
  BY <1>3, Zenon DEF StartSteps, UserCalls, StartConnects, StartRefused, StartRequests, StartSkipsVersions,
              StartAnswered, StartTuned, StartEnds, startVars
<1>4. CASE StopSteps \/ FrameExits \/ ReaderIdle
  BY <1>1, <1>4, Zenon DEF StopSteps, StopExchange, StopRequested, StopJoins, FrameExits, ReaderIdle, BeginShutdown
<1>5. CASE UNCHANGED ShutVars
  BY <1>5, Zenon DEF ShutVars
<1>6. QED
  BY <1>2, <1>3, <1>4, <1>5, RequestsKeepShutVars, FramesKeepShutVars, NetworkKeepsShutVars, Zenon DEF Next

\* Nobody but start() opens the socket, and shutdown() closes it for good.
LEMMA SocketSteps ==
    ASSUME [Next]_vars, socket = "closed"
    PROVE  socket' = "closed" \/ StartConnects
PROOF
<1>1. CASE UNCHANGED vars
  BY <1>1, Zenon DEF vars, connectionVars
<1>2. CASE (StartSteps /\ ~StartConnects) \/ StopSteps \/ \E u \in Users : UserCalls(u)
  BY <1>2, Zenon DEF StartSteps, StopSteps, UserCalls, StartRefused, StartRequests, StartSkipsVersions, StartAnswered,
              StartTuned, StartEnds, StopExchange, StopRequested, StopJoins, startVars, connectionVars
<1>3. CASE \E c \in Callers : RequestStep(c)
  BY <1>3, Zenon DEF RequestStep, SendRequest, SendThrows, Written, Answered, TimedOut, DropLate, requestVars, connectionVars
<1>4. CASE FrameSteps
  BY <1>4, Zenon DEF FrameSteps, FrameReads, FrameGot, HandleResponse, HandleThrows, HandleClose, HandleTune, HandleTuned,
              SkipFrame, FrameExits, FrameEnds, frameVars, connectionVars
<1>5. CASE StrandSteps \/ SocketWrites \/ SocketRefuses
  BY <1>5, Zenon DEF StrandSteps, StrandWrite, StrandRead, StrandWriter, StrandReader, WriteCallback, FrameArrives, ReadFails,
              SocketWrites, SocketRefuses, strandVars
<1>6. CASE ReaderIdle \/ WriterIdle \/ BrokerCloses \/ ConnectionLost \/ \E id \in asked : BrokerAnswers(id) \/ BrokerFails(id)
  BY <1>6, Zenon DEF ReaderIdle, WriterIdle, BrokerCloses, ConnectionLost, BrokerAnswers, BrokerFails, BrokerSends,
              connectionVars
<1>7. CASE \E a \in Closers : ShutdownStep(a)
  BY <1>7, Zenon DEF ShutdownStep, CloseSocket, StrandShutdown, fail_all_outstanding_requests, Notify, connectionVars
<1>8. QED
  BY <1>1, <1>2, <1>3, <1>4, <1>5, <1>6, <1>7, Zenon DEF Next

\* A call that is without an answer was so before, or is new.
LEMMA UnansweredSteps ==
    ASSUME CallInv, [Next]_vars, NEW c \in Callers, Busy(c)', call'[c].answer = "none"
    PROVE  \/ Busy(c) /\ call[c].answer = "none" /\ call'[c].id = call[c].id
           \/ call'[c].id = m_correlation_sequence + 1 /\ UNCHANGED heard
PROOF
<1>1. call \in [Callers -> Call] /\ "start" \in Callers /\ "stop" \in Callers /\ Users \subseteq Callers
  BY Zenon DEF CallInv, Callers
<1>2. CASE call'[c] = call[c]
  BY <1>2, Zenon DEF Busy
<1>3. ASSUME NEW d \in Callers, Register(d)
      PROVE  call'[c] = call[c] \/ call'[c].id = m_correlation_sequence + 1
  BY <1>1, <1>3, Zenon DEF Register
<1>4. CASE StartSteps \/ StopSteps \/ \E u \in Users : UserCalls(u)
  <2>1. UNCHANGED heard
    BY <1>4, Zenon DEF StartSteps, StopSteps, UserCalls, StartConnects, StartRefused, StartRequests, StartSkipsVersions,
                StartAnswered, StartTuned, StartEnds, StopExchange, StopRequested, StopJoins, startVars, envVars
  <2>2. call'[c] = call[c] \/ call'[c].id = m_correlation_sequence + 1 \/ StartAnswered
    BY <1>1, <1>3, <1>4, Zenon DEF StartSteps, StopSteps, UserCalls, StartConnects, StartRefused, StartRequests,
       StartSkipsVersions, StartTuned, StartEnds, StopExchange, StopRequested, StopJoins
  <2>3. StartAnswered => call'[c] = call[c]
    <3>1. StartAnswered /\ c = "start" => call'[c].pc = "none"
      BY <1>1, ZenonT(60) DEF StartAnswered, Call
    <3>2. StartAnswered /\ c # "start" => call'[c] = call[c]
      BY <1>1, Zenon DEF StartAnswered
    <3>3. QED
      BY <3>1, <3>2, Zenon DEF Busy
  <2>4. QED
    BY <1>2, <2>1, <2>2, <2>3, Zenon
<1>5. ASSUME NEW d \in Callers, RequestStep(d)
      PROVE  Busy(c) /\ call[c].answer = "none" /\ call'[c].id = call[c].id
  <2>1. d # c => call'[c] = call[c]
    BY <1>1, <1>5, Zenon DEF RequestStep, SendRequest, SendThrows, Written, Answered, TimedOut, DropLate
  <2>2. d = c => Busy(c) /\ call'[c].id = call[c].id /\ call'[c].answer = call[c].answer
    BY <1>1, <1>5 DEF RequestStep, SendRequest, SendThrows, Written, Answered, TimedOut, DropLate, Busy, Call
  <2>3. QED
    BY <2>1, <2>2, Zenon DEF Busy
<1>6. CASE HandleResponse \/ SkipFrame
  <2>1. \/ call' = call
        \/ /\ frame.got.kind # "none"
           /\ call' = [d \in Callers |-> IF Busy(d) /\ call[d].id = frame.got.id /\ frame.got.id \in m_outstanding_requests
                                         THEN [call[d] EXCEPT !.answer = frame.got.kind] ELSE call[d]]
    BY <1>6, Zenon DEF HandleResponse, SkipFrame, complete_outstanding_request
  <2>2. call'[c] = call[c] \/ (frame.got.kind # "none" /\ call'[c] = [call[c] EXCEPT !.answer = frame.got.kind])
    BY <2>1, Zenon
  <2>3. call'[c] = call[c]
    BY <1>1, <2>2, Zenon DEF Call
  <2>4. QED
    BY <1>2, <2>3, Zenon
<1>7. CASE WriteCallback \/ \E a \in Closers : fail_all_outstanding_requests(a)
  <2>1. /\ call'[c].pc = call[c].pc /\ call'[c].id = call[c].id
        /\ call'[c].answer \in {call[c].answer, "failed"}
    BY <1>1, <1>7 DEF WriteCallback, fail_all_outstanding_requests, Call
  <2>2. QED
    BY <2>1, Zenon DEF Busy
<1>8. CASE UNCHANGED CallVars
  BY <1>2, <1>8, Zenon DEF CallVars
<1>9. CASE UNCHANGED vars
  BY <1>2, <1>9, Zenon DEF vars, clientVars
<1>10. QED
  BY <1>4, <1>5, <1>6, <1>7, <1>8, <1>9, OthersKeepCallVars, Zenon DEF Next, FrameSteps, StrandSteps, ShutdownStep

\* Once the requests were failed no later one is heard.
LEMMA LastInvInductive ==
    ASSUME ShutInv, CallInv, SendInv, LastInv, [Next]_vars
    PROVE  LastInv'
PROOF
<1> DEFINE Past(a) == closing[a].at \notin {"no", "socket"}
           Over(a) == closing[a].at \in {"notify", "done"}
<1>1. closing \in [Closers -> [at : ClosingStates, reason : BOOLEAN]]
  BY Zenon DEF ShutInv, ShutType
<1>2. ASSUME NEW a \in Closers, CloseSocket(a)
      PROVE  socket' = "closed" /\ \A b \in Closers : Over(b)' => Over(b)
  <2>1. socket' = "closed" /\ closing' = [closing EXCEPT ![a].at = "strand"]
    BY <1>2, ShutdownSteps, Zenon DEF CloseSocket
  <2>2. QED
    BY <1>1, <2>1, Zenon
<1>3. ASSUME NEW a \in Closers, StrandShutdown(a) PROVE \A b \in Closers : (Past(b)' => Past(b)) /\ (Over(b)' => Over(b))
  <2>1. closing[a].at = "strand" /\ closing' = [closing EXCEPT ![a].at = "fail"]
    BY <1>3, ShutdownSteps, Zenon DEF StrandShutdown
  <2>2. QED
    BY <1>1, <2>1, Zenon
<1>4. ASSUME NEW a \in Closers, fail_all_outstanding_requests(a) PROVE \A b \in Closers : Past(b)' => Past(b)
  <2>1. closing[a].at = "fail" /\ closing' = [closing EXCEPT ![a].at = "notify"]
    BY <1>4, ShutdownSteps, Zenon DEF fail_all_outstanding_requests
  <2>2. QED
    BY <1>1, <2>1, Zenon
<1>5. ASSUME NEW a \in Closers, Notify(a) PROVE \A b \in Closers : (Past(b)' => Past(b)) /\ (Over(b)' => Over(b))
  <2>1. closing[a].at = "notify" /\ closing' = [closing EXCEPT ![a].at = "done"]
    BY <1>5, Zenon DEF Notify
  <2>2. QED
    BY <1>1, <2>1, Zenon
<1>6. ASSUME NEW a \in Closers, NEW r \in BOOLEAN, closing' = [closing EXCEPT ![a] = [at |-> "socket", reason |-> r]]
      PROVE  \A b \in Closers : (Past(b)' => Past(b)) /\ (Over(b)' => Over(b))
  BY <1>1, <1>6, Zenon
<1>7. \A b \in Closers : Past(b)' => Past(b) \/ \E a \in Closers : CloseSocket(a)
  BY <1>3, <1>4, <1>5, <1>6, ClosingSteps, Zenon DEF ShutdownStep
<1>8. \A b \in Closers : Over(b)' => Over(b) \/ \E a \in Closers : fail_all_outstanding_requests(a)
  BY <1>2, <1>3, <1>5, <1>6, ClosingSteps, Zenon DEF ShutdownStep
<1>9. StartConnects => \A b \in Closers : closing'[b].at = "no"
  BY Zenon DEF StartConnects, ShutInv
<1>10. ASSUME NEW b \in Closers, Past(b)' PROVE socket' = "closed"
  <2>1. CASE \E a \in Closers : CloseSocket(a)
    BY <1>2, <2>1, Zenon
  <2>2. CASE Past(b)
    <3>1. socket = "closed"
      BY <2>2, Zenon DEF LastInv
    <3>2. QED
      BY <1>9, <1>10, <3>1, SocketSteps, Zenon
  <2>3. QED
    BY <1>7, <1>10, <2>1, <2>2, Zenon
<1>11. ASSUME NEW b \in Closers, NEW c \in Callers, Over(b)', Busy(c)', call'[c].answer = "none"
       PROVE  call'[c].id \notin heard'
  <2>1. CASE \E a \in Closers : fail_all_outstanding_requests(a)
    <3>1. call'[c] = IF Busy(c) /\ call[c].id \in m_outstanding_requests THEN [call[c] EXCEPT !.answer = "failed"]
                     ELSE call[c]
      BY <2>1, Zenon DEF fail_all_outstanding_requests
    <3>2. Busy(c) /\ call[c].answer = "none" => call[c].id \in m_outstanding_requests
      BY Zenon DEF CallInv
    <3>3. call[c] \in Call
      BY Zenon DEF CallInv
    <3>4. QED
      BY <1>11, <3>1, <3>2, <3>3, Zenon DEF Busy, Call
  <2>2. CASE Over(b)
    <3>1. socket = "closed"
      BY <2>2, Zenon DEF LastInv
    <3>2. UNCHANGED heard
      <4>1. ~SocketWrites
        BY <3>1, Zenon DEF SocketWrites
      <4>2. QED
        BY <4>1, OutboxSteps, Zenon DEF StrandWrite, WriteCallback, SocketRefuses, strandVars, envVars
    <3>3. CASE Busy(c) /\ call[c].answer = "none" /\ call'[c].id = call[c].id
      BY <2>2, <3>2, <3>3, Zenon DEF LastInv
    <3>4. CASE call'[c].id = m_correlation_sequence + 1
      <4>1. m_correlation_sequence + 1 \notin heard
        BY DEF SendInv, OutInv, CallInv
      <4>2. QED
        BY <3>2, <3>4, <4>1, Zenon
    <3>5. QED
      BY <1>11, <3>3, <3>4, UnansweredSteps, Zenon
  <2>3. QED
    BY <1>8, <1>11, <2>1, <2>2, Zenon
<1>12. QED
  BY <1>10, <1>11, Zenon DEF LastInv

ClientInv == ShutInv /\ CallInv /\ SendInv /\ LastInv

\* The strengthened invariant holds in every behaviour.
LEMMA ClientInvHolds == Spec => []ClientInv
PROOF
<1>1. Init => ClientInv
  <2>1. SUFFICES ASSUME Init PROVE ClientInv
    OBVIOUS
  <2>2. ShutInv
    BY <2>1 DEF Init, ShutInv, ShutType, Closers, ClosingStates
  <2>3. CallInv
    BY <2>1 DEF Init, CallInv, Call, Busy, Callers
  <2>4. SendInv
    BY <2>1 DEF Init, SendInv, Numbered, OutInv, HeardInv, WrittenWasSent, Busy
  <2>5. LastInv
    BY <2>1, Zenon DEF Init, LastInv
  <2>6. QED
    BY <2>2, <2>3, <2>4, <2>5, Zenon DEF ClientInv
<1>2. ClientInv /\ [Next]_vars => ClientInv'
  BY ShutInvInductive, CallInvInductive, NumberedPosted, OutInvInductive, HeardInvInductive, LastInvInductive, Zenon
     DEF ClientInv, SendInv
<1>3. QED
  BY <1>1, <1>2, PTL DEF Spec

\* No way out of send_request_wait_response leaves an entry in
\* m_outstanding_requests, whatever is answered, times out or is shut down.
THEOREM RequestsNotLeaked == Spec => []NoLeakedRequest
PROOF
<1>1. ClientInv => NoLeakedRequest
  BY Zenon DEF ClientInv, CallInv, NoLeakedRequest
<1>2. QED
  BY <1>1, ClientInvHolds, PTL

\* The callback of async_write reports success only to the requests that were in
\* the buffers of that write.
THEOREM SuccessWasSent == Spec => []WrittenWasSent
PROOF
<1>1. ClientInv => WrittenWasSent
  BY Zenon DEF ClientInv, SendInv, HeardInv
<1>2. QED
  BY <1>1, ClientInvHolds, PTL

\* After shutdown() has failed the outstanding requests, nobody waits for an
\* answer without having one: a request that came too late to be failed finds
\* the socket closed, and never gets to wait.
THEOREM NobodyWaits == Spec => []NobodyLeftWaiting
PROOF
<1>1. ClientInv => NobodyLeftWaiting
  BY Zenon DEF ClientInv, SendInv, HeardInv, LastInv, NobodyLeftWaiting, Busy
<1>2. QED
  BY <1>1, ClientInvHolds, PTL

\* Every variable that TypeOK constrains keeps its type; in particular the
\* entries of m_outstanding_requests were given out by m_correlation_sequence,
\* and a write in flight is not longer than the outbox.
THEOREM ClientTypes == Spec => []TypeOK
PROOF
<1>1. ClientInv => TypeOK
  <2>1. SUFFICES ASSUME ClientInv PROVE TypeOK
    OBVIOUS
  <2>2. m_outstanding_requests \subseteq 1 .. m_correlation_sequence
    BY <2>1 DEF ClientInv, CallInv, Call
  <2>3. Len(m_outbox) \in Nat /\ sending.n \in Nat /\ sending.n <= Len(m_outbox)
    BY <2>1 DEF ClientInv, SendInv, OutInv, Numbered
  <2>4. QED
    BY <2>1, <2>2, <2>3 DEF ClientInv, ShutInv, ShutType, CallInv, TypeOK
<1>2. QED
  BY <1>1, ClientInvHolds, PTL
=============================================================================
