------------------------------- MODULE Client -------------------------------
(***************************************************************************)
(* ClientImpl on top of Connection: start() with its handshake, requests   *)
(* of application threads, stop(), the frame handling thread, and the      *)
(* strand of the connection with its outbox, inbox, read chain and idle    *)
(* timers.  Whoever finds the client stopping leaves the shutdown to the   *)
(* one that made it so.                                                    *)
(*                                                                         *)
(* A handler on the strand is one step, except the reader idle handler,    *)
(* which shuts the client down step by step while the strand waits.        *)
(* Frames that need no request (deliveries, confirms, errors, metadata,    *)
(* heartbeats of the broker) change nothing here.                          *)
(***************************************************************************)
EXTENDS Integers, FiniteSets, Sequences

CONSTANTS
    Users,                      \* application threads
    Configs                     \* what a behaviour may contain, see ClientAssumption

\* A negotiated heartbeat or none; whether the application calls stop(); bounds
\* on its requests, on what network and broker do wrong, and on heartbeats.
ASSUME ClientAssumption ==
    /\ {"none", "start", "stop"} \cap Users = {}
    /\ Configs \subseteq [heartbeat : BOOLEAN, stops : BOOLEAN, requests : Nat, faults : Nat, beats : Nat]

VARIABLES
    conf,
    m_status,
    step,                       \* where start() is
    stopper,                    \* where stop() is
    m_correlation_sequence,
    m_outstanding_requests,     \* correlation ids
    call,                       \* per caller: its request, see Call
    frame,                      \* the frame handling thread: where it is, the future it waits for
    closing,                    \* per actor: where it is in shutdown(), and if it has a reason
    notified,                   \* calls of m_shutdown_listener
    m_tune_promise,             \* is set
    socket,                     \* "unopened", "open", "lost", "closed"
    posted,                     \* handlers posted to the strand
    m_outbox, sending,          \* entries; the async_write in flight: how many, and its state
    chain,                      \* the read chain has an async_read pending
    m_connection_failed, m_inbox, m_pending_read,
    idle,                       \* reader: handler set, timer armed; writer: handler set
    asked, heard, inbound,      \* requests the broker has to answer, all it got, frames on their way back
    faults, beats

connectionVars == <<socket, posted, m_outbox, sending, chain, m_connection_failed, m_inbox, m_pending_read, idle>>
clientVars     == <<conf, m_status, step, stopper, m_correlation_sequence, m_outstanding_requests, call, frame,
                    closing, notified, m_tune_promise>>
envVars        == <<asked, heard, inbound, faults, beats>>

vars == <<clientVars, connectionVars, envVars>>

Callers  == Users \cup {"start", "stop"}
Closers  == {"frame", "stop", "idle"}

\* The states of a request: "registered" in m_outstanding_requests, "writing"
\* until the future of the write is ready, "waiting" for the response, "late"
\* after the timeout, then "ok", "error" (a response code) or "failed".
Call == [pc : {"none", "registered", "writing", "waiting", "late", "ok", "error", "failed"},
         id : Nat, wrote : {"none", "ok", "failed"}, answer : {"none", "ok", "error", "failed"}]

Busy(c) == call[c].pc \notin {"none", "ok", "error", "failed"}

Init ==
    /\ conf \in Configs
    /\ m_status = "Initialized" /\ step = "initial" /\ stopper = "none"
    /\ m_correlation_sequence = 0 /\ m_outstanding_requests = {}
    /\ call = [c \in Callers |-> [pc |-> "none", id |-> 0, wrote |-> "none", answer |-> "none"]]
    /\ frame = [pc |-> "none", got |-> [kind |-> "none", id |-> 0]]
    /\ closing = [a \in Closers |-> [at |-> "no", reason |-> FALSE]]
    /\ notified = 0 /\ m_tune_promise = FALSE
    /\ socket = "unopened" /\ posted = <<>>
    /\ m_outbox = <<>> /\ sending = [n |-> 0, state |-> "none"]
    /\ chain = FALSE /\ m_connection_failed = TRUE /\ m_inbox = <<>> /\ m_pending_read = FALSE
    /\ idle = [reader |-> FALSE, armed |-> FALSE, writer |-> FALSE]
    /\ asked = {} /\ heard = {} /\ inbound = <<>> /\ faults = 0 /\ beats = 0

-----------------------------------------------------------------------------
(* Requests                                                                *)

\* send_request up to the end of its locked part.
Register(c) ==
    /\ m_correlation_sequence' = m_correlation_sequence + 1
    /\ m_outstanding_requests' = m_outstanding_requests \cup {m_correlation_sequence'}
    /\ call' = [call EXCEPT ![c] = [pc |-> "registered", id |-> m_correlation_sequence', wrote |-> "none",
                                    answer |-> "none"]]

Entry(c) == [op |-> "write", by |-> c, id |-> call[c].id]

\* A frame whose future nobody waits for.
Unwatched == [op |-> "write", by |-> "none", id |-> 0]

\* send_frame
SendRequest(c) ==
    /\ call[c].pc = "registered"
    /\ call' = [call EXCEPT ![c].pc = "writing"]
    /\ posted' = Append(posted, Entry(c))
    /\ UNCHANGED <<conf, m_status, step, stopper, m_correlation_sequence, m_outstanding_requests, frame, closing,
                   notified, m_tune_promise, socket, m_outbox, sending, chain, m_connection_failed, m_inbox,
                   m_pending_read, idle, envVars>>

\* Faulty variant: the entry is kept.
KeptRequest(ids, id) == ids

\* drop_outstanding_request
DroppedRequest(ids, id) == ids \ {id}

requestVars == <<conf, m_status, step, stopper, m_correlation_sequence, frame, closing, notified, m_tune_promise,
                 connectionVars, envVars>>

\* send_frame throws, for a frame that is too large.
SendThrows(c) ==
    /\ c \in Users /\ call[c].pc = "registered"
    /\ call' = [call EXCEPT ![c].pc = "failed"]
    /\ m_outstanding_requests' = DroppedRequest(m_outstanding_requests, call[c].id)
    /\ UNCHANGED requestVars

\* send_frame(request).get()
Written(c) ==
    /\ call[c].pc = "writing" /\ call[c].wrote # "none"
    /\ IF call[c].wrote = "ok"
       THEN call' = [call EXCEPT ![c].pc = "waiting"] /\ UNCHANGED m_outstanding_requests
       ELSE /\ call' = [call EXCEPT ![c].pc = "failed"]
            /\ m_outstanding_requests' = DroppedRequest(m_outstanding_requests, call[c].id)
    /\ UNCHANGED requestVars

\* The future is ready: a value or the exception of fail_all_outstanding_requests.
Answered(c) ==
    /\ call[c].pc = "waiting" /\ call[c].answer # "none"
    /\ call' = [call EXCEPT ![c].pc = call[c].answer]
    /\ m_outstanding_requests' = IF call[c].answer = "failed"
                                 THEN DroppedRequest(m_outstanding_requests, call[c].id) ELSE m_outstanding_requests
    /\ UNCHANGED requestVars

\* A frame f with P(f) is being sent, received or handled.
Coming(P(_)) ==
    /\ frame.pc \notin {"none", "exit", "shutdown", "ended"}
    /\ \/ chain /\ \E i \in DOMAIN inbound : P(inbound[i])
       \/ \E i \in DOMAIN m_inbox : P(m_inbox[i])
       \/ frame.pc # "read" /\ P(frame.got)

Awaited(id) == id \in asked \/ Coming(LAMBDA f : f.id = id)

\* A timeout before the answer, counted, or after there is none to come.
Expires(due) == IF due THEN UNCHANGED faults ELSE faults < conf.faults /\ faults' = faults + 1

\* wait_for(m_rpc_timeout); an answer may still come before the entry is dropped.
TimedOut(c) ==
    /\ call[c].pc = "waiting" /\ call[c].answer = "none"
    /\ Expires(~Awaited(call[c].id))
    /\ call' = [call EXCEPT ![c].pc = "late"]
    /\ UNCHANGED <<conf, m_status, step, stopper, m_correlation_sequence, frame, closing, notified, m_tune_promise,
                   connectionVars, asked, heard, inbound, beats, m_outstanding_requests>>

DropLate(c) ==
    /\ call[c].pc = "late"
    /\ call' = [call EXCEPT ![c].pc = "failed"]
    /\ m_outstanding_requests' = DroppedRequest(m_outstanding_requests, call[c].id)
    /\ UNCHANGED requestVars

\* A thread of the application that has the client makes a request.
UserCalls(u) ==
    /\ step = "started" /\ ~Busy(u)
    /\ Cardinality({c \in Users : call[c].pc # "none"}) < conf.requests
    /\ Register(u)
    /\ UNCHANGED <<conf, m_status, step, stopper, frame, closing, notified, m_tune_promise, connectionVars,
                   envVars>>

-----------------------------------------------------------------------------
(* start()                                                                 *)

RequestSteps == {"peer", "handshake", "authenticate", "open", "versions"}

After(s) == CASE s = "peer" -> "handshake" [] s = "handshake" -> "authenticate" [] s = "authenticate" -> "tune"
              [] s = "open" -> "versions" [] s = "versions" -> "last"

\* connect(), and the thread is created.
StartConnects ==
    /\ step = "initial"
    /\ m_status' = "Starting" /\ step' = "peer"
    /\ socket' = "open" /\ m_connection_failed' = FALSE /\ chain' = TRUE
    /\ frame' = [frame EXCEPT !.pc = "read"]
    /\ UNCHANGED <<conf, stopper, m_correlation_sequence, m_outstanding_requests, call, closing, notified,
                   m_tune_promise, posted, m_outbox, sending, m_inbox, m_pending_read, idle, envVars>>

startVars == <<conf, stopper, frame, closing, notified, m_tune_promise, connectionVars, asked, heard, inbound, beats>>

StartRefused ==
    /\ step = "initial" /\ faults < conf.faults
    /\ m_status' = "Starting" /\ step' = "catch" /\ faults' = faults + 1
    /\ UNCHANGED <<startVars, m_correlation_sequence, m_outstanding_requests, call>>

StartRequests ==
    /\ step \in RequestSteps /\ call["start"].pc = "none"
    /\ Register("start")
    /\ UNCHANGED <<startVars, m_status, step, faults>>

\* maybe_exchange_command_versions finds an old broker.
StartSkipsVersions ==
    /\ step = "versions" /\ call["start"].pc = "none"
    /\ step' = "last"
    /\ UNCHANGED <<startVars, m_status, m_correlation_sequence, m_outstanding_requests, call, faults>>

\* A response code is an exception, which only the last request survives.
StartAnswered ==
    /\ step \in RequestSteps /\ call["start"].pc \in {"ok", "error", "failed"}
    /\ step' = IF call["start"].pc = "ok" \/ (call["start"].pc = "error" /\ step = "versions")
               THEN After(step) ELSE "catch"
    /\ call' = [call EXCEPT !["start"].pc = "none"]
    /\ UNCHANGED <<startVars, m_status, m_correlation_sequence, m_outstanding_requests, faults>>

StartTuned ==
    /\ step = "tune"
    /\ IF m_tune_promise THEN step' = "open" /\ UNCHANGED faults
       ELSE step' = "catch" /\ Expires(~Coming(LAMBDA f : f.kind = "tune"))
    /\ UNCHANGED <<startVars, m_status, m_correlation_sequence, m_outstanding_requests, call>>

StartEnds ==
    /\ step = "last"
    /\ IF m_status = "Starting" THEN m_status' = "Started" /\ step' = "started"
                                ELSE m_status' = m_status /\ step' = "catch"
    /\ UNCHANGED <<startVars, m_correlation_sequence, m_outstanding_requests, call, faults>>

-----------------------------------------------------------------------------
(* stop() and shutdown()                                                   *)

\* Faulty variant: the requests are failed before the socket is closed.
ShutdownFailsFirst == <<"fail", "socket", "strand", "notify", "done">>

\* The steps of shutdown().
ShutdownOrder == <<"socket", "strand", "fail", "notify", "done">>

Following(at) == ShutdownOrder[CHOOSE i \in 2 .. Len(ShutdownOrder) : ShutdownOrder[i - 1] = at]

BeginShutdown(a, reason) == closing' = [closing EXCEPT ![a] = [at |-> Head(ShutdownOrder), reason |-> reason]]

\* From the catch of start(), or by the application or the destructor once
\* start() is over.
StopExchange ==
    /\ stopper = "none" /\ (step \in {"catch", "thrown"} \/ (step = "started" /\ conf.stops))
    /\ m_status' = "Stopping"
    /\ CASE m_status = "Started"  -> stopper' = "request" /\ Register("stop") /\ UNCHANGED closing
         [] m_status = "Stopping" -> /\ stopper' = "join"
                                     /\ UNCHANGED <<closing, m_correlation_sequence, m_outstanding_requests, call>>
         [] OTHER                 -> /\ stopper' = "shutdown" /\ BeginShutdown("stop", FALSE)
                                     /\ UNCHANGED <<m_correlation_sequence, m_outstanding_requests, call>>
    /\ UNCHANGED <<conf, step, frame, notified, m_tune_promise, connectionVars, envVars>>

\* The close request was answered or has failed.
StopRequested ==
    /\ stopper = "request" /\ ~Busy("stop")
    /\ stopper' = "shutdown" /\ BeginShutdown("stop", TRUE)
    /\ UNCHANGED <<conf, m_status, step, m_correlation_sequence, m_outstanding_requests, call, frame, notified,
                   m_tune_promise, connectionVars, envVars>>

\* The thread is joined, if there is one; start() rethrows.
StopJoins ==
    /\ stopper = "join" \/ (stopper = "shutdown" /\ closing["stop"].at = "done")
    /\ frame.pc \in {"none", "ended"}
    /\ IF step = "catch" THEN stopper' = "none" /\ step' = "thrown" ELSE stopper' = "returned" /\ UNCHANGED step
    /\ UNCHANGED <<conf, m_status, m_correlation_sequence, m_outstanding_requests, call, frame, closing, notified,
                   m_tune_promise, connectionVars, envVars>>

\* Connection::shutdown closes the socket, from any thread ...
CloseSocket(a) ==
    /\ closing[a].at = "socket"
    /\ socket' = "closed" /\ asked' = {} /\ inbound' = <<>>
    /\ posted' = IF a = "idle" THEN posted ELSE Append(posted, [op |-> "shutdown", by |-> a, id |-> 0])
    /\ closing' = [closing EXCEPT ![a].at = Following("socket")]
    /\ UNCHANGED <<conf, m_status, step, stopper, m_correlation_sequence, m_outstanding_requests, call, frame,
                   notified, m_tune_promise, m_outbox, sending, chain, m_connection_failed, m_inbox, m_pending_read,
                   idle, heard, faults, beats>>

StrandBusy == closing["idle"].at \notin {"no", "done"}

NoHandlers == [reader |-> FALSE, armed |-> FALSE, writer |-> FALSE]

\* ... and dispatches to the strand, where the idle handler already is.
StrandShutdown(a) ==
    /\ closing[a].at = "strand"
    /\ \/ a = "idle" /\ UNCHANGED posted
       \/ /\ a # "idle" /\ ~StrandBusy
          /\ posted # <<>> /\ Head(posted) = [op |-> "shutdown", by |-> a, id |-> 0]
          /\ posted' = Tail(posted)
    /\ idle' = NoHandlers
    /\ closing' = [closing EXCEPT ![a].at = Following("strand")]
    /\ UNCHANGED <<conf, m_status, step, stopper, m_correlation_sequence, m_outstanding_requests, call, frame,
                   notified, m_tune_promise, socket, m_outbox, sending, chain, m_connection_failed, m_inbox,
                   m_pending_read, envVars>>

fail_all_outstanding_requests(a) ==
    /\ closing[a].at = "fail"
    /\ call' = [c \in Callers |-> IF Busy(c) /\ call[c].id \in m_outstanding_requests
                                  THEN [call[c] EXCEPT !.answer = "failed"] ELSE call[c]]
    /\ m_outstanding_requests' = {}
    /\ closing' = [closing EXCEPT ![a].at = Following("fail")]
    /\ UNCHANGED <<conf, m_status, step, stopper, m_correlation_sequence, frame, notified, m_tune_promise,
                   connectionVars, envVars>>

\* m_shutdown_listener
Notify(a) ==
    /\ closing[a].at = "notify"
    /\ notified' = IF closing[a].reason THEN notified + 1 ELSE notified
    /\ closing' = [closing EXCEPT ![a].at = "done"]
    /\ UNCHANGED <<conf, m_status, step, stopper, m_correlation_sequence, m_outstanding_requests, call, frame,
                   m_tune_promise, connectionVars, envVars>>

-----------------------------------------------------------------------------
(* handle_frames()                                                         *)

frameVars == <<conf, step, stopper, m_correlation_sequence, notified, socket, m_outbox, sending, chain,
               m_connection_failed, m_inbox, m_pending_read, idle, envVars>>

\* m_connection->read()
FrameReads ==
    /\ frame.pc = "read"
    /\ frame' = [pc |-> "wait", got |-> [kind |-> "none", id |-> 0]]
    /\ posted' = Append(posted, [op |-> "read", by |-> "none", id |-> 0])
    /\ UNCHANGED <<frameVars, m_status, m_outstanding_requests, call, closing, m_tune_promise>>

\* The future is ready; the status decides what is done with a frame.
FrameGot ==
    /\ frame.pc = "wait" /\ frame.got.kind # "none"
    /\ frame' = [frame EXCEPT !.pc = CASE frame.got.kind = "failure" -> "exit"
                                       [] frame.got.kind # "failure" /\ m_status # "Stopping" -> "handle"
                                       [] OTHER -> "skip"]
    /\ UNCHANGED <<frameVars, m_status, m_outstanding_requests, call, closing, m_tune_promise, posted>>

\* An unknown id is logged.
complete_outstanding_request(response) ==
    /\ call' = [c \in Callers |-> IF Busy(c) /\ call[c].id = response.id /\ response.id \in m_outstanding_requests
                                  THEN [call[c] EXCEPT !.answer = response.kind] ELSE call[c]]
    /\ m_outstanding_requests' = m_outstanding_requests \ {response.id}

HandleResponse ==
    /\ frame.pc = "handle" /\ frame.got.kind \in {"ok", "error"}
    /\ complete_outstanding_request(frame.got)
    /\ frame' = [frame EXCEPT !.pc = "read"]
    /\ UNCHANGED <<frameVars, m_status, closing, m_tune_promise, posted>>

\* An exception other than the two is logged: the frame is as good as lost.
HandleThrows ==
    /\ frame.pc = "handle" /\ frame.got.kind \in {"ok", "error"} /\ faults < conf.faults
    /\ faults' = faults + 1
    /\ frame' = [frame EXCEPT !.pc = "read"]
    /\ UNCHANGED <<conf, step, stopper, m_correlation_sequence, notified, connectionVars, asked, heard, inbound, beats,
                   m_status, m_outstanding_requests, call, closing, m_tune_promise>>

\* handle_close
HandleClose ==
    /\ frame.pc = "handle" /\ frame.got.kind = "close"
    /\ posted' = Append(posted, Unwatched)
    /\ frame' = [frame EXCEPT !.pc = "exit"]
    /\ UNCHANGED <<frameVars, m_status, m_outstanding_requests, call, closing, m_tune_promise>>

\* handle_tune answers, and sets the idle handlers one after the other.
HandleTune ==
    /\ frame.pc = "handle" /\ frame.got.kind = "tune"
    /\ posted' = IF conf.heartbeat THEN posted \o <<Unwatched, [op |-> "writer", by |-> "none", id |-> 0]>>
                              ELSE Append(posted, Unwatched)
    /\ frame' = [frame EXCEPT !.pc = IF conf.heartbeat THEN "writer" ELSE "tuned"]
    /\ UNCHANGED <<frameVars, m_status, m_outstanding_requests, call, closing, m_tune_promise>>

HandleTuned ==
    /\ frame.pc = "tuned"
    /\ m_tune_promise' = TRUE
    /\ frame' = [frame EXCEPT !.pc = "read"]
    /\ UNCHANGED <<frameVars, m_status, m_outstanding_requests, call, closing, posted>>

\* While stopping: only the response to the close request counts.
SkipFrame ==
    /\ frame.pc = "skip"
    /\ IF frame.got.kind \in {"ok", "error"} /\ frame.got.id = call["stop"].id
       THEN complete_outstanding_request(frame.got) /\ frame' = [frame EXCEPT !.pc = "exit"]
       ELSE frame' = [frame EXCEPT !.pc = "read"] /\ UNCHANGED <<m_outstanding_requests, call>>
    /\ UNCHANGED <<frameVars, m_status, closing, m_tune_promise, posted>>

\* Faulty variant: a client that is stopping already is shut down again.
ExchangedAlways == m_status \in {"Started", "Stopping"}

\* Faulty variant: the wrong status is expected.
ExchangedStarting == m_status = "Starting"

\* compare_exchange_strong(Started, Stopping) of whoever finds the connection
\* lost.
Exchanged == m_status = "Started"

FrameExits ==
    /\ frame.pc = "exit"
    /\ IF Exchanged
       THEN m_status' = "Stopping" /\ BeginShutdown("frame", TRUE) /\ frame' = [frame EXCEPT !.pc = "shutdown"]
       ELSE UNCHANGED <<m_status, closing>> /\ frame' = [frame EXCEPT !.pc = "ended"]
    /\ UNCHANGED <<frameVars, m_outstanding_requests, call, m_tune_promise, posted>>

FrameEnds ==
    /\ frame.pc = "shutdown" /\ closing["frame"].at = "done"
    /\ frame' = [frame EXCEPT !.pc = "ended"]
    /\ UNCHANGED <<frameVars, m_status, m_outstanding_requests, call, closing, m_tune_promise, posted>>

-----------------------------------------------------------------------------
(* Connection: handlers posted to the strand                               *)

strandVars == <<conf, m_status, step, stopper, m_correlation_sequence, m_outstanding_requests, closing, notified,
                m_tune_promise, socket, envVars>>

Runs(op) == ~StrandBusy /\ posted # <<>> /\ Head(posted).op = op /\ posted' = Tail(posted)

\* Sends everything that is in the outbox.
send_outbox(outbox) == sending' = IF outbox = <<>> THEN [n |-> 0, state |-> "none"]
                                  ELSE [n |-> Len(outbox), state |-> "pending"]

StrandWrite ==
    /\ Runs("write")
    /\ m_outbox' = Append(m_outbox, Head(posted))
    /\ IF Len(m_outbox') = 1 THEN send_outbox(m_outbox') ELSE UNCHANGED sending
    /\ UNCHANGED <<strandVars, call, frame, chain, m_connection_failed, m_inbox, m_pending_read, idle>>

Failure == [kind |-> "failure", id |-> 0]

StrandRead ==
    /\ Runs("read")
    /\ CASE m_inbox # <<>> -> /\ frame' = [frame EXCEPT !.got = Head(m_inbox)] /\ m_inbox' = Tail(m_inbox)
                              /\ UNCHANGED m_pending_read
         [] m_inbox = <<>> /\ m_connection_failed -> /\ frame' = [frame EXCEPT !.got = Failure]
                                                     /\ UNCHANGED <<m_inbox, m_pending_read>>
         [] OTHER -> m_pending_read' = TRUE /\ UNCHANGED <<frame, m_inbox>>
    /\ UNCHANGED <<strandVars, call, m_outbox, sending, chain, m_connection_failed, idle>>

\* set_writer_idle_handler; the thread that waits goes on to the other.
StrandWriter ==
    /\ ~StrandBusy /\ posted # <<>> /\ Head(posted).op = "writer"
    /\ posted' = Append(Tail(posted), [op |-> "reader", by |-> "none", id |-> 0])
    /\ idle' = [idle EXCEPT !.writer = TRUE]
    /\ frame' = [frame EXCEPT !.pc = "reader"]
    /\ UNCHANGED <<strandVars, call, m_outbox, sending, chain, m_connection_failed, m_inbox, m_pending_read>>

\* set_reader_idle_handler
StrandReader ==
    /\ Runs("reader")
    /\ idle' = [idle EXCEPT !.reader = TRUE, !.armed = TRUE]
    /\ frame' = [frame EXCEPT !.pc = "tuned"]
    /\ UNCHANGED <<strandVars, call, m_outbox, sending, chain, m_connection_failed, m_inbox, m_pending_read>>

-----------------------------------------------------------------------------
(* Connection: completions and timers                                      *)

\* The socket takes the buffers of an async_write, or refuses them.
SocketWrites ==
    /\ sending.state = "pending" /\ socket = "open"
    /\ sending' = [sending EXCEPT !.state = "ok"]
    /\ LET ids == {m_outbox[i].id : i \in {j \in 1 .. sending.n : m_outbox[j].by # "none"}}
       IN  asked' = asked \cup ids /\ heard' = heard \cup ids
    /\ UNCHANGED <<clientVars, socket, posted, m_outbox, chain, m_connection_failed, m_inbox, m_pending_read, idle,
                   inbound, faults, beats>>

SocketRefuses ==
    /\ sending.state = "pending" /\ socket # "open"
    /\ sending' = [sending EXCEPT !.state = "failed"]
    /\ UNCHANGED <<clientVars, socket, posted, m_outbox, chain, m_connection_failed, m_inbox, m_pending_read, idle,
                   envVars>>

\* Faulty variant: the callback looks at the outbox as it is now.
HandledAll == Len(m_outbox)

\* nb_buffers
Handled == sending.n

\* The callback of send_outbox.
WriteCallback ==
    /\ sending.state \in {"ok", "failed"} /\ ~StrandBusy
    /\ call' = [c \in Callers |-> IF \E i \in 1 .. Handled : m_outbox[i].by = c /\ m_outbox[i].id = call[c].id
                                  THEN [call[c] EXCEPT !.wrote = sending.state] ELSE call[c]]
    /\ m_outbox' = SubSeq(m_outbox, Handled + 1, Len(m_outbox))
    /\ send_outbox(m_outbox')
    /\ UNCHANGED <<strandVars, posted, frame, chain, m_connection_failed, m_inbox, m_pending_read, idle>>

\* post_to_inbox, and the next read begins; the reader timer starts anew.
FrameArrives ==
    /\ chain /\ ~StrandBusy /\ inbound # <<>> /\ socket # "closed"
    /\ inbound' = Tail(inbound)
    /\ idle' = [idle EXCEPT !.armed = idle.reader]
    /\ IF m_pending_read
       THEN /\ frame' = [frame EXCEPT !.got = Head(inbound)] /\ m_pending_read' = FALSE
            /\ UNCHANGED m_inbox
       ELSE m_inbox' = Append(m_inbox, Head(inbound)) /\ UNCHANGED <<frame, m_pending_read>>
    /\ UNCHANGED <<conf, m_status, step, stopper, m_correlation_sequence, m_outstanding_requests, call, closing,
                   notified, m_tune_promise, socket, posted, m_outbox, sending, chain, m_connection_failed, asked,
                   heard, faults, beats>>

\* Faulty variant: who already waits for a frame is not told.
ToldNot(f) == f

\* The pending read fails.
ToldFailure(f) == IF m_pending_read THEN [f EXCEPT !.got = Failure] ELSE f

ReadFails ==
    /\ chain /\ ~StrandBusy /\ socket # "open"
    /\ chain' = FALSE /\ m_connection_failed' = TRUE
    /\ frame' = ToldFailure(frame) /\ m_pending_read' = FALSE
    /\ UNCHANGED <<strandVars, call, posted, m_outbox, sending, m_inbox, idle>>

\* start() waits for the broker, and all that was received is handled.
StartWaits ==
    /\ \/ frame.pc = "wait" /\ m_pending_read /\ frame.got.kind = "none"
       \/ frame.pc = "ended"
    /\ \/ step \in RequestSteps /\ call["start"].pc = "waiting" /\ call["start"].answer = "none"
       \/ step = "tune" /\ ~m_tune_promise

\* The heartbeat is longer than start() ever takes without waiting.
TimersExpire == step \in {"started", "catch", "thrown"} \/ StartWaits

\* The reader timer expires: nothing was read for twice the heartbeat.  Only a
\* read starts it again.
ReaderIdle ==
    /\ idle.reader /\ idle.armed /\ ~StrandBusy /\ TimersExpire
    /\ idle' = [idle EXCEPT !.armed = FALSE]
    /\ IF Exchanged THEN m_status' = "Stopping" /\ BeginShutdown("idle", TRUE)
                    ELSE UNCHANGED <<m_status, closing>>
    /\ UNCHANGED <<conf, step, stopper, m_correlation_sequence, m_outstanding_requests, call, frame, notified,
                   m_tune_promise, socket, posted, m_outbox, sending, chain, m_connection_failed, m_inbox,
                   m_pending_read, envVars>>

\* The writer timer expires.
WriterIdle ==
    /\ idle.writer /\ ~StrandBusy /\ TimersExpire /\ beats < conf.beats
    /\ beats' = beats + 1
    /\ posted' = Append(posted, Unwatched)
    /\ UNCHANGED <<clientVars, socket, m_outbox, sending, chain, m_connection_failed, m_inbox, m_pending_read, idle,
                   asked, heard, inbound, faults>>

-----------------------------------------------------------------------------
(* The broker and the network                                              *)

BrokerSends(frames) ==
    /\ socket = "open"
    /\ inbound' = inbound \o frames
    /\ UNCHANGED <<clientVars, connectionVars, heard, beats>>

Tune == [kind |-> "tune", id |-> 0]

\* Once the client has authenticated itself, the broker tunes.
BrokerAnswers(id) ==
    /\ id \in asked /\ asked' = asked \ {id}
    /\ BrokerSends(<<[kind |-> "ok", id |-> id]>>
                      \o IF step = "authenticate" /\ id = call["start"].id THEN <<Tune>> ELSE <<>>)
    /\ UNCHANGED faults

\* It refuses a request, or ignores it.
BrokerFails(id) ==
    /\ id \in asked /\ asked' = asked \ {id}
    /\ faults < conf.faults /\ faults' = faults + 1
    /\ BrokerSends(<<[kind |-> "error", id |-> id]>>) \/ BrokerSends(<<>>)

BrokerCloses ==
    /\ step = "started" /\ faults < conf.faults /\ faults' = faults + 1
    /\ BrokerSends(<<[kind |-> "close", id |-> 0]>>)
    /\ UNCHANGED asked

ConnectionLost ==
    /\ socket = "open" /\ faults < conf.faults
    /\ socket' = "lost" /\ faults' = faults + 1 /\ asked' = {}
    /\ UNCHANGED <<clientVars, posted, m_outbox, sending, chain, m_connection_failed, m_inbox, m_pending_read, idle,
                   heard, inbound, beats>>

-----------------------------------------------------------------------------
StartSteps == StartConnects \/ StartRefused \/ StartRequests \/ StartSkipsVersions \/ StartAnswered \/ StartTuned \/ StartEnds

StopSteps == StopExchange \/ StopRequested \/ StopJoins

RequestStep(c) == SendRequest(c) \/ SendThrows(c) \/ Written(c) \/ Answered(c) \/ TimedOut(c) \/ DropLate(c)

ShutdownStep(a) == CloseSocket(a) \/ StrandShutdown(a) \/ fail_all_outstanding_requests(a) \/ Notify(a)

FrameSteps == \/ FrameReads \/ FrameGot \/ HandleResponse \/ HandleThrows \/ HandleClose \/ HandleTune \/ HandleTuned
              \/ SkipFrame \/ FrameExits \/ FrameEnds

StrandSteps == StrandWrite \/ StrandRead \/ StrandWriter \/ StrandReader \/ WriteCallback \/ FrameArrives \/ ReadFails

Next ==
    \/ StartSteps \/ StopSteps \/ FrameSteps \/ StrandSteps
    \/ \E u \in Users : UserCalls(u)
    \/ \E c \in Callers : RequestStep(c)
    \/ \E a \in Closers : ShutdownStep(a)
    \/ SocketWrites \/ SocketRefuses \/ ReaderIdle \/ WriterIdle
    \/ \E id \in asked : BrokerAnswers(id) \/ BrokerFails(id)
    \/ BrokerCloses \/ ConnectionLost

Spec == Init /\ [][Next]_vars

\* Threads and the io_context keep running, timers expire, and the socket takes
\* or refuses what is written; the broker answers, or fails to.
Fairness ==
    /\ WF_vars(StartSteps) /\ WF_vars(StopExchange /\ step = "catch") /\ WF_vars(StopRequested \/ StopJoins)
    /\ WF_vars(FrameSteps) /\ WF_vars(StrandSteps)
    /\ \A c \in Callers : WF_vars(RequestStep(c))
    /\ \A a \in Closers : WF_vars(ShutdownStep(a))
    /\ WF_vars(SocketWrites \/ SocketRefuses) /\ WF_vars(ReaderIdle)
    /\ WF_vars(\E id \in asked : BrokerAnswers(id))

FairSpec == Spec /\ Fairness

-----------------------------------------------------------------------------
(* Properties                                                              *)

TypeOK ==
    /\ m_status \in {"Initialized", "Starting", "Started", "Stopping"}
    /\ call \in [Callers -> Call]
    /\ m_outstanding_requests \subseteq 1 .. m_correlation_sequence
    /\ sending.n \in 0 .. Len(m_outbox)

\* However many find out that the connection is gone, one shuts the client down:
\* the listener is called once, and only for a client that was started.
ShutdownOnce ==
    /\ \A a, b \in Closers : closing[a].at # "no" /\ closing[b].at # "no" => a = b
    /\ notified > 0 => notified = 1 /\ step = "started"

\* Once shutdown() has failed the outstanding requests, no request is left to
\* wait for its timeout: it has its answer, or its write is bound to fail.
NobodyLeftWaiting ==
    \A c \in Callers :
        /\ \E a \in Closers : closing[a].at \in {"notify", "done"}
        /\ call[c].pc = "waiting"
        => call[c].answer # "none"

\* A request is outstanding only while its call is under way: no way out of a
\* call leaves an entry behind.
NoLeakedRequest == m_outstanding_requests \subseteq {call[c].id : c \in {d \in Callers : Busy(d)}}

\* A write reported to have succeeded was given to the socket: what is added to
\* the outbox while a write is in flight waits for the next.
WrittenWasSent == \A c \in Callers : Busy(c) /\ call[c].wrote = "ok" => call[c].id \in heard

\* start(), stop() and every request return, whatever the broker does.
EveryCallReturns ==
    /\ \A c \in Callers : Busy(c) ~> ~Busy(c)
    /\ step \notin {"initial", "started", "thrown"} ~> step \in {"started", "thrown"}
    /\ stopper # "none" ~> stopper \in {"none", "returned"}

\* With heartbeats, a started client whose connection is lost tells its owner,
\* also if the connection is lost while start() is about to return.
LossIsNoticed == conf.heartbeat /\ m_status = "Started" /\ socket = "lost" ~> notified = 1
=============================================================================
