------------------------------ MODULE Producer ------------------------------
(***************************************************************************)
(* ProducerImpl with the Semaphore and the Accumulator it is made of: the  *)
(* threads that call send() and flush(), start() and stop(), the five      *)
(* background tasks, and one frame handling thread per connection (a       *)
(* "session": a ClientImpl from its start() to the end of its thread).     *)
(*                                                                         *)
(* m_mutex is released between any two steps except inside start(), which  *)
(* holds it over its requests to the broker, and inside handle_shutdown(), *)
(* when dropping m_client runs the destructor of a session; Unlocked says  *)
(* that neither is the case.  The tasks follow TaskContract.               *)
(***************************************************************************)
EXTENDS Integers, Sequences, FiniteSets

CONSTANTS
    Msgs,                       \* the messages given to send()
    NoMsg,
    NumSenders,                 \* threads that call send()
    ExplicitIds,                \* ids the application passes to send() itself
    MaxUnconfirmed,             \* permits of m_enqueue_semaphore
    BatchSize,                  \* capacity of the accumulator
    BatchDelay,                 \* is batch_publishing_delay non-zero?
    ConfirmTimeout,             \* is confirm_timeout non-zero?
    EnqueueTimeout,             \* is enqueue_timeout non-zero?
    MayBeTooBig,                \* may a message exceed the maximum frame size?
    FrameOverflow,              \* may send_frame refuse a batch of accepted messages?
    Named,                      \* does the producer have a name?
    MaxFaults,                  \* bound on lost connections and metadata updates
    MaxTrig,                    \* bound on the invocations due of one task
    MayBeSilent,                \* may the broker's heartbeats stop?
    MayRefuse,                  \* may the broker answer with a publish error?
    MayDelete                   \* may the stream be deleted?

ASSUME MsgsAssumption  == IsFiniteSet(Msgs) /\ NoMsg \notin Msgs
ASSUME SizesAssumption ==
    /\ NumSenders \in Nat \ {0} /\ MaxUnconfirmed \in Nat \ {0} /\ BatchSize \in Nat \ {0}
    /\ MaxFaults \in Nat /\ MaxTrig \in Nat \ {0} /\ ExplicitIds \subseteq Nat
ASSUME FlagsAssumption ==
    /\ BatchDelay \in BOOLEAN /\ ConfirmTimeout \in BOOLEAN /\ EnqueueTimeout \in BOOLEAN
    /\ MayBeTooBig \in BOOLEAN /\ FrameOverflow \in BOOLEAN /\ Named \in BOOLEAN
    /\ MayBeSilent \in BOOLEAN /\ MayRefuse \in BOOLEAN /\ MayDelete \in BOOLEAN

MaxSessions == MaxFaults + 1    \* every session but the last ends by a fault
Sessions == 1 .. MaxSessions
NoClient == 0
NoId     == -1
NoFrame  == [id |-> NoId, ok |-> FALSE, msg |-> NoMsg]
Tasks    == {"Batch", "Confirm", "Delayed", "Reconnect", "Deleted"}
Stoppers == {"user", "Deleted"}         \* stop(), m_stream_deleted_task

VARIABLES
    status, starting,           \* m_status; where start() is
    next_id,                    \* m_next_publishing_id
    id, pc,                     \* per message: its id; where its send() is
    available, sem_destroyed,   \* Semaphore
    pending, acc_destroyed,     \* Accumulator
    old,                        \* messages whose confirm timeout has elapsed
    unconfirmed,                \* the values of m_unconfirmed
    client,                     \* m_client
    sess, nsess, faults,        \* life of each session; sessions, faults so far
    wire, inbox,                \* published, not yet at the broker; its answers
    frame,                      \* the handler call of a session's frame thread
    dropped,                    \* session being destroyed by handle_shutdown
    due, armed, destroyed,      \* per task: invocations due; timer; destroy()
    run,                        \* per task: step of the invocation in progress
    taken,                      \* session in the hands of a task or of stop
    timed_out,                  \* local of check_confirm_timeout
    stop,                       \* per stopper: where internal_stop is
    calls, result,              \* handler calls per message; what it was told
    sent,                       \* history: handed to m_client, in order
    stored, last_seq            \* broker: copies stored; deduplication horizon

sendVars   == <<next_id, id, pc>>
semVars    == <<available, sem_destroyed>>
accVars    == <<pending, acc_destroyed>>
netVars    == <<wire, inbox, frame, sent>>
sessVars   == <<sess, nsess, faults, dropped>>
timerVars  == <<due, armed>>
taskVars   == <<due, armed, run>>
cbVars     == <<calls, result>>
brokerVars == <<stored, last_seq>>
vars == <<status, starting, sendVars, semVars, accVars, old, unconfirmed, client, netVars,
          sessVars, due, armed, destroyed, run, taken, timed_out, stop, cbVars, brokerVars>>

Init ==
    /\ status = "Initialized" /\ starting = "init"
    /\ next_id = 0
    /\ id = [m \in Msgs |-> NoId] /\ pc = [m \in Msgs |-> "new"]
    /\ available = MaxUnconfirmed /\ sem_destroyed = FALSE
    /\ pending = <<>> /\ acc_destroyed = FALSE
    /\ old = {} /\ unconfirmed = {} /\ timed_out = {}
    /\ client = NoClient
    /\ sess = [s \in Sessions |-> "none"] /\ nsess = 0 /\ faults = 0
    /\ wire = [s \in Sessions |-> <<>>] /\ inbox = [s \in Sessions |-> <<>>]
    /\ frame = [s \in Sessions |-> NoFrame]
    /\ sent = <<>>
    /\ dropped = NoClient
    /\ due = [t \in Tasks |-> 0]
    /\ armed = [t \in Tasks |-> FALSE]
    /\ destroyed = [t \in Tasks |-> FALSE]
    /\ run = [t \in Tasks |-> "idle"]
    /\ taken = [t \in {"Delayed", "Reconnect", "stop"} |-> NoClient]
    /\ stop = [a \in Stoppers |-> "idle"]
    /\ calls = [m \in Msgs |-> 0] /\ result = [m \in Msgs |-> "none"]
    /\ stored = [m \in Msgs |-> 0] /\ last_seq = NoId

-----------------------------------------------------------------------------
(* The mutex, the tasks and the sessions as the other operations use them. *)

Unlocked == starting \notin {"connect", "declare", "finish"} /\ dropped = NoClient

\* ReschedulableTask::valid(), schedule_now() and schedule_after().
Valid(t) == (t = "Batch" => BatchDelay) /\ (t = "Confirm" => ConfirmTimeout)

schedule_now(t) ==
    IF destroyed[t] THEN UNCHANGED timerVars
    ELSE /\ due' = [due EXCEPT ![t] = @ + 1]
         /\ armed' = [armed EXCEPT ![t] = FALSE]

\* Faulty variant: the timer is not armed again.
ArmedAfterNever(t) == armed

ArmedAfter(t) == [armed EXCEPT ![t] = (Valid(t) /\ ~destroyed[t]) \/ @]

TimerExpires(t) ==
    /\ armed[t] /\ ~destroyed[t]
    /\ due[t] < MaxTrig
    /\ due' = [due EXCEPT ![t] = @ + 1]
    /\ armed' = [armed EXCEPT ![t] = FALSE]
    /\ UNCHANGED <<status, starting, sendVars, semVars, accVars, old, unconfirmed, client, netVars,
                   sessVars, destroyed, run, taken, timed_out, stop, cbVars, brokerVars>>

\* The task's function is entered.
Ready(t)   == ~destroyed[t] /\ due[t] > 0 /\ run[t] = "idle"

Running(t) == run[t] # "idle" \/ (t = "Deleted" /\ stop["Deleted"] # "idle")

\* Faulty variant: the client is dropped without telling its frame thread to end.
NotClosed(s) == sess

\* ClientImpl::stop(): frames still unread are skipped; a session that has seen
\* its connection fail first is already stopping, and is only joined.
Closing(s) == IF s # NoClient /\ sess[s] \in {"up", "dead"}
              THEN [sess EXCEPT ![s] = "closing"] ELSE sess

\* Faulty variant: stop() does not join the frame handling thread.
JoinedAtOnce(s) == TRUE

Joined(s)  == s # NoClient => sess[s] = "closed"

\* publish_encoded: the messages leave through session s, unless its connection
\* is gone, for write errors are not reported.
Publish(s, q) == wire' = IF sess[s] = "up" THEN [wire EXCEPT ![s] = @ \o q] ELSE wire

\* The frames publish_encoded may have sent when it throws because send_frame
\* finds the next one too large.
CutShort(q) == IF FrameOverflow THEN {SubSeq(q, 1, n) : n \in 0 .. Len(q) - 1} ELSE {}

\* The confirmation handlers of the messages in S are called with code r.
Call(S, r) ==
    /\ calls'  = [m \in Msgs |-> IF m \in S THEN calls[m] + 1 ELSE calls[m]]
    /\ result' = [m \in Msgs |-> IF m \in S THEN r ELSE result[m]]

ReleasePermits(S) == available' = available + Cardinality(S)

\* Faulty variant: a send() that fails keeps its permit.
PermitKept(m) == UNCHANGED available

\* The permit of a message that add() refuses goes with its arguments.
PermitReturned(m) == ReleasePermits({m})

\* sorted_unconfirmed, the std::map made from m_unconfirmed.
Sorted(S) == {q \in [1 .. Cardinality(S) -> S] :
                 \A i, j \in 1 .. Cardinality(S) : i < j => id[q[i]] < id[q[j]]}

Elements(q) == {q[i] : i \in DOMAIN q}

\* Faulty variants: m_unconfirmed resent in its own order, or not at all.
ResentUnsorted == {q \in [1 .. Cardinality(unconfirmed) -> unconfirmed] : Elements(q) = unconfirmed}
ResentNothing  == {<<>>}

\* What reconnect_to_server publishes again.
Resent == Sorted(unconfirmed)

-----------------------------------------------------------------------------
(* start(): m_mutex is held from the first step to the last.               *)

StartBegin ==
    /\ starting = "init" /\ status = "Initialized"
    /\ status' = "Starting" /\ starting' = "connect"
    /\ UNCHANGED <<sendVars, semVars, accVars, old, unconfirmed, client, netVars, sessVars,
                   timerVars, destroyed, run, taken, timed_out, stop, cbVars, brokerVars>>

\* get_client and m_client->start(); either may throw.
StartConnect ==
    /\ starting = "connect"
    /\ nsess' = 1
    /\ \/ /\ client' = 1 /\ sess' = [sess EXCEPT ![1] = "up"]
          /\ starting' = "declare"
       \/ /\ client' \in {NoClient, 1} /\ sess' = [sess EXCEPT ![1] = "closed"]
          /\ starting' = "failed"
    /\ UNCHANGED <<status, sendVars, semVars, accVars, old, unconfirmed, netVars, faults, dropped,
                   timerVars, destroyed, run, taken, timed_out, stop, cbVars, brokerVars>>

\* query_publisher_sequence and declare_publisher, which throw when the broker
\* refuses, does not answer in time or the connection is gone.
StartDeclare ==
    /\ starting = "declare"
    /\ \/ /\ sess[1] = "up"
          /\ starting' = "finish"
          /\ next_id' = IF Named /\ last_seq # NoId THEN last_seq + 1 ELSE 0
       \/ /\ starting' = "failed"
          /\ UNCHANGED next_id
    /\ UNCHANGED <<status, id, pc, semVars, accVars, old, unconfirmed, client, netVars, sessVars,
                   timerVars, destroyed, run, taken, timed_out, stop, cbVars, brokerVars>>

StartFinish ==
    /\ starting = "finish"
    /\ status' = "Started" /\ starting' = "done"
    /\ armed' = [armed EXCEPT !["Batch"] = BatchDelay, !["Confirm"] = ConfirmTimeout]
    /\ UNCHANGED <<sendVars, semVars, accVars, old, unconfirmed, client, netVars, sessVars, due,
                   destroyed, run, taken, timed_out, stop, cbVars, brokerVars>>

-----------------------------------------------------------------------------
(* send(): the id and the status check, the permit, the accumulator, and   *)
(* the batch when the message has filled it.                               *)

Sending == {m \in Msgs : pc[m] \in {"acquire", "add", "wait", "publish"}}

\* A rejected send() leaves by an exception.
SendBegin(m) ==
    /\ starting = "done"
    /\ pc[m] = "new" /\ Cardinality(Sending) < NumSenders
    /\ \/ /\ id' = [id EXCEPT ![m] = next_id]
          /\ next_id' = next_id + 1
       \/ /\ \E i \in ExplicitIds : id' = [id EXCEPT ![m] = i]
          /\ UNCHANGED next_id
    /\ pc' = [pc EXCEPT ![m] = IF status = "Started" THEN "acquire" ELSE "rejected"]
    /\ UNCHANGED <<status, starting, semVars, accVars, old, unconfirmed, client, netVars, sessVars,
                   timerVars, destroyed, run, taken, timed_out, stop, cbVars, brokerVars>>

\* Faulty variant: destroy() wakes nobody.
PermitDeniedByTime == EnqueueTimeout /\ available = 0

\* Semaphore::acquire and try_acquire_for: how the wait may end.
PermitGranted == available > 0 /\ ~sem_destroyed
PermitDenied  == sem_destroyed \/ (EnqueueTimeout /\ available = 0)

Acquire(m) ==
    /\ pc[m] = "acquire"
    /\ PermitGranted
    /\ available' = available - 1
    /\ pc' = [pc EXCEPT ![m] = "add"]
    /\ UNCHANGED <<status, starting, next_id, id, sem_destroyed, accVars, old, unconfirmed, client,
                   netVars, sessVars, timerVars, destroyed, run, taken, timed_out, stop, cbVars, brokerVars>>

\* SemaphoreDestroyedException, or no permit before the enqueue timeout.
AcquireFails(m) ==
    /\ pc[m] = "acquire"
    /\ PermitDenied
    /\ pc' = [pc EXCEPT ![m] = "rejected"]
    /\ UNCHANGED <<status, starting, next_id, id, semVars, accVars, old, unconfirmed, client, netVars,
                   sessVars, timerVars, destroyed, run, taken, timed_out, stop, cbVars, brokerVars>>

\* Accumulator::add leaves by an exception; the permit goes with the message.
AddFails(m) ==
    /\ \/ pc[m] = "add" /\ MayBeTooBig
       \/ pc[m] \in {"add", "wait"} /\ acc_destroyed
    /\ pc' = [pc EXCEPT ![m] = "rejected"]
    /\ PermitReturned(m)
    /\ UNCHANGED <<status, starting, next_id, id, sem_destroyed, accVars, old, unconfirmed, client,
                   netVars, sessVars, timerVars, destroyed, run, taken, timed_out, stop, cbVars, brokerVars>>

\* The message is complete, its publish_time set, but there is no room yet.
AddWaits(m) ==
    /\ pc[m] = "add"
    /\ ~acc_destroyed /\ Len(pending) >= BatchSize
    /\ pc' = [pc EXCEPT ![m] = "wait"]
    /\ UNCHANGED <<status, starting, next_id, id, semVars, accVars, old, unconfirmed, client, netVars,
                   sessVars, timerVars, destroyed, run, taken, timed_out, stop, cbVars, brokerVars>>

\* There is room; the sender that takes the last place publishes the batch.
Add(m) ==
    /\ pc[m] \in {"add", "wait"}
    /\ ~acc_destroyed /\ Len(pending) < BatchSize
    /\ pending' = Append(pending, m)
    /\ pc' = [pc EXCEPT ![m] = IF Len(pending') = BatchSize THEN "publish" ELSE "sent"]
    /\ UNCHANGED <<status, starting, next_id, id, semVars, acc_destroyed, old, unconfirmed, client,
                   netVars, sessVars, timerVars, destroyed, run, taken, timed_out, stop, cbVars, brokerVars>>

\* publish_batch().  m_unconfirmed.emplace keeps the message already stored
\* under an id, and the permit of the other is released with it.
Emplaced(q) == {q[i] : i \in {i \in DOMAIN q :
                   /\ \A u \in unconfirmed : id[u] # id[q[i]]
                   /\ \A j \in 1 .. i - 1 : id[q[j]] # id[q[i]]}}

publish_batch ==
    /\ Unlocked
    /\ IF status = "Started"
       THEN /\ pending' = <<>>
            /\ \/ client = NoClient /\ UNCHANGED <<sent, wire>>
               \/ /\ client # NoClient
                  /\ \E q \in {pending} \cup CutShort(pending) :
                        Publish(client, q) /\ sent' = sent \o q
            /\ unconfirmed' = unconfirmed \cup Emplaced(pending)
            /\ ReleasePermits(Elements(pending) \ Emplaced(pending))
            /\ armed' = ArmedAfter("Batch")
       ELSE UNCHANGED <<pending, sent, wire, unconfirmed, available, armed>>
    /\ UNCHANGED <<status, starting, next_id, id, sem_destroyed, acc_destroyed, old, client, inbox, frame,
                   sessVars, destroyed, run, taken, timed_out, stop, cbVars, brokerVars>>

SendPublish(m) ==
    /\ pc[m] = "publish"
    /\ pc' = [pc EXCEPT ![m] = "sent"]
    /\ publish_batch
    /\ UNCHANGED due

flush ==
    /\ starting = "done" /\ status = "Started"
    /\ publish_batch
    /\ UNCHANGED <<pc, due>>

BatchTask ==
    /\ Ready("Batch")
    /\ due' = [due EXCEPT !["Batch"] = @ - 1]
    /\ publish_batch
    /\ UNCHANGED pc

-----------------------------------------------------------------------------
(* The broker (external) and the frame handling thread of each session.    *)

\* The broker stores the next message and confirms it.  For a named producer
\* it confirms without storing again what is not above the ids it has seen.
BrokerStores(s) ==
    /\ wire[s] # <<>>
    /\ LET m == Head(wire[s])
           fresh == ~Named \/ id[m] > last_seq
       IN  /\ stored' = IF fresh THEN [stored EXCEPT ![m] = @ + 1] ELSE stored
           /\ last_seq' = IF fresh /\ Named THEN id[m] ELSE last_seq
           /\ inbox' = [inbox EXCEPT ![s] = Append(@, [id |-> id[m], ok |-> TRUE])]
    /\ wire' = [wire EXCEPT ![s] = Tail(@)]
    /\ UNCHANGED <<status, starting, sendVars, semVars, accVars, old, unconfirmed, client, frame, sent,
                   sessVars, timerVars, destroyed, run, taken, timed_out, stop, cbVars>>

BrokerRefuses(s) ==
    /\ MayRefuse
    /\ wire[s] # <<>>
    /\ inbox' = [inbox EXCEPT ![s] = Append(@, [id |-> id[Head(wire[s])], ok |-> FALSE])]
    /\ wire' = [wire EXCEPT ![s] = Tail(@)]
    /\ UNCHANGED <<status, starting, sendVars, semVars, accVars, old, unconfirmed, client, frame, sent,
                   sessVars, timerVars, destroyed, run, taken, timed_out, stop, cbVars, brokerVars>>

\* ClientImpl takes the next id of a publish confirm or publish error to its
\* listener.  A session that is closing may still be inside such a frame.
ReadAnswer(s) ==
    /\ sess[s] \in {"up", "dead", "silent", "closing"}
    /\ inbox[s] # <<>> /\ frame[s] = NoFrame
    /\ frame' = [frame EXCEPT ![s] = [id |-> Head(inbox[s]).id, ok |-> Head(inbox[s]).ok, msg |-> NoMsg]]
    /\ inbox' = [inbox EXCEPT ![s] = Tail(@)]
    /\ UNCHANGED <<status, starting, sendVars, semVars, accVars, old, unconfirmed, client, wire, sent, sessVars,
                   timerVars, destroyed, run, taken, timed_out, stop, cbVars, brokerVars>>

\* Faulty variant: the message stays in m_unconfirmed.
ErasedNot(i) == unconfirmed' = unconfirmed

\* m_unconfirmed.erase of the message found under publishing id i.
Erased(i) == unconfirmed' = {m \in unconfirmed : id[m] # i}

\* The part of handle_publish_confirm and handle_publish_error under m_mutex.
HandleAnswer(s) ==
    /\ frame[s] # NoFrame /\ frame[s].msg = NoMsg
    /\ Unlocked
    /\ Erased(frame[s].id)
    /\ LET found == {m \in unconfirmed : id[m] = frame[s].id}
       IN  \/ found = {} /\ frame' = [frame EXCEPT ![s] = NoFrame]
           \/ \E m \in found : frame' = [frame EXCEPT ![s].msg = m]
    /\ UNCHANGED <<status, starting, sendVars, semVars, accVars, old, client, wire, inbox, sent, sessVars,
                   timerVars, destroyed, run, taken, timed_out, stop, cbVars, brokerVars>>

\* The code the two handlers give to the application.
AnswerCode(ok) == IF ok THEN "Ok" ELSE "PublishError"

\* The confirmation handler runs without the lock; then the message, and with
\* it the permit, is released.
CallHandler(s) ==
    /\ frame[s].msg # NoMsg
    /\ Call({frame[s].msg}, AnswerCode(frame[s].ok))
    /\ ReleasePermits({frame[s].msg})
    /\ frame' = [frame EXCEPT ![s] = NoFrame]
    /\ UNCHANGED <<status, starting, sendVars, sem_destroyed, accVars, old, unconfirmed, client, wire, inbox,
                   sent, sessVars, timerVars, destroyed, run, taken, timed_out, stop, brokerVars>>

handle_metadata_update(s) ==
    /\ sess[s] = "up" /\ frame[s] = NoFrame
    /\ faults < MaxFaults
    /\ faults' = faults + 1
    /\ schedule_now("Delayed")
    /\ UNCHANGED <<status, starting, sendVars, semVars, accVars, old, unconfirmed, client, netVars,
                   sess, nsess, dropped, destroyed, run, taken, timed_out, stop, cbVars, brokerVars>>

\* The connection is lost with whatever the broker has not processed.
Disconnect(s) ==
    /\ sess[s] = "up"
    /\ faults < MaxFaults
    /\ faults' = faults + 1
    /\ sess' = [sess EXCEPT ![s] = "dead"]
    /\ wire' = [wire EXCEPT ![s] = <<>>]
    /\ UNCHANGED <<status, starting, sendVars, semVars, accVars, old, unconfirmed, client, inbox, frame, sent,
                   nsess, dropped, timerVars, destroyed, run, taken, timed_out, stop, cbVars, brokerVars>>

\* The frame thread fails to read, becomes the one that shuts the client down
\* and calls handle_shutdown, which looks at m_status before it locks.
NoticeDisconnect(s) ==
    /\ sess[s] = "dead" /\ frame[s] = NoFrame
    /\ sess' = [sess EXCEPT ![s] = IF status = "Started" THEN "locking" ELSE "closed"]
    /\ inbox' = [inbox EXCEPT ![s] = <<>>]
    /\ UNCHANGED <<status, starting, sendVars, semVars, accVars, old, unconfirmed, client, wire, frame, sent,
                   nsess, faults, dropped, timerVars, destroyed, run, taken, timed_out, stop, cbVars, brokerVars>>

\* Nothing was read for two heartbeats: the reader's idle handler shuts the
\* client down from the connection's strand, wherever the frame thread is.
HeartbeatTimeout(s) ==
    /\ MayBeSilent /\ sess[s] = "up"
    /\ faults < MaxFaults
    /\ faults' = faults + 1
    /\ sess' = [sess EXCEPT ![s] = IF status = "Started" THEN "silent" ELSE "closing"]
    /\ wire' = [wire EXCEPT ![s] = <<>>]
    /\ UNCHANGED <<status, starting, sendVars, semVars, accVars, old, unconfirmed, client, inbox, frame, sent,
                   nsess, dropped, timerVars, destroyed, run, taken, timed_out, stop, cbVars, brokerVars>>

\* m_client = nullptr, which ~ClientImpl detaches from if this is its own frame
\* thread.  Any other session that m_client is the last owner of is stopped and
\* joined under the lock; for the idle handler that is its own session too,
\* whose frame thread waits for the strand the handler is running on.
Detaches(s) == client = NoClient \/ (client = s /\ sess[s] = "locking")

handle_shutdown(s) ==
    /\ sess[s] \in {"locking", "silent"}
    /\ Unlocked
    /\ client' = NoClient
    /\ \/ /\ Detaches(s)
          /\ sess' = [sess EXCEPT ![s] = IF @ = "locking" THEN "closed" ELSE "closing"]
          /\ schedule_now("Reconnect")
          /\ UNCHANGED dropped
       \/ /\ ~Detaches(s)
          /\ dropped' = client
          /\ sess' = [Closing(client) EXCEPT ![s] = IF client = s THEN "joining" ELSE "dropping"]
          /\ UNCHANGED timerVars
    /\ UNCHANGED <<status, starting, sendVars, semVars, accVars, old, unconfirmed, netVars, nsess, faults,
                   destroyed, run, taken, timed_out, stop, cbVars, brokerVars>>

ShutdownDropped(s) ==
    /\ sess[s] = "dropping" /\ Joined(dropped)
    /\ dropped' = NoClient
    /\ sess' = [sess EXCEPT ![s] = "closing"]
    /\ schedule_now("Reconnect")
    /\ UNCHANGED <<status, starting, sendVars, semVars, accVars, old, unconfirmed, client, netVars, nsess, faults,
                   destroyed, run, taken, timed_out, stop, cbVars, brokerVars>>

\* A frame thread told to stop ends when the handler it is in returns.
FrameThreadEnds(s) ==
    /\ sess[s] = "closing" /\ frame[s] = NoFrame
    /\ sess' = [sess EXCEPT ![s] = "closed"]
    /\ inbox' = [inbox EXCEPT ![s] = <<>>]
    /\ wire' = [wire EXCEPT ![s] = <<>>]
    /\ UNCHANGED <<status, starting, sendVars, semVars, accVars, old, unconfirmed, client, frame, sent,
                   nsess, faults, dropped, timerVars, destroyed, run, taken, timed_out, stop, cbVars, brokerVars>>

-----------------------------------------------------------------------------
(* check_confirm_timeout()                                                 *)

\* Time passes: every message that has its publish_time becomes overdue.
Stamped == {m \in Msgs : pc[m] \in {"wait", "publish", "sent"} /\ calls[m] = 0}

TimePasses ==
    /\ ConfirmTimeout /\ old # Stamped
    /\ old' = Stamped
    /\ UNCHANGED <<status, starting, sendVars, semVars, accVars, unconfirmed, client, netVars, sessVars,
                   timerVars, destroyed, run, taken, timed_out, stop, cbVars, brokerVars>>

\* The walk over sorted_unconfirmed stops at the first message not overdue.
TimedOut == {m \in unconfirmed : \A u \in unconfirmed : id[u] <= id[m] => u \in old}

ConfirmScan ==
    /\ Ready("Confirm")
    /\ Unlocked
    /\ due' = [due EXCEPT !["Confirm"] = @ - 1]
    /\ timed_out' = TimedOut
    /\ unconfirmed' = unconfirmed \ TimedOut
    /\ run' = [run EXCEPT !["Confirm"] = IF client = NoClient THEN "ProducerNotAvailable"
                                         ELSE "ConfirmTimeout"]
    /\ UNCHANGED <<status, starting, sendVars, semVars, accVars, old, client, netVars, sessVars,
                   armed, destroyed, taken, stop, cbVars, brokerVars>>

\* The handlers run without the lock; timed_out is released at the end.
ConfirmCall ==
    /\ run["Confirm"] # "idle"
    /\ Call(timed_out, run["Confirm"])
    /\ ReleasePermits(timed_out)
    /\ timed_out' = {}
    /\ run' = [run EXCEPT !["Confirm"] = "idle"]
    /\ armed' = ArmedAfter("Confirm")
    /\ UNCHANGED <<status, starting, sendVars, sem_destroyed, accVars, old, unconfirmed, client, netVars,
                   sessVars, due, destroyed, taken, stop, brokerVars>>

-----------------------------------------------------------------------------
(* delayed_reconnect()                                                     *)

DelayedBegin ==
    /\ Ready("Delayed")
    /\ Unlocked
    /\ due' = [due EXCEPT !["Delayed"] = @ - 1]
    /\ IF status = "Started"
       THEN /\ taken' = [taken EXCEPT !["Delayed"] = client]
            /\ client' = NoClient
            /\ sess' = Closing(client)
            /\ run' = [run EXCEPT !["Delayed"] = "join"]
       ELSE UNCHANGED <<taken, client, sess, run>>
    /\ UNCHANGED <<status, starting, sendVars, semVars, accVars, old, unconfirmed, netVars, nsess, faults, dropped,
                   armed, destroyed, timed_out, stop, cbVars, brokerVars>>

DelayedEnd ==
    /\ run["Delayed"] = "join" /\ Joined(taken["Delayed"])
    /\ taken' = [taken EXCEPT !["Delayed"] = NoClient]
    /\ run' = [run EXCEPT !["Delayed"] = "idle"]
    /\ armed' = ArmedAfter("Reconnect")
    /\ UNCHANGED <<status, starting, sendVars, semVars, accVars, old, unconfirmed, client, netVars, sessVars,
                   due, destroyed, timed_out, stop, cbVars, brokerVars>>

-----------------------------------------------------------------------------
(* reconnect_to_server()                                                   *)

ReconnectBegin ==
    /\ Ready("Reconnect")
    /\ Unlocked
    /\ due' = [due EXCEPT !["Reconnect"] = @ - 1]
    /\ run' = [run EXCEPT !["Reconnect"] = IF client # NoClient \/ status # "Started"
                                           THEN "idle" ELSE "connect"]
    /\ UNCHANGED <<status, starting, sendVars, semVars, accVars, old, unconfirmed, client, netVars, sessVars,
                   armed, destroyed, taken, timed_out, stop, cbVars, brokerVars>>

\* get_client and client->start() succeed ...
ReconnectConnect ==
    /\ run["Reconnect"] = "connect"
    /\ nsess < MaxSessions
    /\ nsess' = nsess + 1
    /\ sess' = [sess EXCEPT ![nsess'] = "up"]
    /\ taken' = [taken EXCEPT !["Reconnect"] = nsess']
    /\ run' = [run EXCEPT !["Reconnect"] = "declare"]
    /\ UNCHANGED <<status, starting, sendVars, semVars, accVars, old, unconfirmed, client, netVars, faults, dropped,
                   timerVars, destroyed, timed_out, stop, cbVars, brokerVars>>

\* ... or throw; no shutdown listener is called for a client that never started.
ReconnectRefused ==
    /\ run["Reconnect"] = "connect"
    /\ \E r \in {"retry"} \cup (IF MayDelete THEN {"deleted"} ELSE {}) :
           run' = [run EXCEPT !["Reconnect"] = r]
    /\ UNCHANGED <<status, starting, sendVars, semVars, accVars, old, unconfirmed, client, netVars, sessVars,
                   timerVars, destroyed, taken, timed_out, stop, cbVars, brokerVars>>

ReconnectDeclare ==
    /\ run["Reconnect"] = "declare"
    /\ sess[taken["Reconnect"]] = "up"
    /\ run' = [run EXCEPT !["Reconnect"] = "install"]
    /\ UNCHANGED <<status, starting, sendVars, semVars, accVars, old, unconfirmed, client, netVars, sessVars,
                   timerVars, destroyed, taken, timed_out, stop, cbVars, brokerVars>>

\* declare_publisher throws: client->stop() in the exception handler.
ReconnectUndeclared ==
    /\ run["Reconnect"] = "declare"
    /\ \/ sess[taken["Reconnect"]] # "up" /\ UNCHANGED faults
       \/ sess[taken["Reconnect"]] = "up" /\ faults < MaxFaults /\ faults' = faults + 1
    /\ sess' = Closing(taken["Reconnect"])
    /\ \E r \in {"retry"} \cup (IF MayDelete THEN {"deleted"} ELSE {}) :
           run' = [run EXCEPT !["Reconnect"] = r]
    /\ UNCHANGED <<status, starting, sendVars, semVars, accVars, old, unconfirmed, client, netVars, nsess,
                   dropped, timerVars, destroyed, taken, timed_out, stop, cbVars, brokerVars>>

\* What is left of the exception handler once the client is stopped.
ReconnectRetry ==
    /\ run["Reconnect"] \in {"retry", "deleted"} /\ Joined(taken["Reconnect"])
    /\ taken' = [taken EXCEPT !["Reconnect"] = NoClient]
    /\ run' = [run EXCEPT !["Reconnect"] = "idle"]
    /\ \/ /\ run["Reconnect"] = "deleted"
          /\ schedule_now("Deleted")
       \/ /\ run["Reconnect"] = "retry"
          /\ armed' = ArmedAfter("Reconnect")
          /\ UNCHANGED due
    /\ UNCHANGED <<status, starting, sendVars, semVars, accVars, old, unconfirmed, client, netVars, sessVars,
                   destroyed, timed_out, stop, cbVars, brokerVars>>

\* The unconfirmed messages are published again, in the order of their ids,
\* and the client becomes m_client, all under the lock.
ReconnectInstall ==
    /\ run["Reconnect"] = "install"
    /\ Unlocked
    /\ taken' = [taken EXCEPT !["Reconnect"] = NoClient]
    /\ run' = [run EXCEPT !["Reconnect"] = "idle"]
    /\ IF status = "Started"
       THEN /\ client' = taken["Reconnect"]
            /\ \E q \in Resent : Publish(taken["Reconnect"], q) /\ sent' = q
            /\ UNCHANGED sess
       ELSE /\ sess' = Closing(taken["Reconnect"])
            /\ UNCHANGED <<client, sent, wire>>
    /\ UNCHANGED <<status, starting, sendVars, semVars, accVars, old, unconfirmed, inbox, frame, nsess, faults, dropped,
                   timerVars, destroyed, timed_out, stop, cbVars, brokerVars>>

\* A frame is too large: publish_encoded throws in the middle of the resend.
ReconnectOverflow ==
    /\ run["Reconnect"] = "install"
    /\ Unlocked /\ status = "Started"
    /\ \E q \in Resent : \E p \in CutShort(q) : Publish(taken["Reconnect"], p)
    /\ sess' = Closing(taken["Reconnect"])
    /\ run' = [run EXCEPT !["Reconnect"] = "retry"]
    /\ UNCHANGED <<status, starting, sendVars, semVars, accVars, old, unconfirmed, client, inbox, frame, sent, nsess, faults, dropped,
                   timerVars, destroyed, taken, timed_out, stop, cbVars, brokerVars>>

-----------------------------------------------------------------------------
(* stop() and internal_stop()                                              *)

\* The application, or the environment's destructor, stops the producer.
StopCall ==
    /\ starting \in {"done", "failed"}
    /\ stop["user"] = "idle"
    /\ stop' = [stop EXCEPT !["user"] = "Deleted"]
    /\ destroyed' = [destroyed EXCEPT !["Deleted"] = TRUE]
    /\ UNCHANGED <<status, starting, sendVars, semVars, accVars, old, unconfirmed, client, netVars, sessVars,
                   timerVars, run, taken, timed_out, cbVars, brokerVars>>

\* Faulty variant: the task calls stop(), which destroys the task itself.
DeletedStops ==
    /\ stop' = [stop EXCEPT !["Deleted"] = "Deleted"]
    /\ destroyed' = [destroyed EXCEPT !["Deleted"] = TRUE]

\* What m_stream_deleted_task calls: internal_stop.
DeletedInternalStop ==
    /\ stop' = [stop EXCEPT !["Deleted"] = "Batch"]
    /\ destroyed' = [destroyed EXCEPT !["Batch"] = TRUE]

\* The invocation of m_stream_deleted_task.
DeletedBegin ==
    /\ Ready("Deleted") /\ stop["Deleted"] = "idle"
    /\ due' = [due EXCEPT !["Deleted"] = @ - 1]
    /\ DeletedInternalStop
    /\ UNCHANGED <<status, starting, sendVars, semVars, accVars, old, unconfirmed, client, netVars, sessVars,
                   armed, run, taken, timed_out, cbVars, brokerVars>>

\* destroy() of one task returns, destroy() of the next begins.
DestroyOrder == [Deleted |-> "Batch", Batch |-> "Confirm", Confirm |-> "Delayed", Delayed |-> "Reconnect"]

StopDestroys(a) ==
    /\ stop[a] \in DOMAIN DestroyOrder
    /\ ~Running(stop[a])
    /\ stop' = [stop EXCEPT ![a] = DestroyOrder[@]]
    /\ destroyed' = [destroyed EXCEPT ![DestroyOrder[stop[a]]] = TRUE]
    /\ UNCHANGED <<status, starting, sendVars, semVars, accVars, old, unconfirmed, client, netVars, sessVars,
                   timerVars, run, taken, timed_out, cbVars, brokerVars>>

\* An invocation of m_stream_deleted_task ends, stop() returns.
StopEnd(a) == IF a = "user" THEN "done" ELSE "idle"

StopExchange(a) ==
    /\ stop[a] = "Reconnect"
    /\ ~Running("Reconnect")
    /\ status' = "Stopped"
    /\ stop' = [stop EXCEPT ![a] = IF status = "Stopped" THEN StopEnd(a) ELSE "accumulator"]
    /\ UNCHANGED <<starting, sendVars, semVars, accVars, old, unconfirmed, client, netVars, sessVars,
                   timerVars, destroyed, run, taken, timed_out, cbVars, brokerVars>>

StopAccumulator(a) ==
    /\ stop[a] = "accumulator"
    /\ acc_destroyed' = TRUE
    /\ stop' = [stop EXCEPT ![a] = "semaphore"]
    /\ UNCHANGED <<status, starting, sendVars, semVars, pending, old, unconfirmed, client, netVars, sessVars,
                   timerVars, destroyed, run, taken, timed_out, cbVars, brokerVars>>

StopSemaphore(a) ==
    /\ stop[a] = "semaphore"
    /\ sem_destroyed' = TRUE
    /\ stop' = [stop EXCEPT ![a] = "client"]
    /\ UNCHANGED <<status, starting, sendVars, available, accVars, old, unconfirmed, client, netVars, sessVars,
                   timerVars, destroyed, run, taken, timed_out, cbVars, brokerVars>>

\* m_client is moved out, its publisher deleted and the client stopped.
StopClient(a) ==
    /\ stop[a] = "client"
    /\ Unlocked
    /\ taken' = [taken EXCEPT !["stop"] = client]
    /\ client' = NoClient
    /\ sess' = Closing(client)
    /\ stop' = [stop EXCEPT ![a] = "fail"]
    /\ UNCHANGED <<status, starting, sendVars, semVars, accVars, old, unconfirmed, netVars, nsess, faults, dropped,
                   timerVars, destroyed, run, timed_out, cbVars, brokerVars>>

\* Faulty variant: what is still in the accumulator is forgotten.
FailedUnconfirmed == unconfirmed

\* The messages fail_all_unconfirmed reports.
Failed == unconfirmed \cup Elements(pending)

\* client->stop() returns; fail_all_unconfirmed runs under the lock.
StopFail(a) ==
    /\ stop[a] = "fail" /\ Joined(taken["stop"])
    /\ Unlocked
    /\ taken' = [taken EXCEPT !["stop"] = NoClient]
    /\ Call(Failed, IF a = "user" THEN "ProducerStopped" ELSE "StreamDoesNotExist")
    /\ ReleasePermits(unconfirmed \cup Elements(pending))
    /\ unconfirmed' = {} /\ pending' = <<>>
    /\ stop' = [stop EXCEPT ![a] = StopEnd(a)]
    /\ UNCHANGED <<status, starting, sendVars, sem_destroyed, acc_destroyed, old, client, netVars, sessVars,
                   timerVars, destroyed, run, timed_out, brokerVars>>

-----------------------------------------------------------------------------
Start == StartBegin \/ StartConnect \/ StartDeclare \/ StartFinish

Send(m) == Acquire(m) \/ AcquireFails(m) \/ AddFails(m) \/ AddWaits(m) \/ Add(m) \/ SendPublish(m)

FrameThread(s) ==
    \/ ReadAnswer(s) \/ HandleAnswer(s) \/ CallHandler(s) \/ NoticeDisconnect(s) \/ handle_shutdown(s)
    \/ ShutdownDropped(s) \/ FrameThreadEnds(s)

ConfirmTask   == ConfirmScan \/ ConfirmCall
DelayedTask   == DelayedBegin \/ DelayedEnd
ReconnectTask ==
    \/ ReconnectBegin \/ ReconnectConnect \/ ReconnectRefused \/ ReconnectDeclare
    \/ ReconnectUndeclared \/ ReconnectRetry \/ ReconnectInstall \/ ReconnectOverflow

Stop(a) ==
    \/ StopDestroys(a) \/ StopExchange(a) \/ StopAccumulator(a) \/ StopSemaphore(a)
    \/ StopClient(a) \/ StopFail(a)

\* What the application, the network and the broker start of their own accord.
Inputs ==
    \/ \E m \in Msgs : SendBegin(m)
    \/ \E s \in Sessions : handle_metadata_update(s) \/ Disconnect(s) \/ HeartbeatTimeout(s)

Steps ==
    \/ Start \/ flush \/ StopCall \/ DeletedBegin \/ TimePasses
    \/ BatchTask \/ ConfirmTask \/ DelayedTask \/ ReconnectTask
    \/ \E m \in Msgs : Send(m)
    \/ \E t \in Tasks : TimerExpires(t)
    \/ \E a \in Stoppers : Stop(a)
    \/ \E s \in Sessions : FrameThread(s) \/ BrokerStores(s) \/ BrokerRefuses(s)

Next == Steps \/ Inputs

\* Threads go on once they are inside an operation, timers expire, the broker
\* reads what it is sent, and of infinitely many attempts to connect one
\* succeeds.  Nobody has to call anything, and no fault has to happen.
Fairness ==
    /\ WF_vars(Start) /\ WF_vars(DeletedBegin) /\ WF_vars(TimePasses)
    /\ WF_vars(BatchTask) /\ WF_vars(ConfirmTask) /\ WF_vars(DelayedTask)
    /\ WF_vars(ReconnectTask) /\ SF_vars(ReconnectConnect)
    /\ \A m \in Msgs : WF_vars(Send(m))
    /\ \A t \in Tasks : WF_vars(TimerExpires(t))
    /\ \A a \in Stoppers : WF_vars(Stop(a))
    /\ \A s \in Sessions : WF_vars(FrameThread(s)) /\ WF_vars(BrokerStores(s))

Spec     == Init /\ [][Next]_vars
FairSpec == Spec /\ Fairness

-----------------------------------------------------------------------------
(* Properties                                                              *)

Codes == {"Ok", "PublishError", "ProducerNotAvailable", "ConfirmTimeout",
          "ProducerStopped", "StreamDoesNotExist"}
SendStates == {"new", "acquire", "add", "wait", "publish", "sent", "rejected"}
SessionStates == {"none", "up", "dead", "silent", "locking", "dropping", "joining", "closing", "closed"}
ConfirmSteps   == {"idle", "ProducerNotAvailable", "ConfirmTimeout"}
ReconnectSteps == {"idle", "connect", "declare", "install", "retry", "deleted"}
StopStates == {"idle", "Deleted", "Batch", "Confirm", "Delayed", "Reconnect",
               "accumulator", "semaphore", "client", "fail", "done"}
Ids == Nat \cup {NoId}

\* Every variable has its type.
TypeOK ==
    /\ status \in {"Initialized", "Starting", "Started", "Stopped"}
    /\ starting \in {"init", "connect", "declare", "finish", "done", "failed"}
    /\ next_id \in Nat /\ id \in [Msgs -> Ids] /\ pc \in [Msgs -> SendStates]
    /\ available \in Nat /\ sem_destroyed \in BOOLEAN
    /\ pending \in Seq(Msgs) /\ acc_destroyed \in BOOLEAN
    /\ old \in SUBSET Msgs /\ unconfirmed \in SUBSET Msgs /\ timed_out \in SUBSET Msgs
    /\ client \in Sessions \cup {NoClient} /\ dropped \in Sessions \cup {NoClient}
    /\ sess \in [Sessions -> SessionStates]
    /\ nsess \in 0 .. MaxSessions /\ faults \in 0 .. MaxFaults
    /\ wire \in [Sessions -> Seq(Msgs)] /\ sent \in Seq(Msgs)
    /\ inbox \in [Sessions -> Seq([id : Ids, ok : BOOLEAN])]
    /\ frame \in [Sessions -> [id : Ids, ok : BOOLEAN, msg : Msgs \cup {NoMsg}]]
    /\ due \in [Tasks -> Nat] /\ armed \in [Tasks -> BOOLEAN]
    /\ destroyed \in [Tasks -> BOOLEAN]
    /\ run \in [Tasks -> ConfirmSteps \cup ReconnectSteps \cup {"join"}]
    /\ run["Confirm"] \in ConfirmSteps /\ run["Reconnect"] \in ReconnectSteps
    /\ taken \in [{"Delayed", "Reconnect", "stop"} -> Sessions \cup {NoClient}]
    /\ stop \in [Stoppers -> StopStates]
    /\ calls \in [Msgs -> Nat] /\ result \in [Msgs -> Codes \cup {"none"}]
    /\ stored \in [Msgs -> Nat] /\ last_seq \in Ids

\* Where a message holds its permit.
InFrame == {frame[s].msg : s \in Sessions} \ {NoMsg}
Holding == {m \in Msgs : pc[m] \in {"add", "wait"}}
Holders == Holding \cup Elements(pending) \cup unconfirmed \cup InFrame \cup timed_out

\* The application is told about a message at most once, although the frame
\* thread, the timeout task, a resend and stop() all compete for it.
HandlerAtMostOnce == \A m \in Msgs : calls[m] <= 1

\* No permit is lost and none is released twice: what is available and what is
\* held by messages on their way always add up to max_unconfirmed.
PermitsConserved == available + Cardinality(Holders) = MaxUnconfirmed

\* A message is reported as confirmed only if the broker has stored it, for
\* distinct publishing ids.  With a name it also takes one sender and a broker
\* and a client that refuse no message: the broker takes a lower id that comes
\* after a higher one for a duplicate, and confirms it without storing it.
DistinctIds == \A m, n \in Msgs : m # n /\ id[m] = id[n] => id[m] = NoId
InIdOrder == NumSenders = 1 /\ ExplicitIds = {}
ConfirmedIsStored ==
    DistinctIds /\ (Named => InIdOrder /\ ~MayRefuse /\ ~FrameOverflow) =>
        \A m \in Msgs : result[m] = "Ok" => stored[m] > 0

\* Everything in m_unconfirmed has been handed to the current client: what was
\* sent before or during a reconnection is neither skipped nor forgotten, as
\* long as no frame is refused for its size.
UnconfirmedWasSent ==
    client # NoClient /\ ~FrameOverflow => unconfirmed \subseteq Elements(sent)

\* With one sender and ids from the producer itself, every connection carries
\* its messages in strictly increasing order of ids, resends included, which
\* is what the broker's deduplication needs.
PublishedInOrder ==
    InIdOrder => \A i, j \in DOMAIN sent : i < j => id[sent[i]] < id[sent[j]]

\* When stop() has returned, every message that send() accepted has had its
\* handler called (for distinct ids), and nothing holds a message any more.
StopResolvesEverything ==
    stop["user"] = "done" =>
        /\ pending = <<>> /\ unconfirmed = {} /\ timed_out = {} /\ InFrame = {}
        /\ DistinctIds => \A m \in Msgs : pc[m] \in {"publish", "sent"} => calls[m] = 1

\* No handler is called after stop() has returned: its captures may be gone.
NoCallAfterStop == [][stop["user"] = "done" => calls' = calls]_vars

\* reconnect_to_server runs only while the producer is started, so its test
\* for a stop during the connection never fires: internal_stop waits for the
\* task before it changes m_status.
ReconnectOnlyWhileStarted == run["Reconnect"] # "idle" => status = "Started"

\* A started producer without a client always has a recovery under way: a task
\* that will run, one that runs, or a stop that makes it pointless.
RecoveryUnderWay ==
    status = "Started" /\ client = NoClient =>
        \/ \E t \in {"Reconnect", "Deleted"} : due[t] > 0 \/ armed[t] \/ Running(t)
        \/ run["Delayed"] = "join" \/ dropped # NoClient
        \/ destroyed["Reconnect"] \/ destroyed["Deleted"]

\* Every stop() returns, whatever the tasks and one failing connection are doing.
StopReturns == stop["user"] # "idle" ~> stop["user"] = "done"

\* Every send() returns or throws.
SendReturns == \A m \in Msgs : m \in Sending ~> m \notin Sending

\* With a confirm timeout every accepted message is eventually reported, also
\* when connections are lost and the broker never answers.
EventuallyReported == \A m \in Msgs : pc[m] = "sent" ~> calls[m] = 1

\* "Automatic reconnection on network or broker failure": once connections stop
\* failing, a started producer has a live client again.
Reconnects == <>[](status = "Started" => client # NoClient /\ sess[client] = "up")

\* "Automatic reconnection on network or broker failure": a started producer
\* that has lost its client gets another one, unless it is stopped first.
RecoveryCompletes ==
    status = "Started" /\ client = NoClient ~> status # "Started" \/ client # NoClient
=============================================================================
