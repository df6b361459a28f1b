------------------------------ MODULE Consumer ------------------------------
(***************************************************************************)
(* ConsumerImpl: start() and stop(), store_offset() and grant_credit(), the *)
(* four background tasks, and one frame handling thread per connection (a  *)
(* "session") that takes the chunks the broker delivers to handle_message. *)
(* Sessions, tasks and m_mutex are treated as in Producer.                 *)
(*                                                                         *)
(* The stream holds the offsets up to conf.last in chunks of ChunkSize, and *)
(* the broker starts a subscription at the beginning of a chunk.           *)
(***************************************************************************)
EXTENDS Integers, Sequences, FiniteSets

CONSTANTS
    ChunkSize,                  \* messages of a chunk
    Configs,                    \* what the builder is given, the offset stored before, the last
                                \* offset of the stream, the faults that may happen, and if
                                \* stop() may be called and the stream deleted
    InitialCredit,              \* chunks the broker may send ahead
    MaxFaults,                  \* bound on lost connections and metadata updates
    MaxTrig,                    \* bound on the invocations due of one task
    MayBeSilent                 \* may the broker's heartbeats stop?

None     == -1                  \* an empty std::optional
NoOffset == -2                  \* first, last, next or a timestamp: the broker chooses
NoClient == 0

ASSUME StreamAssumption ==
    ChunkSize \in Nat \ {0} /\ \A c \in Configs : (c.last + 1) % ChunkSize = 0
ASSUME BoundsAssumption ==
    /\ InitialCredit \in Nat \ {0} /\ MaxFaults \in Nat /\ MaxTrig \in Nat \ {0}
    /\ MayBeSilent \in BOOLEAN
ASSUME ConfigsAssumption ==
    Configs \subseteq [named : BOOLEAN, auto_cursor : BOOLEAN, frequency : Nat, periodic : BOOLEAN,
                       auto_credits : BOOLEAN, offset : Nat \cup {NoOffset}, stored : Nat \cup {None},
                       last : Nat, faults : 0 .. MaxFaults, ends : BOOLEAN]

Sessions == 1 .. MaxFaults + 1  \* every session but the last ends by a fault
Tasks    == {"Persist", "Delayed", "Reconnect", "Deleted"}
Stoppers == {"user", "Deleted"}
NoFrame  == [step |-> "none", offset |-> 0, store |-> FALSE]

VARIABLES
    conf,                       \* the configuration of this consumer
    status, starting,           \* m_status; where start() is
    initial_offset,             \* m_initial_offset
    last_seen,                  \* m_last_seen_offset
    since_persist,              \* m_messages_since_last_persist
    client,                     \* m_client
    sess, nsess, faults,        \* life of each session; sessions, faults so far
    position, credit,           \* broker: next chunk and credit of a subscription
    inbox, frame,               \* chunks unread; the message a frame thread is at
    wire, stored,               \* offsets sent for storing; the one the broker has
    dropped,                    \* session being destroyed by handle_shutdown
    due, armed, destroyed, run, \* per task, as in Producer
    taken,                      \* session in the hands of a task or of stop
    stop,                       \* per stopper: where internal_stop is
    handled,                    \* history: offsets the handler was called with
    overlapped                  \* history: has a recovery subscribed while an older
                                \* session was still at a chunk?

confVars   == <<conf, status, starting>>
offsetVars == <<initial_offset, last_seen, since_persist>>
sessVars   == <<sess, nsess, faults>>
subVars    == <<position, credit, inbox, frame>>
storeVars  == <<wire, stored>>
timerVars  == <<due, armed>>
taskVars   == <<due, armed, destroyed, run>>
history    == <<handled, overlapped>>
vars == <<confVars, offsetVars, client, sessVars, subVars, storeVars, dropped, taskVars, taken, stop, history>>

\* m_auto_cursor_config is kept for a consumer with a name only.
AutoCursor == conf.named /\ conf.auto_cursor

Init ==
    /\ conf \in Configs
    /\ status = "Initialized" /\ starting = "init"
    /\ initial_offset = conf.offset /\ last_seen = None /\ since_persist = 0
    /\ client = NoClient /\ dropped = NoClient
    /\ sess = [s \in Sessions |-> "none"] /\ nsess = 0 /\ faults = 0
    /\ position = [s \in Sessions |-> None] /\ credit = [s \in Sessions |-> 0]
    /\ inbox = [s \in Sessions |-> <<>>] /\ frame = [s \in Sessions |-> NoFrame]
    /\ wire = [s \in Sessions |-> <<>>] /\ stored = conf.stored
    /\ due = [t \in Tasks |-> 0] /\ armed = [t \in Tasks |-> FALSE]
    /\ destroyed = [t \in Tasks |-> FALSE] /\ run = [t \in Tasks |-> "idle"]
    /\ taken = [t \in {"Delayed", "Reconnect", "stop"} |-> NoClient]
    /\ stop = [a \in Stoppers |-> "idle"]
    /\ handled = {} /\ overlapped = FALSE

-----------------------------------------------------------------------------
(* The mutex, the tasks and the sessions as the other operations use them. *)

Unlocked ==
    /\ starting \notin {"connect", "subscribe", "finish"}
    /\ run["Reconnect"] # "bail" /\ dropped = NoClient

Valid(t) == t = "Persist" => AutoCursor /\ conf.periodic

schedule_now(t) ==
    IF destroyed[t] THEN UNCHANGED timerVars
    ELSE /\ due' = [due EXCEPT ![t] = @ + 1]
         /\ armed' = [armed EXCEPT ![t] = FALSE]

\* Faulty variant: schedule_after does not set the timer.
ArmedAfterNever(t) == armed

ArmedAfter(t) == [armed EXCEPT ![t] = (Valid(t) /\ ~destroyed[t]) \/ @]

TimerExpires(t) ==
    /\ armed[t] /\ ~destroyed[t]
    /\ due[t] < MaxTrig
    /\ due' = [due EXCEPT ![t] = @ + 1]
    /\ armed' = [armed EXCEPT ![t] = FALSE]
    /\ UNCHANGED <<confVars, offsetVars, client, sessVars, subVars, storeVars, dropped, destroyed, run, taken,
                   stop, history>>

Ready(t)   == Valid(t) /\ ~destroyed[t] /\ due[t] > 0 /\ run[t] = "idle"

Running(t) == run[t] # "idle" \/ (t = "Deleted" /\ stop["Deleted"] # "idle")

\* Faulty variant: the client is let go without being stopped.
NotClosed(s) == sess

\* ClientImpl::stop(); a session that shuts down by itself is only joined.
Closing(s) == IF s # NoClient /\ sess[s] \in {"up", "dead"}
              THEN [sess EXCEPT ![s] = "closing"] ELSE sess

\* Faulty variant: stop() returns before the frame thread has ended.
JoinedAtOnce(s) == TRUE

Joined(s)  == s # NoClient => sess[s] = "closed"

\* client->store_offset: a command without an answer, whose write errors are
\* not reported.
SendStore(s, o) == wire' = IF sess[s] = "up" THEN [wire EXCEPT ![s] = Append(@, o)] ELSE wire

internal_store_offset(o) ==
    IF conf.named /\ client # NoClient
    THEN SendStore(client, o) /\ since_persist' = 0 /\ armed' = ArmedAfter("Persist")
    ELSE UNCHANGED <<wire, since_persist, armed>>

\* The chunk a subscription starts with.
FirstChunk(o) ==
    IF o = NoOffset THEN {c \in 0 .. conf.last + 1 : c % ChunkSize = 0}
    ELSE {(o \div ChunkSize) * ChunkSize}

subscribe(s, o) ==
    /\ \E c \in FirstChunk(o) : position' = [position EXCEPT ![s] = c]
    /\ credit' = [credit EXCEPT ![s] = InitialCredit]

-----------------------------------------------------------------------------
(* start(): m_mutex is held from the first step to the last.               *)

StartBegin ==
    /\ starting = "init" /\ status = "Initialized"
    /\ status' = "Starting" /\ starting' = "connect"
    /\ UNCHANGED <<conf, offsetVars, client, sessVars, subVars, storeVars, dropped, taskVars, taken, stop, history>>

\* get_client and m_client->start(); either may throw.
StartConnect ==
    /\ starting = "connect"
    /\ nsess' = 1
    /\ \/ /\ client' = 1 /\ sess' = [sess EXCEPT ![1] = "up"]
          /\ starting' = "subscribe"
       \/ /\ client' \in {NoClient, 1} /\ sess' = [sess EXCEPT ![1] = "closed"]
          /\ starting' = "failed"
    /\ UNCHANGED <<conf, status, offsetVars, faults, subVars, storeVars, dropped, taskVars, taken, stop, history>>

\* query_offset
StoredOffset == IF conf.named /\ stored # None THEN stored + 1 ELSE initial_offset

StartSubscribe ==
    /\ starting = "subscribe"
    /\ \/ /\ sess[1] = "up"
          /\ initial_offset' = StoredOffset
          /\ subscribe(1, initial_offset')
          /\ starting' = "finish"
       \/ /\ initial_offset' \in {initial_offset, StoredOffset}
          /\ starting' = "failed"
          /\ UNCHANGED <<position, credit>>
    /\ UNCHANGED <<conf, status, last_seen, since_persist, client, sessVars, inbox, frame, storeVars, dropped,
                   taskVars, taken, stop, history>>

\* The exchange fails when stop() has come first.
StartFinish ==
    /\ starting = "finish"
    /\ armed' = ArmedAfter("Persist")
    /\ status' = IF status = "Starting" THEN "Started" ELSE status
    /\ starting' = IF status = "Starting" THEN "done" ELSE "failed"
    /\ UNCHANGED <<conf, offsetVars, client, sessVars, subVars, storeVars, dropped, due, destroyed, run, taken, stop,
                   history>>

-----------------------------------------------------------------------------
(* The broker and the frame handling thread of session s.                  *)

Deliver(s) ==
    /\ sess[s] = "up" /\ position[s] \in 0 .. conf.last /\ credit[s] > 0
    /\ inbox' = [inbox EXCEPT ![s] = Append(@, position[s])]
    /\ position' = [position EXCEPT ![s] = @ + ChunkSize]
    /\ credit' = [credit EXCEPT ![s] = @ - 1]
    /\ UNCHANGED <<confVars, offsetVars, client, sessVars, frame, storeVars, dropped, taskVars, taken, stop, history>>

BrokerStores(s) ==
    /\ sess[s] \in {"up", "closing"} /\ wire[s] # <<>>
    /\ stored' = Head(wire[s])
    /\ wire' = [wire EXCEPT ![s] = Tail(@)]
    /\ UNCHANGED <<confVars, offsetVars, client, sessVars, subVars, dropped, taskVars, taken, stop, history>>

\* credit() reaches the broker while the connection is there.
Granted(s) == IF sess[s] = "up" THEN [credit EXCEPT ![s] = @ + 1] ELSE credit

\* handle_deliver: the chunk listener grants the next credit, then the messages
\* go to handle_message one by one.
handle_deliver(s) ==
    /\ sess[s] \in {"up", "dead"}
    /\ frame[s] = NoFrame /\ inbox[s] # <<>>
    /\ frame' = [frame EXCEPT ![s] = [step |-> "message", offset |-> Head(inbox[s]), store |-> FALSE]]
    /\ inbox' = [inbox EXCEPT ![s] = Tail(@)]
    /\ credit' = IF conf.auto_credits THEN Granted(s) ELSE credit
    /\ UNCHANGED <<confVars, offsetVars, client, sessVars, position, storeVars, dropped, taskVars, taken, stop, history>>

\* handle_message is done with offset o: on to the next message of the chunk.
LastOfChunk(o) == (o + 1) % ChunkSize = 0

AfterMessage(o) == IF LastOfChunk(o) THEN NoFrame ELSE [step |-> "message", offset |-> o + 1, store |-> FALSE]

Frequent(n) == AutoCursor /\ conf.frequency > 0 /\ n >= conf.frequency

\* The chunk starts before the offset asked for.
Skipped(o) == initial_offset > o

\* Faulty variant: m_initial_offset is reset by messages that are skipped, too.
InitialCleared(o) == None

InitialAfter(o) == IF Skipped(o) THEN initial_offset ELSE None

\* handle_message up to the end of its critical section.
HandleMessage(s) ==
    LET o == frame[s].offset IN
    /\ frame[s].step = "message"
    /\ Unlocked
    /\ initial_offset' = InitialAfter(o)
    /\ IF Skipped(o)
       THEN /\ frame' = [frame EXCEPT ![s] = AfterMessage(o)]
            /\ UNCHANGED <<last_seen, since_persist>>
       ELSE /\ last_seen' = o
            /\ since_persist' = since_persist + 1
            /\ frame' = [frame EXCEPT ![s] = [step |-> "call", offset |-> o, store |-> Frequent(since_persist + 1)]]
    /\ UNCHANGED <<confVars, client, sessVars, position, credit, inbox, storeVars, dropped, taskVars, taken, stop, history>>

\* The message handler is called without m_mutex: whoever took it in between has
\* seen this offset in m_last_seen_offset already.
CallHandler(s) ==
    /\ frame[s].step = "call"
    /\ frame' = [frame EXCEPT ![s].step = "handler"]
    /\ handled' = handled \cup {frame[s].offset}
    /\ UNCHANGED <<confVars, offsetVars, client, sessVars, position, credit, inbox, storeVars, dropped, taskVars, taken,
                   stop, overlapped>>

AfterHandler(f) == IF f.store THEN [f EXCEPT !.step = "store"] ELSE AfterMessage(f.offset)

HandlerReturns(s) ==
    /\ frame[s].step = "handler"
    /\ frame' = [frame EXCEPT ![s] = AfterHandler(@)]
    /\ UNCHANGED <<confVars, offsetVars, client, sessVars, position, credit, inbox, storeVars, dropped, taskVars, taken,
                   stop, history>>

\* store_offset(), called by the handler of a consumer that keeps its own cursor.
store_offset(s) ==
    /\ frame[s].step = "handler" /\ ~conf.auto_cursor
    /\ status = "Started" /\ Unlocked
    /\ internal_store_offset(frame[s].offset)
    /\ frame' = [frame EXCEPT ![s] = AfterHandler(@)]
    /\ UNCHANGED <<confVars, initial_offset, last_seen, client, sessVars, position, credit, inbox, stored, dropped,
                   due, destroyed, run, taken, stop, history>>

\* grant_credit(), called by the handler at the end of a chunk.
grant_credit(s) ==
    /\ frame[s].step = "handler" /\ LastOfChunk(frame[s].offset)
    /\ status = "Started" /\ Unlocked
    /\ ~conf.auto_credits /\ client # NoClient
    /\ credit' = Granted(client)
    /\ frame' = [frame EXCEPT ![s] = AfterHandler(@)]
    /\ UNCHANGED <<confVars, offsetVars, client, sessVars, position, inbox, storeVars, dropped, taskVars, taken, stop, history>>

\* Both throw when the consumer is not started; an exception that leaves the
\* handler ends the frame.
HandlerThrows(s) ==
    /\ frame[s].step = "handler" /\ status # "Started"
    /\ ~conf.auto_cursor \/ (~conf.auto_credits /\ LastOfChunk(frame[s].offset))
    /\ frame' = [frame EXCEPT ![s] = NoFrame]
    /\ UNCHANGED <<confVars, offsetVars, client, sessVars, position, credit, inbox, storeVars, dropped, taskVars, taken,
                   stop, history>>

\* The end of handle_message: enough messages, unless stored meanwhile.
StoreByCount(s) ==
    /\ frame[s].step = "store"
    /\ Unlocked
    /\ IF Frequent(since_persist) THEN internal_store_offset(frame[s].offset)
       ELSE UNCHANGED <<wire, since_persist, armed>>
    /\ frame' = [frame EXCEPT ![s] = AfterMessage(frame[s].offset)]
    /\ UNCHANGED <<confVars, initial_offset, last_seen, client, sessVars, position, credit, inbox, stored, dropped,
                   due, destroyed, run, taken, stop, history>>

handle_metadata_update(s) ==
    /\ sess[s] = "up" /\ frame[s] = NoFrame
    /\ faults < conf.faults
    /\ faults' = faults + 1
    /\ schedule_now("Delayed")
    /\ UNCHANGED <<confVars, offsetVars, client, sess, nsess, subVars, storeVars, dropped, destroyed, run, taken, stop, history>>

\* The connection is lost, with the offsets on their way.
Disconnect(s) ==
    /\ sess[s] = "up" \/ (sess[s] = "closing" /\ wire[s] # <<>>)
    /\ faults < conf.faults
    /\ faults' = faults + 1
    /\ sess' = [sess EXCEPT ![s] = IF @ = "up" THEN "dead" ELSE @]
    /\ wire' = [wire EXCEPT ![s] = <<>>]
    /\ UNCHANGED <<confVars, offsetVars, client, nsess, subVars, stored, dropped, taskVars, taken, stop, history>>

\* The frame thread fails to read and calls handle_shutdown.
NoticeDisconnect(s) ==
    /\ sess[s] = "dead" /\ frame[s] = NoFrame
    /\ sess' = [sess EXCEPT ![s] = "locking"]
    /\ inbox' = [inbox EXCEPT ![s] = <<>>]
    /\ UNCHANGED <<confVars, offsetVars, client, nsess, faults, position, credit, frame, storeVars, dropped, taskVars,
                   taken, stop, history>>

\* Nothing was read for two heartbeats: the reader's idle handler calls it.
HeartbeatTimeout(s) ==
    /\ MayBeSilent /\ sess[s] = "up"
    /\ faults < conf.faults
    /\ faults' = faults + 1
    /\ sess' = [sess EXCEPT ![s] = "silent"]
    /\ wire' = [wire EXCEPT ![s] = <<>>]
    /\ UNCHANGED <<confVars, offsetVars, client, nsess, subVars, stored, dropped, taskVars, taken, stop, history>>

\* As in Producer, but whatever m_status is.
Detaches(s) == client = NoClient \/ (client = s /\ sess[s] = "locking")

handle_shutdown(s) ==
    /\ sess[s] \in {"locking", "silent"}
    /\ Unlocked
    /\ client' = NoClient
    /\ \/ /\ Detaches(s)
          /\ sess' = [sess EXCEPT ![s] = IF @ = "locking" THEN "closed" ELSE "closing"]
          /\ schedule_now("Reconnect")
          /\ UNCHANGED dropped
       \/ /\ ~Detaches(s)
          /\ dropped' = client
          /\ sess' = [Closing(client) EXCEPT ![s] = IF client = s THEN "joining" ELSE "dropping"]
          /\ UNCHANGED timerVars
    /\ UNCHANGED <<confVars, offsetVars, nsess, faults, subVars, storeVars, destroyed, run, taken, stop, history>>

ShutdownDropped(s) ==
    /\ sess[s] = "dropping" /\ Joined(dropped)
    /\ dropped' = NoClient
    /\ sess' = [sess EXCEPT ![s] = "closing"]
    /\ schedule_now("Reconnect")
    /\ UNCHANGED <<confVars, offsetVars, client, nsess, faults, subVars, storeVars, destroyed, run, taken, stop, history>>

\* A frame thread told to stop ends with the chunk it is in; by the answer to
\* the close request the broker has read what was sent before it.
FrameThreadEnds(s) ==
    /\ sess[s] = "closing" /\ frame[s] = NoFrame /\ wire[s] = <<>>
    /\ sess' = [sess EXCEPT ![s] = "closed"]
    /\ inbox' = [inbox EXCEPT ![s] = <<>>]
    /\ UNCHANGED <<confVars, offsetVars, client, nsess, faults, position, credit, frame, storeVars, dropped, taskVars,
                   taken, stop, history>>

-----------------------------------------------------------------------------
(* The background tasks.                                                   *)

store_current_offset ==
    /\ Ready("Persist") /\ Unlocked
    /\ due' = [due EXCEPT !["Persist"] = @ - 1]
    /\ IF since_persist > 0 THEN internal_store_offset(last_seen)
       ELSE armed' = ArmedAfter("Persist") /\ UNCHANGED <<wire, since_persist>>
    /\ UNCHANGED <<confVars, initial_offset, last_seen, client, sessVars, subVars, stored, dropped, destroyed, run,
                   taken, stop, history>>

\* delayed_reconnect: m_client is moved out under the lock and stopped without.
DelayedBegin ==
    /\ Ready("Delayed") /\ Unlocked
    /\ due' = [due EXCEPT !["Delayed"] = @ - 1]
    /\ IF status = "Started"
       THEN /\ taken' = [taken EXCEPT !["Delayed"] = client]
            /\ client' = NoClient
            /\ sess' = Closing(client)
            /\ run' = [run EXCEPT !["Delayed"] = "join"]
       ELSE UNCHANGED <<taken, client, sess, run>>
    /\ UNCHANGED <<confVars, offsetVars, nsess, faults, subVars, storeVars, dropped, armed, destroyed, stop, history>>

DelayedEnd ==
    /\ run["Delayed"] = "join" /\ Joined(taken["Delayed"])
    /\ taken' = [taken EXCEPT !["Delayed"] = NoClient]
    /\ run' = [run EXCEPT !["Delayed"] = "idle"]
    /\ armed' = ArmedAfter("Reconnect")
    /\ UNCHANGED <<confVars, offsetVars, client, sessVars, subVars, storeVars, dropped, due, destroyed, stop, history>>

\* reconnect_to_server: the first look at m_client and m_status.
ReconnectBegin ==
    /\ Ready("Reconnect") /\ Unlocked
    /\ due' = [due EXCEPT !["Reconnect"] = @ - 1]
    /\ run' = [run EXCEPT !["Reconnect"] = IF client # NoClient \/ status # "Started"
                                           THEN "idle" ELSE "connect"]
    /\ UNCHANGED <<confVars, offsetVars, client, sessVars, subVars, storeVars, dropped, armed, destroyed, taken, stop,
                   history>>

\* get_client and client->start() succeed ...
ReconnectConnect ==
    /\ run["Reconnect"] = "connect" /\ nsess + 1 \in Sessions
    /\ nsess' = nsess + 1
    /\ sess' = [sess EXCEPT ![nsess'] = "up"]
    /\ taken' = [taken EXCEPT !["Reconnect"] = nsess']
    /\ run' = [run EXCEPT !["Reconnect"] = "subscribe"]
    /\ UNCHANGED <<confVars, offsetVars, client, faults, subVars, storeVars, dropped, timerVars, destroyed, stop, history>>

\* ... or throw.  The exception handler tells a deleted stream from the rest.
Caught == {"retry"} \cup (IF conf.ends THEN {"deleted"} ELSE {})

ReconnectRefused ==
    /\ run["Reconnect"] = "connect"
    /\ \E r \in Caught : run' = [run EXCEPT !["Reconnect"] = r]
    /\ UNCHANGED <<confVars, offsetVars, client, sessVars, subVars, storeVars, dropped, timerVars, destroyed, taken,
                   stop, history>>

\* Faulty variant: a recovery adds one to what is the next offset already.
ResumeOffsetTooFar == IF last_seen # None THEN last_seen + 2 ELSE initial_offset

\* Faulty variant: a recovery asks for the last message again.
ResumeOffsetAgain == IF last_seen # None THEN last_seen ELSE initial_offset

ResumeOffset == IF last_seen # None THEN last_seen + 1 ELSE initial_offset

\* Under the lock: m_status again, the offset to go on from, subscribe() and
\* m_client.  A client that is stopped here is joined with the lock held.
ReconnectSubscribe ==
    LET s == taken["Reconnect"] IN
    /\ run["Reconnect"] = "subscribe" /\ Unlocked
    /\ IF status = "Started"
       THEN /\ sess[s] = "up"
            /\ initial_offset' = ResumeOffset
            /\ subscribe(s, initial_offset')
            /\ client' = s
            /\ taken' = [taken EXCEPT !["Reconnect"] = NoClient]
            /\ run' = [run EXCEPT !["Reconnect"] = "idle"]
            /\ overlapped' = (overlapped \/ \E t \in Sessions : frame[t] # NoFrame)
            /\ UNCHANGED sess
       ELSE /\ sess' = Closing(s)
            /\ run' = [run EXCEPT !["Reconnect"] = "bail"]
            /\ UNCHANGED <<initial_offset, position, credit, client, taken, overlapped>>
    /\ UNCHANGED <<confVars, last_seen, since_persist, nsess, faults, inbox, frame, storeVars, dropped, timerVars,
                   destroyed, stop, handled>>

\* subscribe() throws: the connection is gone or the broker refuses.
ReconnectUnsubscribed ==
    LET s == taken["Reconnect"] IN
    /\ run["Reconnect"] = "subscribe" /\ Unlocked /\ status = "Started"
    /\ \/ sess[s] # "up" /\ UNCHANGED faults
       \/ sess[s] = "up" /\ faults < conf.faults /\ faults' = faults + 1
    /\ initial_offset' = ResumeOffset
    /\ sess' = Closing(s)
    /\ \E r \in Caught : run' = [run EXCEPT !["Reconnect"] = r]
    /\ UNCHANGED <<confVars, last_seen, since_persist, client, nsess, subVars, storeVars, dropped, timerVars, destroyed,
                   taken, stop, history>>

\* The client is joined; what is left of the exception handler.
ReconnectEnd ==
    /\ run["Reconnect"] \in {"retry", "deleted", "bail"} /\ Joined(taken["Reconnect"])
    /\ taken' = [taken EXCEPT !["Reconnect"] = NoClient]
    /\ run' = [run EXCEPT !["Reconnect"] = "idle"]
    /\ IF run["Reconnect"] = "deleted" THEN schedule_now("Deleted")
       ELSE /\ armed' = IF run["Reconnect"] = "retry" THEN ArmedAfter("Reconnect") ELSE armed
            /\ UNCHANGED due
    /\ UNCHANGED <<confVars, offsetVars, client, sessVars, subVars, storeVars, dropped, destroyed, stop, history>>

-----------------------------------------------------------------------------
(* stop() and internal_stop()                                              *)

StopCall ==
    /\ conf.ends /\ starting # "init" /\ stop["user"] = "idle"
    /\ stop' = [stop EXCEPT !["user"] = "Deleted"]
    /\ destroyed' = [destroyed EXCEPT !["Deleted"] = TRUE]
    /\ UNCHANGED <<confVars, offsetVars, client, sessVars, subVars, storeVars, dropped, timerVars, run, taken, history>>

\* m_stream_deleted_task calls internal_stop.
DeletedBegin ==
    /\ Ready("Deleted") /\ stop["Deleted"] = "idle"
    /\ due' = [due EXCEPT !["Deleted"] = @ - 1]
    /\ stop' = [stop EXCEPT !["Deleted"] = "Persist"]
    /\ destroyed' = [destroyed EXCEPT !["Persist"] = TRUE]
    /\ UNCHANGED <<confVars, offsetVars, client, sessVars, subVars, storeVars, dropped, armed, run, taken, history>>

DestroyOrder == [Deleted |-> "Persist", Persist |-> "Delayed", Delayed |-> "Reconnect"]

\* destroy() of one task returns, destroy() of the next begins.
StopDestroys(a) ==
    /\ stop[a] \in DOMAIN DestroyOrder
    /\ ~Running(stop[a])
    /\ stop' = [stop EXCEPT ![a] = DestroyOrder[@]]
    /\ destroyed' = [destroyed EXCEPT ![DestroyOrder[stop[a]]] = TRUE]
    /\ UNCHANGED <<confVars, offsetVars, client, sessVars, subVars, storeVars, dropped, timerVars, run, taken, history>>

StopEnd(a) == IF a = "user" THEN "done" ELSE "idle"

StopExchange(a) ==
    /\ stop[a] = "Reconnect" /\ ~Running("Reconnect")
    /\ status' = "Stopped"
    /\ stop' = [stop EXCEPT ![a] = IF status = "Stopped" THEN StopEnd(a) ELSE "client"]
    /\ UNCHANGED <<conf, starting, offsetVars, client, sessVars, subVars, storeVars, dropped, taskVars, taken, history>>

\* m_client is moved out under the lock ...
StopClient(a) ==
    /\ stop[a] = "client" /\ Unlocked
    /\ taken' = [taken EXCEPT !["stop"] = client]
    /\ client' = NoClient
    /\ stop' = [stop EXCEPT ![a] = IF client = NoClient THEN StopEnd(a) ELSE "unsubscribe"]
    /\ UNCHANGED <<confVars, offsetVars, sessVars, subVars, storeVars, dropped, taskVars, history>>

\* ... and unsubscribed without it; a failure is only logged.
StopUnsubscribe(a) ==
    /\ stop[a] = "unsubscribe"
    /\ position' = [position EXCEPT ![taken["stop"]] = None]
    /\ stop' = [stop EXCEPT ![a] = "store"]
    /\ UNCHANGED <<confVars, offsetVars, client, sessVars, credit, inbox, frame, storeVars, dropped, taskVars, taken,
                   history>>

\* The last offset is stored under the lock, then client->stop() begins.
StopStore(a) ==
    /\ stop[a] = "store" /\ Unlocked
    /\ IF AutoCursor /\ since_persist > 0 THEN SendStore(taken["stop"], last_seen) ELSE UNCHANGED wire
    /\ sess' = Closing(taken["stop"])
    /\ stop' = [stop EXCEPT ![a] = "join"]
    /\ UNCHANGED <<confVars, offsetVars, client, nsess, faults, subVars, stored, dropped, taskVars, taken, history>>

StopJoined(a) ==
    /\ stop[a] = "join" /\ Joined(taken["stop"])
    /\ taken' = [taken EXCEPT !["stop"] = NoClient]
    /\ stop' = [stop EXCEPT ![a] = StopEnd(a)]
    /\ UNCHANGED <<confVars, offsetVars, client, sessVars, subVars, storeVars, dropped, taskVars, history>>

-----------------------------------------------------------------------------
Start == StartBegin \/ StartConnect \/ StartSubscribe \/ StartFinish

Handler(s) == HandlerReturns(s) \/ store_offset(s) \/ grant_credit(s) \/ HandlerThrows(s)

FrameThread(s) ==
    \/ handle_deliver(s) \/ HandleMessage(s) \/ CallHandler(s) \/ Handler(s) \/ StoreByCount(s) \/ NoticeDisconnect(s)
    \/ handle_shutdown(s) \/ ShutdownDropped(s) \/ FrameThreadEnds(s)

Broker(s) == Deliver(s) \/ BrokerStores(s)

DelayedTask   == DelayedBegin \/ DelayedEnd
ReconnectTask ==
    \/ ReconnectBegin \/ ReconnectConnect \/ ReconnectRefused \/ ReconnectSubscribe
    \/ ReconnectUnsubscribed \/ ReconnectEnd

Stop(a) ==
    \/ StopDestroys(a) \/ StopExchange(a) \/ StopClient(a) \/ StopUnsubscribe(a) \/ StopStore(a) \/ StopJoined(a)

Next ==
    \/ Start \/ StopCall \/ DeletedBegin \/ store_current_offset \/ DelayedTask \/ ReconnectTask
    \/ \E t \in Tasks : TimerExpires(t)
    \/ \E a \in Stoppers : Stop(a)
    \/ \E s \in Sessions :
          FrameThread(s) \/ Broker(s) \/ handle_metadata_update(s) \/ Disconnect(s) \/ HeartbeatTimeout(s)

\* As for the producer; the handlers of the application return.
Fairness ==
    /\ WF_vars(Start) /\ WF_vars(DeletedBegin) /\ WF_vars(store_current_offset) /\ WF_vars(DelayedTask)
    /\ WF_vars(ReconnectTask) /\ SF_vars(ReconnectConnect)
    /\ \A t \in Tasks : WF_vars(TimerExpires(t))
    /\ \A a \in Stoppers : WF_vars(Stop(a))
    /\ \A s \in Sessions : WF_vars(FrameThread(s)) /\ WF_vars(Broker(s))

Spec     == Init /\ [][Next]_vars
FairSpec == Spec /\ Fairness

-----------------------------------------------------------------------------
(* Properties                                                              *)

SessionStates == {"none", "up", "dead", "silent", "locking", "dropping", "joining", "closing", "closed"}
ReconnectSteps == {"idle", "connect", "subscribe", "retry", "deleted", "bail"}
StopStates == {"idle", "Deleted", "Persist", "Delayed", "Reconnect", "client", "unsubscribe", "store", "join", "done"}
Frames == [step : {"none", "message", "call", "handler", "store"}, offset : Nat, store : BOOLEAN]

\* Every variable has its type.
TypeOK ==
    /\ conf \in Configs
    /\ status \in {"Initialized", "Starting", "Started", "Stopped"}
    /\ starting \in {"init", "connect", "subscribe", "finish", "done", "failed"}
    /\ initial_offset \in Nat \cup {None, NoOffset} /\ last_seen \in Nat \cup {None} /\ since_persist \in Nat
    /\ client \in Sessions \cup {NoClient} /\ dropped \in Sessions \cup {NoClient}
    /\ sess \in [Sessions -> SessionStates]
    /\ nsess \in Sessions \cup {0} /\ faults \in 0 .. MaxFaults
    /\ position \in [Sessions -> Nat \cup {None}] /\ credit \in [Sessions -> Nat]
    /\ inbox \in [Sessions -> Seq(Nat)] /\ frame \in [Sessions -> Frames]
    /\ wire \in [Sessions -> Seq(Nat)] /\ stored \in Nat \cup {None}
    /\ due \in [Tasks -> Nat] /\ armed \in [Tasks -> BOOLEAN] /\ destroyed \in [Tasks -> BOOLEAN]
    /\ run \in [Tasks -> ReconnectSteps \cup {"join"}] /\ run["Reconnect"] \in ReconnectSteps
    /\ taken \in [{"Delayed", "Reconnect", "stop"} -> Sessions \cup {NoClient}]
    /\ stop \in [Stoppers -> StopStates]
    /\ handled \in SUBSET Nat

\* The optionals hold a value wherever the code takes it: m_last_seen_offset
\* when there is something to persist, m_initial_offset when a recovery
\* subscribes before any message was seen.
OptionalsAreSet ==
    /\ since_persist > 0 => last_seen # None
    /\ last_seen = None => initial_offset # None

\* Each message taken for the handler is the one after the last, or the one
\* asked for (the one after the stored offset, if there is one), although chunks
\* start earlier and connections are lost: nothing is skipped, repeated or out
\* of order.  When the consumer has been stopped, store_offset and grant_credit
\* throw, and a handler that lets this pass skips the rest of its chunk.  Apart
\* from that only sessions that overlap can break the sequence.
Asked == IF conf.named /\ conf.stored # None THEN conf.stored + 1 ELSE conf.offset

InSequence(o) ==
    IF last_seen # None THEN o = last_seen + 1 \/ (status = "Stopped" /\ o > last_seen)
    ELSE Asked \in {o, NoOffset}

DeliveredInSequence ==
    [][\A s \in Sessions :
          frame[s].step = "message" /\ frame'[s].step = "call" /\ ~overlapped
              => InSequence(frame[s].offset)]_vars

\* The offsets the handler was called with, and those of messages that a frame
\* thread is about to call it with.
Given == handled \cup {frame[s].offset : s \in {t \in Sessions : frame[t].step = "call"}}

\* The offsets the broker keeps or is sent for storing.
Persisted == {stored} \cup UNION {{wire[s][i] : i \in DOMAIN wire[s]} : s \in Sessions}

\* A consumer that starts again after the stored offset misses no message: this
\* one and all before it, from the one first asked for, were given to the
\* handler, or are at the call.  That includes the one message which the timer
\* or stop() may store while its frame thread is between m_mutex and the
\* handler; and lost connections, chunks read twice and sessions that overlap
\* never leave a gap below the cursor.
CursorSkipsNothing ==
    \A o \in Persisted :
        /\ o \in Given \cup {conf.stored}
        /\ conf.named /\ Asked # NoOffset => Asked .. o \subseteq Given

\* When stop() has returned, every session is closed and no handler runs.
QuietAfterStop ==
    stop["user"] = "done" =>
        \A s \in Sessions : sess[s] \in {"none", "closed"} /\ frame[s] = NoFrame

\* handle_shutdown destroys a client with m_mutex held: its own, on the strand
\* that the destructor waits for after a heartbeat timeout; or, when it comes
\* late, a newer one, whose frame thread waits for m_mutex in handle_message.
Blocked ==
    \E s \in Sessions :
        sess[s] = "joining" \/ (sess[s] = "dropping" /\ frame[dropped].step \in {"message", "store"})

\* Every stop() returns, unless handle_shutdown has blocked m_mutex.
StopReturns == stop["user"] # "idle" ~> stop["user"] = "done" \/ Blocked

\* The stream is read to its end, also when connections are lost, with the same
\* exception.
DeliversAll ==
    status = "Started" /\ conf.auto_credits /\ handled # {} ~> status = "Stopped" \/ conf.last \in handled \/ Blocked

\* "automatic periodic persist": messages seen are eventually persisted.
PersistsPeriodically ==
    status = "Started" /\ Valid("Persist") /\ since_persist > 0 ~> status = "Stopped" \/ since_persist = 0
=============================================================================
