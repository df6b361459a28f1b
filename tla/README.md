# A TLA+ model of the hareflow client

hareflow is a C++ client for RabbitMQ streams.  This directory holds TLA+
modules that model its concurrent parts, TLC configurations that check them on
small instances, and TLAPS proofs of the main properties for instances of any
size.  Every definition is a translation of code under `src/`; `PROJECT.json`
maps each one to the lines it stands for.

## The system

| Part | State | Operations | Works with |
|---|---|---|---|
| `BackgroundScheduler` | threads, their task, overflow queue, `m_quitting` | `run_task`, the thread loop, the destructor | every task of an environment |
| `ReschedulableTask` / `AsyncTask` | strand, timer, `pending_invocations`, `current_invocation`, `destroyed` | `schedule_now`, `schedule_after`, `cancel`, `destroy`, the worker loop | the scheduler; owned by producer, consumer, environment |
| `Semaphore`, `Accumulator` | permits; pending messages | acquire, release; add, extract; destroy | the producer |
| `ProducerImpl` | status, client, unconfirmed messages, next id, five tasks | start, send, flush, stop; confirm, error, shutdown, metadata listeners; publish, timeout scan, reconnect | all of the above, its client, the environment |
| `ConsumerImpl` | status, client, last seen and initial offset, persist counter, four tasks | start, stop, store_offset, grant_credit; message, shutdown, metadata listeners; persist, reconnect | its client, the environment |
| `EnvironmentImpl` | locator client, registered producers and consumers | locator operations with retries, locator recovery, destruction | clients, producers, consumers |
| `ClientImpl` | status, outstanding requests, negotiated parameters | start, stop, requests, publish; the frame thread and its handlers; heartbeats | the connection, its owner's listeners |
| `Connection` | outbox, inbox, pending read, idle timers, strand | connect, read, write, shutdown | the socket |
| `BinaryBuffer`, commands | bytes and cursors | reads and writes of fields, sizes | the client's frames |
| codec, builders, types | none that outlives a call | conversions | |

What makes it hard: application threads, one frame thread per client, the pool
threads and the io threads all enter the same object; a lock is often released
between a test and its use; connections die at any moment, including while they
are being set up; most recovery is a chain of tasks that reschedule themselves;
and `internal_stop` waits on a pool thread for other jobs of the same pool.

The properties worth having follow from that: calls of a task never overlap and
no trigger is lost; no task is stranded in the pool; a confirmation handler is
called exactly once and never after `stop()`; permits are neither lost nor
duplicated; what is confirmed is stored and what is not is sent again, in order;
a recovery is always under way while it is needed; a consumer gets every message
once and in order, and no message below the offset it stores is skipped; one thread shuts a client
down, whoever finds out; both sides of the wire agree on every byte; and
everything that is called returns.  `PROJECT.json` lists the hazards with the
line where each one bites.

## Modules

| Module | Models |
|---|---|
| `TaskContract` | what an owner may rely on: one call per trigger, no overlap, nothing after `destroy()` |
| `ReschedulableTask` | `ReschedulableTask` with its `AsyncTask`; shown to implement `TaskContract` |
| `BackgroundScheduler` | the thread pool |
| `PoolOwners` | the pool shared by owners whose stop job waits for another job of the pool |
| `BinaryBuffer` | reads and writes of integers, strings, blobs and arrays |
| `Commands` | every command and response: fields, sizes, decoding |
| `Framing` | the calls of the client as frames, publish framing, and the frames of the broker |
| `Client` | `ClientImpl` with its `Connection`: handshake, requests, shutdown, strand, idle timers |
| `Environment` | the locator with its recovery and operations, registration, the destructor |
| `Consumer` | `ConsumerImpl` with its client sessions, its tasks and a broker |
| `Producer` | `ProducerImpl` with `Semaphore` and `Accumulator`, its client sessions and a broker |
| `*Proofs` | the TLAPS proofs about the module they extend |
| `MC*` | the module as TLC runs it; a `.cfg` per instance |

**How code becomes steps.**  A step is the code between two points where a
thread can be made to wait or another can get in: taking a mutex, waiting on a
condition, a future or a strand, a request to the broker, a call of application
code.  Where a mutex is never held across such a point it needs no variable.
It has one in `ReschedulableTask` (`mutex`); in `Producer`, `Consumer` and
`Environment` the operator `Unlocked` says that nobody sits on it.

**ReschedulableTask.**  `strand` is the queue of posted handlers, run one at a
time.  A handler that calls the function blocks the strand until the mutex is
free.  `timer` says whether a wait is outstanding; when it expires its handler
is queued and can no longer be cancelled.  A job is one lambda given to
`run_task`; it takes the mutex, tests the loop condition, calls, and repeats.  An
exception leaves the job with `current_invocation` set.  `destroy()` is four
steps: lock, unlock and dispatch, relock, and the wait for the future.

**BackgroundScheduler.**  `tpc` is where a thread is in `run_work_thread`.  A
wait with a predicate is modelled by what the predicate says when the thread
wakes, so a spurious wakeup changes nothing.

**PoolOwners.**  Each owner has a stop job and a work job.  The stop job ends
only when the work job, if it was submitted, has been executed (`Waiting`).  There
may be more owners than threads: then the stop jobs can block the pool, and the
properties say exactly when.

**BinaryBuffer and Commands.**  Pure algorithms.  A byte has `Base` values, 256
in the program; the runs use 8, so that a string of `SignedMax(2)` = 31 bytes is
as long as the width of its length allows.  A buffer carries a flag for the
exception an operation has thrown.  A command is its size, as `body_size()`
counts it, and its fields, as `write_body()` writes them; the two are written
apart as in the code, so that they can disagree.

**Framing.**  Every list of messages, every call and every sequence of frames of
the broker is an initial state; the steps are the turns of the loops in
`publish_encoded`, in the read chain and in `handle_frames`, and the reads of
the broker, whose layouts are those of the protocol (external).  The limit of
the accumulator and that of the client are negotiated apart: the first connection
may have had another one.

**Client.**  `call[c]` is the request of an application thread, of `start()` or
of `stop()`: registered, being written, waiting, late, over.  `posted` is the
queue of the strand; a handler on it is one step, except the reader idle handler,
which goes through `shutdown()` while the strand waits (`StrandBusy`).
`closing[a]` is how far actor `a` (frame thread, `stop()`, idle handler) is in
`shutdown()`.  `sending` is the `async_write` in flight with the number of
entries it was started with.  Frames that complete no request are left out, as
they change none of this state.  `conf` fixes for a behaviour what may happen in
it, so that one run covers several scenarios.

**Environment.**  Clients are numbered.  A critical section of `m_mutex` is one
step, except that of `handle_locator_shutdown`.  The destructor reads `m_locator`
without `m_mutex`, so it can get in between the reset of `m_locator` and
`schedule_now`: the listener is two steps (`ShutdownResets`, `ShutdownSchedules`),
and its client is `resetting` in between.  `early` records the clients that were
lost before they were installed.  `wedged` is the cycle of a missed heartbeat (see
`heartbeat` below), `torn` a client destroyed inside its own `stop()`; both are
outcomes of the code, from which nothing is promised any more.  After a missed
heartbeat nothing arrives on the connection any more: that a close frame of the
broker crosses the timeout is left out.

**Consumer.**  Sessions and tasks are as in `Producer`.  The stream is the
offsets up to `conf.last`, in chunks of `ChunkSize`; a subscription starts with the
chunk that holds its offset.  `frame` is where the frame thread is in
`handle_deliver`: before `handle_message`, past its critical section and about to
call the handler (`call`), in the handler, about to store.  Between `message` and
`call` the offset is in `m_last_seen_offset` and the handler has not been called;
the persist task, `stop()` or a recovery may take it from there.
`wire` holds the offsets sent and not yet stored by the broker.  `conf` is what
the builder was given: name, cursor, credits, initial offset; and, as in
`Client`, what may happen in a behaviour: the length of the stream, the number of
faults, and whether the consumer is ever stopped or its stream deleted (`ends`).

**Producer.**  `pc[m]` is where the `send()` of message `m` is: waiting for a
permit, in `Accumulator::add`, about to publish, or returned.  A permit is not a
variable of its own: it is where its message is (`Holders`).  A *session* is a
`ClientImpl` from `start()` to the end of its frame thread; `sess` goes from
`up` to `dead` (connection lost, not yet noticed), `locking` and `dropping`
(inside `handle_shutdown`), or to `closing` (told to stop), and then `closed`;
`silent` is a connection that only a missed heartbeat reveals, and `joining` the
session that is destroyed on its own strand.
`frame` is the listener call a frame thread is in.  Tasks follow `TaskContract`:
`due` counts triggers, `armed` is the timer, `run` the step of the call in
progress.  The broker stores or refuses what arrives and confirms it; for a
named producer it discards ids that are not above the last one.  It is external
and modelled by what the client may see of it.  The oversized frame
(`FrameOverflow`) is the case `Framing` shows to exist.  `Inputs` are the steps
that something outside decides on (a send, a fault, a metadata update), `Steps`
all others; `MCProducer` limits the first where liveness is checked, so that
a behaviour has either two senders or a fault.

## What the runs check

`CHECK_DEADLOCK FALSE` stands in every configuration because every one of these
systems may stop for good: a destroyed task, a joined pool, a stopped producer,
an algorithm that has ended.  That nothing stops too early is what the
liveness properties say.

| Run | Instance | Shows |
|---|---|---|
| `task` | 2 destroyers, 3 scheduling calls, the function may throw | `DestroyReturns`, `BacklogDrains`, `ImplementsContract` |
| `pool` | 2 threads, 2 owners with 2 jobs each, 2 other jobs | `EachTaskOnce`, `TaskIsExecuted`, `DestructorReturns`, `SomeThreadMovesOn`, `DeletedOwnerStops` |
| `wire` | 3 messages, 8 sizes and 4 limits around the boundaries; every call; every kind of frame of the broker, whole, cut after any byte or extended; null strings and blobs | `NothingLostOrReordered`, `RefusedOnlyForPrefix`, `BrokerReadsCall`, `DecodedWholeOrDropped` |
| `client` | `start()`, `stop()`, 1 request, 1 fault, with and without heartbeat | `ShutdownOnce`, `NobodyLeftWaiting`, `NoLeakedRequest`, `WrittenWasSent`, `EveryCallReturns`, `LossIsNoticed` |
| `environment` | 2 operations, 1 owner, 3 faults | `StaleOnlyByWindow`, `NothingOutlives`, `OperationReturns`, `LocatorComesBack` |
| `stop` | 2 messages, 2 senders, every way to fail, 1 fault | `PermitsConserved`, `HandlerAtMostOnce`, `StopResolvesEverything`, `NoCallAfterStop` |
| `resend` | named, 2 messages, 4 faults | `PublishedInOrder`, `ConfirmedIsStored`, `UnconfirmedWasSent`, `RecoveryUnderWay` |
| `recovery` | 2 messages and 1 permit, or 1 message and 1 fault; deletion of the stream | `SendReturns`, `StopReturns`, `EventuallyReported`, `RecoveryCompletes` |
| `consumer` | 2 chunks of 2 messages and 1 fault, 1 chunk and 2 faults, 1 chunk and 4 faults, or 2 chunks without one; 4 configurations | `OptionalsAreSet`, `CursorSkipsNothing`, `QuietAfterStop`, `DeliveredInSequence`, `StopReturns`, `DeliversAll` |
| `reconnects` | 1 message, 1 lost connection | `Reconnects` fails |
| `heartbeat` | 1 message, 1 silent connection | `RecoveryCompletes` fails |
| `persist` | 1 chunk, 1 lost connection, a cursor that only the time persists | `PersistsPeriodically` fails |

What they show, where the name does not say it:

* `ImplementsContract`: calls of a task never overlap, no trigger is lost, and
  nothing runs once `destroy()` has returned.
* `RefusedOnlyForPrefix`: a publish frame that `send_frame` refuses is over the
  limit by the four bytes of its prefix at most, unless a reconnection lowered
  the limit.  So messages of the last four sizes are accepted by `send()` and
  fail later; nothing else does.
* `NobodyLeftWaiting`: no request waits for its timeout once `shutdown()` has
  failed the outstanding ones.  It depends on the order in `shutdown()`: socket
  first, then the requests.
* `LossIsNoticed`: with heartbeats.  Without them a connection lost between the
  last answer of `start()` and its exchange to `Started` is noticed by nobody: the
  frame thread has ended, having found the client still `Starting`.
* `StaleOnlyByWindow`: the environment keeps a dead locator only if it died
  between its `start()` and its installation, the window `reconnects` shows for
  the producer.
* `DeliveredInSequence`: while sessions do not overlap.  They do when a metadata
  update or a late listener leaves the old client delivering the rest of a chunk
  while a new one has subscribed; then messages come twice.  And there may be a
  gap once the consumer is `Stopped`: `store_offset()` and `grant_credit()` throw
  from there on, `handle_frames` catches what leaves the handler, and until the
  client is stopped the next chunk is still delivered.
* `CursorSkipsNothing`: every message from the first one asked for up to the
  offset that is stored, or on its way to the broker, was given to the handler.
  The exception is the one message that is at the call: `m_last_seen_offset`
  advances first, and the persist task or `stop()` may store it before the handler
  has been called, or while it runs.  So a consumer that starts again after its
  stored offset misses nothing, unless the process died just there.  It holds
  when sessions overlap too.
* `SomeThreadMovesOn`: as long as jobs are queued some thread has a job that waits
  for no other, unless as many owners as there are threads are inside `destroy()`
  and wait for jobs of the queue.
* `DeletedOwnerStops`: `internal_stop()` of a deleted stream ends, if fewer streams
  than the pool has threads are ever deleted.
* `NothingOutlives`: when `~EnvironmentImpl` is over, all that can still touch the
  environment is one listener between its reset of `m_locator` and its end.

**Bounds.**  Three scheduling calls allow one call in progress, one counted and
one in the strand, which is every relation a trigger can have to a job; two
destroyers are the application's and the destructor's.  Six tasks on two
threads fill the pool and leave four for the overflow queue, and two owners are as
many as there are threads, so that the pool can block.  Two messages and one
permit, or batches of one, make every queue of the producer full at some time;
one lost connection overlaps with every operation, and four let a late shutdown
listener meet the session after the next.  `MaxTrig` bounds the expiries of a
timer that wait for a call.  The sizes in `wire` lie on, just below and just
above the points where a message or a frame stops fitting, and the strings on
both sides of the reference limit and of the width of a length.  In `client` one
fault or one stop meets every step of the handshake, of a request and of the
shutdown of another actor.  In `environment` three faults are a lost locator, a
failed attempt to replace it and the loss of the next.  In `consumer` a chunk of
two has an inside; two faults let a session be lost before its first message, and
four let the listener of a silent session come when a third one is
installed; there the consumer is not stopped, which keeps the instance small.
Automatic credits put the second chunk at hand while the first is handled, so
that a consumer stopped inside the first goes on to the second.  Messages are
interchangeable where no liveness is checked, so `Symmetry` is sound there.

**Fairness.**  Io threads run the strand and the timers; pool threads run what
they have; a thread inside an operation goes on; a called function returns.
Each is weak fairness of one actor's steps.  The one strong fairness says that of
infinitely many attempts to connect one succeeds (in `Producer` and `Consumer`):
without it no recovery can be promised.  In `Environment` and `Client` failures
are counted instead.  The socket takes or refuses what is written, and the broker
of a live connection answers or its failure counts as a fault.  No call of the
application, no fault and no answer to a request is assumed to happen.

### Disagreements between the code and what is said of it

* `reconnects`: a client that dies between `declare_publisher` and the moment it
  becomes the producer's client (in `start()` and in `reconnect_to_server`) is
  installed dead, and nothing will replace it.
* `heartbeat`: when a heartbeat is missed, the idle handler shuts the client down
  on the strand of its connection, and the listener drops the producer's
  reference with `m_mutex` held.  If it was the last one, `~ClientImpl` joins the
  frame thread, which waits for that strand.
* `persist`: the persist task schedules itself again only if it finds a client, so
  that one run during a recovery ends the periodic persistence.

Four more limits of the code that these or other instances of the same modules
show:

* `handle_shutdown` resets `m_client` with `m_mutex` held, without asking whether
  it is the client that was shut down.  A listener that comes late (the session
  was silent and a metadata update had it replaced before its heartbeat was
  missed) destroys the newer client; `~ClientImpl` joins a frame thread that
  may be waiting for `m_mutex` in `handle_message`, and neither goes on.  The run
  `consumer` reaches it with four faults: `Blocked` names the state, and
  `StopReturns` and `DeliversAll` except it.  `Producer` has the same behaviour
  (`handle_publish_confirm`), out of reach of the single fault of `recovery`.

* `internal_stop` for a deleted stream runs on the pool and waits for jobs of the
  pool.  As many such owners as there are threads can block all of them while the
  jobs they wait for are in the overflow queue; the run `pool` contains it
  (`AllBlocked`).  That this is the only way to block the pool is
  `SomeThreadMovesOn`, proved for every number of threads and owners.
* `~EnvironmentImpl` takes no mutex.  When the listener of a lost locator has reset
  `m_locator`, the destructor finds nothing to stop and can be over before the
  listener has called `schedule_now` and unlocked `m_mutex`, both members of the
  environment (`NothingOutlives`).
* `check_confirm_timeout` stops its walk over the ids at the first message that is
  not overdue, but with two senders the order of the ids is not that of the
  publish times.  An overdue message is then reported late, though it is reported
  (`EventuallyReported`).

## What is proved

The proofs hold for every value of the constants that meets the named `ASSUME`s.

* `ReschedulableTaskProofs`.  The safety properties are not inductive: that
  calls do not overlap needs that the only active job is the one
  `current_invocation` refers to, and that `destroy()` leaves nothing needs that
  the future it waits for is the last job's.  `JobsBounded` ties the number of
  jobs to the bound on scheduling calls.  From the same invariant the module is
  shown to implement `TaskContract`; a trigger is due from the moment its
  handler is in the strand until the loop takes it, so the mapping counts the
  trigger handlers of the queue.
* `ProducerStateProofs`, `ProducerPublishProofs` and `ProducerProofs`.  Type
  correctness comes first, one lemma per part of the producer, and includes that
  `available` stays a natural number. What the lemmas need to know about
  counting (`Counting`) is one of their assumptions, which `ProducerProofs`
  discharges from the finiteness of `Msgs`. `HandlerAtMostOnce` and
  `PermitsConserved` rest on one invariant: a message past `send()` is in at
  most one of the accumulator, `m_unconfirmed`, the frame threads and
  `timed_out` (`OnePlace`), with no call of its handler so far
  (`PlacedIsAccepted`); no two frame threads have the same message (`OneFrame`);
  no two entries of `m_unconfirmed` have the same id (`OneUnderAnId`, without
  which one answer would erase two messages and report one); and `timed_out` is
  empty between invocations (`TimedOutIsLocal`). Every release then takes a set
  out of the holders and adds its size to `available`.

  `ControlInv` leaves the messages out: the order in which `start()`, the
  recovery tasks, the sessions and the two ways to `internal_stop` can follow
  each other.  A session whose frame thread lives is `m_client`, with
  `handle_shutdown` or with one of three others (`Owned`); `reconnect_to_server`
  runs only while there is no client; and when `m_status` is `Stopped` the tasks
  are destroyed and idle (`StopOrder`).  `ReconnectOnlyWhileStarted` and
  `RecoveryUnderWay` are part of it.

  `PublishInv` follows the messages.  With one sender and ids from the producer,
  the message in `send()` is above all others, the accumulator is in order and
  above everything published (`OrderInv`), and a connection starts empty
  (`FreshInv`), so that the resend, sorted by id, and the batches after it keep
  `PublishedInOrder`; that the resend takes all of `m_unconfirmed` and `m_mutex`
  is held from there to the installation gives `UnconfirmedWasSent`.
  `ConfirmedIsStored` needs what an answer means (`AnswerInv`).  Without a name it
  is about a message that was stored.  With one it only says that the id is not
  above the highest the broker has seen, so that everything unconfirmed up to
  there has to be stored: each message on a connection comes after all those with
  lower ids that are still to be stored (`Covers`), which is what sending
  everything again, in order, before anything new is for.

  `StopInv` joins the three.  An accepted message is in one of the four places or
  its handler was called (`Accounted`); `internal_stop` empties the places one
  after the other, and by the control invariant no task, frame thread or sender
  puts anything back.  `StopResolvesEverything` and `NoCallAfterStop` follow: a
  call takes a message out of a place, and there is none.

* `ClientProofs`.  Four invariants, each resting on the ones before it.  `ShutInv`:
  an actor is inside `shutdown()` only after an exchange of the status that
  no other can have made, so one actor at most, and the listener is called once
  (`ShutdownOnce`).  `CallInv`: `m_outstanding_requests` are exactly the busy calls
  without an answer, and their ids are distinct and below the sequence number
  (`NoLeakedRequest`).  `SendInv`: what the strand's queue, the outbox
  and the socket have seen was numbered before, so that the id of a new request is
  not among them; and the entries a successful write was started with have all
  been taken by the socket (`WrittenWasSent`).  `LastInv`: past the
  step that closes the socket nothing more is sent, and past the one that
  fails the requests a call without an answer was never sent, so that its
  write fails (`NobodyLeftWaiting`).  Swapping the two steps of `shutdown()`, or
  dropping the removal of a request, makes these proofs fail, as it should.

* `EnvironmentProofs`.  A client that runs, or whose listener is still to be
  called, is the locator or the one that `reconnect_to_server` is about to install,
  and there is never both (`LocatorInv`; a listener that has reset `m_locator` and
  holds `m_mutex` keeps others from installing one); `StaleOnlyByWindow` follows, since only the
  second can have been lost unnoticed.  The destructor's steps each take away
  one thing that could touch the environment (`DestructorInv`), in the order
  in which `NothingOutlives` needs them.  `FaultInv` counts: each client that is
  gone cost a fault, so within the bound on faults `get_client` finds another.

  Its second part is about the thread pool that the environment owns.  The
  invariant `PoolInv` adds to the four safety properties what relates a thread's
  program counter to `m_running` and its task, and that queue and threads hold
  distinct tasks.  `EachTaskOnce` counts, so the proof
  first shows that each task is in exactly one place.
  `PoolMovesOn` is about the owners: every step of theirs is a step of the pool, so
  the pool's invariant holds.  Jobs are queued only while every thread has one.  If
  each of these waits, it is the stop job of an owner inside `destroy()`; a task is
  in one place, so threads and waiting owners map one to one, and the job each owner
  waits for, not executed and on no thread, is in the queue.
* `ConsumerDeliveryProofs` and `ConsumerProofs`.  First the types, and with them
  that until `start()` has subscribed nothing is delivered, that what is at hand to
  be stored was given to the handler or is at the call (`StoredWasGiven`), and that
  an offset to subscribe to is there until the first message has been seen
  (`DataInv`): `OptionalsAreSet`.
  `QuietAfterStop` needs to know who holds each session.  `SessionInv`: a session
  that has not ended is `m_client`, or with `handle_shutdown`, with one of the two
  recovery tasks or with `stop()`, and none of these takes one while it has
  another.  `StopInv`: the tasks are destroyed, idle and thus empty-handed
  before `m_status` changes, one of the two ways to stop takes the client, and no
  other is installed after that.  So when `stop()` has returned nobody holds a
  session, and a closed session is at no message.

  `DeliveredInSequence` is about one step but rests on everything before it.
  `SequenceInv` says which sessions can still give a chunk: `m_client` and the
  one `stop()` has taken, of which there is one at most, while the one of a
  recovery has not been used (`SourceInv`, `UnusedInv`).  The chunks unread and
  the broker's position follow each other (`ChunkInv`); `m_initial_offset` is what
  was asked for until a message was seen, and afterwards empty or the
  next message (`InitialInv`).  `OrderInv` then says which message is due: the
  message a frame thread is at, or else the first of the next chunk, is the one
  after the last seen, or before `m_initial_offset` and will be skipped.  A
  recovery keeps it because it runs only while there is no client, takes
  `m_last_seen_offset` under the lock and asks for the message after it.  From the
  invariants above this needs `Discipline` only, so that it is kept apart.

  `CursorSkipsNothing` says more about less: sessions may overlap and deliver
  messages twice, and still no gap may open below a stored offset.  `Reached(n)` says
  that every message from the one asked for up to `n` was given.  `ReachInv`: it holds
  for the last message seen, for the message any frame thread is at, whichever
  session it belongs to, and for the chunk any session goes on with (`AtReached`,
  `NextReached`).  A step that calls the handler extends what is reached by the next
  message; the end of a chunk leads to the chunk after it; a recovery asks for the
  message after the last seen, and its first chunk starts no later.  The one step
  that would break this is a handler that throws and skips the rest of its chunk; it
  throws because the consumer was stopped, and only to a consumer that keeps
  its own cursor (`Unbroken`), whose `store_offset()` then stores nothing more.
  What is sent or stored is one of the offsets so reached (`CursorInv`).

Only model-checked: all liveness properties (the prover has no fairness), all
of `BinaryBuffer`, `Commands` and `Framing` (recursive definitions over data), and
what is not listed under `theorems` in `PROJECT.json`.

## Not modelled

* Codec, logging, builders, parameters, types and exceptions convert or hold data
  and have no control worth a model; TLS and name resolution belong to libraries.
* The buffer pool of `Connection` reuses memory and decides nothing.
* The tables of brokers and streams that `metadata()` builds from its answer, and
  the choice of a broker from them: data only.  The answer itself is decoded in
  `Commands`.
* `ClientImpl::publish` sends one message, encoded on the spot, as a frame of its own.
  No part of the library calls it; its frame is one that `Framing` sends.
* The data race of `Connection::shutdown` with the strand on the socket object is
  undefined behaviour of the library and has no outcomes to choose from; an
  orderly close at any moment is modelled.
* Application code is assumed to return from its handlers, not to call `send()` in
  one without a permit to spare, and to drop the environment only after its
  producers and consumers have stopped.
* A refinement from `Client` to the sessions of `Producer` and `Consumer` is not
  stated: a session includes what the owner's listener does, which `Client` only
  counts.
