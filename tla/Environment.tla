----------------------------- MODULE Environment ----------------------------
(***************************************************************************)
(* EnvironmentImpl: the locator client and its recovery, the operations    *)
(* that go through the locator with retries, the registered producers and  *)
(* consumers (owners here), and the destructor.                            *)
(*                                                                         *)
(* Clients are numbered.  A critical section of m_mutex is one step, but   *)
(* for that of the listener: the destructor reads m_locator without        *)
(* m_mutex, and may do so between its two statements.  The listener of a   *)
(* client runs on its frame handling thread, or, after a missed heartbeat  *)
(* (nothing arrives any more), on the strand of its connection: if it then *)
(* drops the last reference, the destructor of the client joins a thread   *)
(* that waits for this strand, and m_mutex is never released (wedged).  If *)
(* the listener resets m_locator after the destructor has tested it and    *)
(* before stop() of that client is over, the behaviour is undefined        *)
(* (torn): stop() may not return, or return early.  The recovery task is   *)
(* used through its contract: one call at a time, as many as were          *)
(* scheduled.                                                              *)
(***************************************************************************)
EXTENDS Integers, FiniteSets

CONSTANTS
    Operations,                 \* threads that call locator_operation
    Owners,                     \* producers and consumers
    MaxFaults,                  \* bound on lost connections, failed starts and timeouts
    MaxOperations               \* bound on operations

ASSUME EnvironmentAssumption == MaxFaults \in Nat /\ MaxOperations \in Nat

VARIABLES
    m_locator,                  \* a client or NoClient
    client,                     \* per client: see ClientStates
    early,                      \* clients lost before they were installed
    operation,                  \* per thread: [pc, i, client]
    m_reconnect_locator_task,   \* [pending, delayed, destroyed]
    reconnect, created,         \* where reconnect_to_server is, its client
    owners,                     \* m_producers and m_consumers: "none", "registered", "stopped"
    destructor,                 \* where ~EnvironmentImpl is
    wedged,                     \* m_mutex is held for ever
    torn,                       \* a client was destroyed inside its stop()
    faults, calls

vars == <<m_locator, client, early, operation, m_reconnect_locator_task, reconnect, created, owners, destructor, wedged,
          torn, faults, calls>>

NoClient     == 0
Clients      == 1 .. MaxFaults + 1
NB_RETRIES   == 3

\* Lost and silent: the connection is gone and the listener has still to run;
\* resetting: the listener has reset m_locator and holds m_mutex.
ClientStates == {"none", "started", "lost", "silent", "resetting", "told", "stopped"}

\* Nobody holds m_mutex between two steps.
Unlocked == \A g \in Clients : client[g] # "resetting"

Idle == [pc |-> "idle", i |-> 0, client |-> NoClient]

\* The constructor has connected the first locator.
Init ==
    /\ m_locator = 1
    /\ client = [g \in Clients |-> IF g = 1 THEN "started" ELSE "none"] /\ early = {}
    /\ operation = [o \in Operations |-> Idle]
    /\ m_reconnect_locator_task = [pending |-> 0, delayed |-> FALSE, destroyed |-> FALSE]
    /\ reconnect = "none" /\ created = NoClient
    /\ owners = [p \in Owners |-> "none"]
    /\ destructor = "none" /\ wedged = FALSE /\ torn = FALSE
    /\ faults = 0 /\ calls = 0

-----------------------------------------------------------------------------
(* locator_operation                                                       *)

operationVars == <<m_locator, client, early, m_reconnect_locator_task, reconnect, created, owners, destructor, wedged, torn>>

\* Threads in an operation hold a reference to the environment.
OperationCalls(o) ==
    /\ operation[o].pc = "idle" /\ destructor = "none" /\ calls < MaxOperations
    /\ operation' = [operation EXCEPT ![o] = [pc |-> "wait", i |-> 1, client |-> NoClient]]
    /\ calls' = calls + 1
    /\ UNCHANGED <<operationVars, faults>>

\* Faulty variant: the operation is tried for ever.
RetriedAlways(o) == [pc |-> "wait", i |-> operation[o].i, client |-> NoClient]

\* The next turn of the loop, or the exception.
Retried(o) ==
    IF operation[o].i >= NB_RETRIES THEN Idle ELSE [pc |-> "wait", i |-> operation[o].i + 1, client |-> NoClient]

\* wait_for with the predicate: there is a locator ...
TakesLocator(o) ==
    /\ operation[o].pc = "wait" /\ Unlocked /\ m_locator # NoClient
    /\ operation' = [operation EXCEPT ![o] = [pc |-> "operate", i |-> operation[o].i, client |-> m_locator]]
    /\ UNCHANGED <<operationVars, faults, calls>>

\* ... or none for m_recovery_retry_delay.
WaitTimesOut(o) ==
    /\ operation[o].pc = "wait" /\ Unlocked /\ m_locator = NoClient
    /\ operation' = [operation EXCEPT ![o] = Retried(o)]
    /\ UNCHANGED <<operationVars, faults, calls>>

\* It succeeds, or throws what is not retried (a response code).
OperationEnds(o) ==
    /\ operation[o].pc = "operate" /\ client[operation[o].client] = "started"
    /\ operation' = [operation EXCEPT ![o] = Idle]
    /\ UNCHANGED <<operationVars, faults, calls>>

\* TimeoutException
OperationTimesOut(o) ==
    /\ operation[o].pc = "operate" /\ client[operation[o].client] \in {"started", "silent"} /\ faults < MaxFaults
    /\ faults' = faults + 1
    /\ operation' = [operation EXCEPT ![o] = Retried(o)]
    /\ UNCHANGED <<operationVars, calls>>

\* IOException
OperationFails(o) ==
    /\ operation[o].pc = "operate" /\ client[operation[o].client] # "started"
    /\ operation' = [operation EXCEPT ![o] = Retried(o)]
    /\ UNCHANGED <<operationVars, faults, calls>>

-----------------------------------------------------------------------------
(* Loss and recovery of the locator                                        *)

Current == {m_locator, created} \ {NoClient}

ClientLost(g) ==
    /\ client[g] = "started" /\ faults < MaxFaults
    /\ faults' = faults + 1
    /\ \E how \in {"lost", "silent"} : client' = [client EXCEPT ![g] = how]
    /\ early' = IF g # m_locator THEN early \cup {g} ELSE early
    /\ UNCHANGED <<m_locator, operation, m_reconnect_locator_task, reconnect, created, owners, destructor, wedged, torn, calls>>

\* schedule_now: the timer of an earlier schedule_after is cancelled.
Scheduled(task) == IF task.destroyed THEN task ELSE [task EXCEPT !.pending = @ + 1, !.delayed = FALSE]

\* Somebody else refers to the client.
Referenced(g) == g = created \/ \E o \in Operations : operation[o].client = g

\* Faulty variant: the lost locator is kept.
LocatorKept == m_locator

LocatorReset == NoClient

\* handle_locator_shutdown, up to the reset of m_locator ...
ShutdownResets(g) ==
    /\ client[g] \in {"lost", "silent"} /\ Unlocked
    /\ client' = [client EXCEPT ![g] = "resetting"]
    /\ m_locator' = LocatorReset
    /\ torn' = (torn \/ (destructor = "joining" /\ m_locator = g))
    /\ wedged' = (client[g] = "silent" /\ m_locator = g /\ ~Referenced(g))
    /\ UNCHANGED <<early, operation, m_reconnect_locator_task, reconnect, created, owners, destructor, faults, calls>>

\* ... then schedule_now and the end of the critical section.
ShutdownSchedules(g) ==
    /\ client[g] = "resetting" /\ ~wedged
    /\ client' = [client EXCEPT ![g] = "told"]
    /\ m_reconnect_locator_task' = Scheduled(m_reconnect_locator_task)
    /\ UNCHANGED <<m_locator, early, operation, reconnect, created, owners, destructor, wedged, torn, faults, calls>>

handle_locator_shutdown(g) == ShutdownResets(g) \/ ShutdownSchedules(g)

\* The timer of schedule_after.
RetryExpires ==
    /\ m_reconnect_locator_task.delayed
    /\ m_reconnect_locator_task' = [m_reconnect_locator_task EXCEPT !.delayed = FALSE, !.pending = @ + 1]
    /\ UNCHANGED <<m_locator, client, early, operation, reconnect, created, owners, destructor, wedged, torn, faults, calls>>

\* reconnect_to_server
ReconnectBegins ==
    /\ reconnect = "none" /\ m_reconnect_locator_task.pending > 0 /\ Unlocked
    /\ m_reconnect_locator_task' = [m_reconnect_locator_task EXCEPT !.pending = @ - 1]
    /\ reconnect' = IF m_locator # NoClient THEN "none" ELSE "start"
    /\ UNCHANGED <<m_locator, client, early, operation, created, owners, destructor, wedged, torn, faults, calls>>

\* The client that get_client makes.
Fresh == CHOOSE g \in Clients : client[g] = "none"

ReconnectStarts ==
    /\ reconnect = "start"
    /\ client' = [client EXCEPT ![Fresh] = "started"] /\ created' = Fresh
    /\ reconnect' = "install"
    /\ UNCHANGED <<m_locator, early, operation, m_reconnect_locator_task, owners, destructor, wedged, torn, faults, calls>>

\* Faulty variant: there is no other attempt.
RetriedNever(task) == task

\* schedule_after(m_recovery_retry_delay)
RetriedLater(task) == [task EXCEPT !.delayed = ~task.destroyed]

\* start() throws, and has stopped the client.
ReconnectFails ==
    /\ reconnect = "start" /\ faults < MaxFaults
    /\ faults' = faults + 1
    /\ reconnect' = "none"
    /\ m_reconnect_locator_task' = RetriedLater(m_reconnect_locator_task)
    /\ UNCHANGED <<m_locator, client, early, operation, created, owners, destructor, wedged, torn, calls>>

\* m_locator = client; notify_all()
ReconnectInstalls ==
    /\ reconnect = "install" /\ Unlocked
    /\ m_locator' = created /\ created' = NoClient
    /\ reconnect' = "none"
    /\ UNCHANGED <<client, early, operation, m_reconnect_locator_task, owners, destructor, wedged, torn, faults, calls>>

-----------------------------------------------------------------------------
(* Owners and the destructor                                               *)

ownerVars == <<m_locator, client, early, operation, m_reconnect_locator_task, reconnect, created, wedged, torn, faults, calls>>

\* register_producer, register_consumer
RegisterOwner(p) ==
    /\ owners[p] = "none" /\ destructor = "none" /\ Unlocked
    /\ owners' = [owners EXCEPT ![p] = "registered"]
    /\ UNCHANGED <<ownerVars, destructor>>

\* unregister_producer, unregister_consumer, of an owner that was stopped
UnregisterOwner(p) ==
    /\ owners[p] = "registered" /\ destructor = "none" /\ Unlocked
    /\ owners' = [owners EXCEPT ![p] = "stopped"]
    /\ UNCHANGED <<ownerVars, destructor>>

\* The last reference is dropped; the task is destroyed once it does not run.
Destroys ==
    /\ destructor = "none" /\ \A o \in Operations : operation[o].pc = "idle"
    /\ destructor' = "task"
    /\ UNCHANGED <<ownerVars, owners>>

\* Faulty variant: a call under way is not waited for.
TaskQuietAlways == TRUE

TaskQuiet == reconnect = "none"

DestroysTask ==
    /\ destructor = "task" /\ TaskQuiet
    /\ m_reconnect_locator_task' = [pending |-> 0, delayed |-> FALSE, destroyed |-> TRUE]
    /\ destructor' = "locator"
    /\ UNCHANGED <<m_locator, client, early, operation, reconnect, created, owners, wedged, torn, faults, calls>>

\* The test of m_locator and m_locator->stop(), without m_mutex.  stop() sets
\* m_status first, and the listener is told that the client has initiated it; or
\* the loss was noticed first, and stop() joins the thread that runs it.
StopsLocator ==
    /\ destructor = "locator"
    /\ \/ /\ m_locator # NoClient /\ client[m_locator] \in {"lost", "silent"}
          /\ destructor' = "joining" /\ UNCHANGED client
       \/ /\ destructor' = "owners"
          /\ client' = [g \in Clients |-> IF g = m_locator THEN "stopped" ELSE client[g]]
    /\ UNCHANGED <<m_locator, early, operation, m_reconnect_locator_task, reconnect, created, owners, wedged, torn, faults,
                   calls>>

LocatorJoined ==
    /\ destructor = "joining"
    /\ \A g \in Clients : client[g] \notin {"lost", "silent"}
    /\ Unlocked \/ torn
    /\ destructor' = "owners"
    /\ UNCHANGED <<ownerVars, owners>>

\* stop() of the owners that are alive
StopsOwners ==
    /\ destructor = "owners"
    /\ owners' = [p \in Owners |-> IF owners[p] = "registered" THEN "stopped" ELSE owners[p]]
    /\ destructor' = "done"
    /\ UNCHANGED ownerVars

-----------------------------------------------------------------------------
OperationStep(o) == TakesLocator(o) \/ WaitTimesOut(o) \/ OperationEnds(o) \/ OperationTimesOut(o) \/ OperationFails(o)

ReconnectStep == ReconnectBegins \/ ReconnectStarts \/ ReconnectFails \/ ReconnectInstalls

DestructorStep == DestroysTask \/ StopsLocator \/ LocatorJoined \/ StopsOwners

Next ==
    \/ \E o \in Operations : OperationCalls(o) \/ OperationStep(o)
    \/ \E g \in Current : ClientLost(g)
    \/ \E g \in Clients : handle_locator_shutdown(g)
    \/ RetryExpires \/ ReconnectStep
    \/ \E p \in Owners : RegisterOwner(p) \/ UnregisterOwner(p)
    \/ Destroys \/ DestructorStep

Spec == Init /\ [][Next]_vars

\* Threads keep running, timers expire, a lost connection is noticed; of a
\* destructor whose client is torn nothing is assumed.
Fairness ==
    /\ \A o \in Operations : WF_vars(OperationStep(o))
    /\ \A g \in Clients : WF_vars(handle_locator_shutdown(g))
    /\ WF_vars(RetryExpires) /\ WF_vars(ReconnectStep) /\ WF_vars(DestructorStep /\ ~torn)

FairSpec == Spec /\ Fairness

-----------------------------------------------------------------------------
(* Properties                                                              *)

TypeOK ==
    /\ m_locator \in Clients \cup {NoClient} /\ created \in Clients \cup {NoClient}
    /\ client \in [Clients -> ClientStates]
    /\ early \subseteq Clients
    /\ operation \in [Operations -> [pc : {"idle", "wait", "operate"}, i : 0 .. NB_RETRIES, client : Clients \cup {NoClient}]]
    /\ m_reconnect_locator_task \in [pending : Nat, delayed : BOOLEAN, destroyed : BOOLEAN]
    /\ reconnect \in {"none", "start", "install"}
    /\ owners \in [Owners -> {"none", "registered", "stopped"}]
    /\ destructor \in {"none", "task", "locator", "joining", "owners", "done"}
    /\ wedged \in BOOLEAN /\ torn \in BOOLEAN

\* The environment keeps a locator whose loss it was told of in one case only:
\* the client was lost after start() and before reconnect_to_server stored it,
\* so that the listener ran first and the call it scheduled finds a locator.
StaleOnlyByWindow ==
    m_locator # NoClient /\ client[m_locator] \in {"resetting", "told"} => m_locator \in early

\* When the destructor is over no registered owner runs, no client of the
\* environment runs or has its listener still to call, and no reconnection is
\* under way or will begin.  What may be left is one listener that has reset
\* m_locator and has still to call schedule_now and to unlock m_mutex: nothing
\* makes the destructor, which reads m_locator without m_mutex, wait for it.
NothingOutlives ==
    destructor = "done" =>
        /\ \A p \in Owners : owners[p] # "registered"
        /\ \A g \in Clients : client[g] \notin {"started", "lost", "silent"}
        /\ \A g, h \in Clients : client[g] = "resetting" /\ client[h] = "resetting" => g = h
        /\ reconnect = "none" /\ created = NoClient
        /\ m_reconnect_locator_task.pending = 0 /\ ~m_reconnect_locator_task.delayed

\* Every operation and the destructor return, whatever happens to the locator,
\* unless the listener is stuck with m_mutex or has destroyed the client that is
\* being stopped.
OperationReturns ==
    /\ \A o \in Operations : operation[o].pc # "idle" ~> operation[o].pc = "idle" \/ wedged
    /\ destructor # "none" ~> destructor = "done" \/ wedged \/ torn

\* An environment without locator gets one again, unless it is destroyed or its
\* listener is stuck with m_mutex.
LocatorComesBack == m_locator = NoClient ~> m_locator # NoClient \/ wedged \/ destructor # "none"
=============================================================================
