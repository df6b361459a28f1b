------------------------ MODULE BackgroundScheduler -------------------------
(***************************************************************************)
(* The thread pool that runs the jobs of every ReschedulableTask of an     *)
(* environment: at most NbThreads threads, started when a task finds none  *)
(* idle, stopped after max_idle_time without work, and an overflow queue   *)
(* for the tasks that find every thread busy.                              *)
(*                                                                         *)
(* m_mutex is released only while a thread executes its task or waits on   *)
(* m_task_assigned, so a step is the code between two such points.  A wait *)
(* with a predicate may be woken at any time; what matters is what the     *)
(* predicate says then.                                                    *)
(***************************************************************************)
EXTENDS Integers, Sequences, FiniteSetsExt

CONSTANTS
    NbThreads,                  \* m_max_nb_threads
    Tasks,                      \* tasks that may be given to run_task
    NoTask                      \* m_current_task is std::nullopt

ASSUME NbThreadsAssumption == NbThreads \in Nat \ {0}
ASSUME NoTaskAssumption    == NoTask \notin Tasks

Threads == 1 .. NbThreads

VARIABLES
    running,                    \* WorkThread::m_running
    current,                    \* WorkThread::m_current_task
    tpc,                        \* where each thread is in run_work_thread
    overflow,                   \* m_task_overflow
    quitting,                   \* m_quitting
    joined,                     \* the destructor has joined every thread
    submitted,                  \* tasks given to run_task
    executed                    \* how often each task has been executed

poolVars == <<running, current, tpc, overflow>>
schedulerVars     == <<poolVars, quitting, joined, submitted, executed>>

ThreadStates == {"none", "spawned", "executing", "waiting", "exited"}

PoolInit ==
    /\ running = [t \in Threads |-> FALSE]
    /\ current = [t \in Threads |-> NoTask]
    /\ tpc = [t \in Threads |-> "none"]
    /\ overflow = <<>>
    /\ quitting = FALSE
    /\ joined = FALSE
    /\ submitted = {}
    /\ executed = [k \in Tasks |-> 0]

-----------------------------------------------------------------------------
(* run_task and its helpers, under m_mutex.                                *)

IdleThreads == {t \in Threads : running[t] /\ current[t] = NoTask}

\* Faulty variant: the search ends one thread too early.
StoppedThreadsButLast == {t \in Threads : ~running[t] /\ t < NbThreads}

StoppedThreads == {t \in Threads : ~running[t]}

\* assign_task, on a thread that runs or that start_thread has just spawned.
assign_task(t, k) ==
    /\ current' = [current EXCEPT ![t] = k]
    /\ UNCHANGED overflow

start_thread(t) ==
    /\ running' = [running EXCEPT ![t] = TRUE]
    /\ tpc' = [tpc EXCEPT ![t] = "spawned"]

\* find_available_thread prefers the first idle thread to the first stopped
\* one; without either the task waits in the overflow queue.
run_task(k) ==
    /\ ~quitting
    /\ k \notin submitted
    /\ submitted' = submitted \cup {k}
    /\ \/ /\ IdleThreads # {}
          /\ assign_task(Min(IdleThreads), k)
          /\ UNCHANGED <<running, tpc>>
       \/ /\ IdleThreads = {} /\ StoppedThreads # {}
          /\ start_thread(Min(StoppedThreads))
          /\ assign_task(Min(StoppedThreads), k)
       \/ /\ IdleThreads = {} /\ StoppedThreads = {}
          /\ overflow' = Append(overflow, k)
          /\ UNCHANGED <<running, tpc, current>>
    /\ UNCHANGED <<quitting, joined, executed>>

-----------------------------------------------------------------------------
(* run_work_thread                                                         *)

\* The loop condition, the task test at the head of the loop and the predicate
\* of the wait, for a thread that holds m_mutex and has task k.
Continue(t, k) ==
    /\ running' = [running EXCEPT ![t] = ~quitting]
    /\ tpc' = [tpc EXCEPT ![t] = IF quitting THEN "exited"
                                 ELSE IF k # NoTask THEN "executing" ELSE "waiting"]

Enter(t) ==
    /\ tpc[t] = "spawned"
    /\ Continue(t, current[t])
    /\ UNCHANGED <<current, overflow, quitting, joined, submitted, executed>>

\* Faulty variant: a thread that ends a task does not look at the overflow.
TaskEndsNoOverflow(t) ==
    /\ tpc[t] = "executing"
    /\ executed' = [executed EXCEPT ![current[t]] = @ + 1]
    /\ current' = [current EXCEPT ![t] = NoTask]
    /\ Continue(t, NoTask)
    /\ UNCHANGED <<overflow, quitting, joined, submitted>>

\* Faulty variant: the front of the overflow is copied but not popped.
TaskEndsNoPop(t) ==
    LET next == IF overflow # <<>> THEN Head(overflow) ELSE NoTask
    IN  /\ tpc[t] = "executing"
        /\ executed' = [executed EXCEPT ![current[t]] = @ + 1]
        /\ current' = [current EXCEPT ![t] = next]
        /\ Continue(t, next)
        /\ UNCHANGED <<overflow, quitting, joined, submitted>>

\* The task returns; its thread takes the front of the overflow or nothing,
\* and waits (not at all when there is a task or the pool is quitting).
TaskEnds(t) ==
    LET next == IF overflow # <<>> THEN Head(overflow) ELSE NoTask
    IN  /\ tpc[t] = "executing"
        /\ executed' = [executed EXCEPT ![current[t]] = @ + 1]
        /\ current' = [current EXCEPT ![t] = next]
        /\ overflow' = IF overflow # <<>> THEN Tail(overflow) ELSE overflow
        /\ Continue(t, next)
        /\ UNCHANGED <<quitting, joined, submitted>>

\* Faulty variant: the predicate of the wait forgets m_quitting.
WakeForTask(t) ==
    /\ tpc[t] = "waiting"
    /\ current[t] # NoTask
    /\ Continue(t, current[t])
    /\ UNCHANGED <<current, overflow, quitting, joined, submitted, executed>>

\* The predicate of the wait holds: m_quitting, or a task has been assigned.
Wake(t) ==
    /\ tpc[t] = "waiting"
    /\ quitting \/ current[t] # NoTask
    /\ Continue(t, current[t])
    /\ UNCHANGED <<current, overflow, quitting, joined, submitted, executed>>

\* wait_for gives up after max_idle_time, unless the predicate holds by then.
IdleTimeout(t) ==
    /\ tpc[t] = "waiting"
    /\ ~quitting /\ current[t] = NoTask
    /\ running' = [running EXCEPT ![t] = FALSE]
    /\ tpc' = [tpc EXCEPT ![t] = "exited"]
    /\ UNCHANGED <<current, overflow, quitting, joined, submitted, executed>>

-----------------------------------------------------------------------------
(* The destructor: m_quitting, then every thread is notified and joined.   *)

Quit ==
    /\ ~quitting
    /\ quitting' = TRUE
    /\ UNCHANGED <<poolVars, joined, submitted, executed>>

JoinAll ==
    /\ quitting /\ ~joined
    /\ \A t \in Threads : tpc[t] \in {"none", "exited"}
    /\ joined' = TRUE
    /\ UNCHANGED <<poolVars, quitting, submitted, executed>>

-----------------------------------------------------------------------------
Thread(t) == Enter(t) \/ TaskEnds(t) \/ Wake(t) \/ IdleTimeout(t)

PoolNext ==
    \/ \E k \in Tasks : run_task(k)
    \/ \E t \in Threads : Thread(t)
    \/ Quit
    \/ JoinAll

\* Threads are scheduled and tasks return.
PoolFairness ==
    /\ \A t \in Threads : WF_schedulerVars(Enter(t) \/ TaskEnds(t) \/ Wake(t))
    /\ WF_schedulerVars(JoinAll)

PoolSpec     == PoolInit /\ [][PoolNext]_schedulerVars
PoolFairSpec == PoolSpec /\ PoolFairness

-----------------------------------------------------------------------------
(* Properties                                                              *)

\* Every variable has its type, and the optional m_current_task that a thread
\* dereferences to execute it has a value.
PoolTypeOK ==
    /\ running \in [Threads -> BOOLEAN]
    /\ current \in [Threads -> Tasks \cup {NoTask}]
    /\ tpc \in [Threads -> ThreadStates]
    /\ overflow \in Seq(Tasks)
    /\ quitting \in BOOLEAN
    /\ joined \in BOOLEAN
    /\ submitted \in SUBSET Tasks
    /\ executed \in [Tasks -> Nat]
    /\ \A t \in Threads : tpc[t] = "executing" => current[t] # NoTask

\* A task waits in the overflow queue only while every thread of the pool is
\* running and has a task: when the last of them ends its task it will look at
\* the queue, so nothing is stranded there.
OverflowOnlyWhenBusy ==
    overflow # <<>> /\ ~quitting =>
        \A t \in Threads : running[t] /\ current[t] # NoTask

\* A task is never left with a thread that has stopped: the idle timeout and an
\* assignment by run_task cannot cross each other.
NoTaskOnStoppedThread ==
    ~quitting => \A t \in Threads : ~running[t] => current[t] = NoTask

\* A task that has not been executed is in the overflow queue or with exactly
\* one thread, and one that has been executed is in neither: no task is lost,
\* none is run twice.
Holders(k) == {t \in Threads : current[t] = k}
Queued(k)  == {i \in DOMAIN overflow : overflow[i] = k}
EachTaskOnce ==
    \A k \in Tasks :
        executed[k] + Cardinality(Holders(k)) + Cardinality(Queued(k))
            = IF k \in submitted THEN 1 ELSE 0

\* The destructor joins every thread, whatever they were doing.
DestructorReturns == quitting ~> joined
=============================================================================
