----------------------------- MODULE PoolOwners -----------------------------
(***************************************************************************)
(* Producers (or consumers) that share the thread pool of an environment   *)
(* and whose stream is deleted.  Each owner has a "stop" job, the          *)
(* invocation of m_stream_deleted_task that runs internal_stop() on a      *)
(* thread of the pool, and a "work" job, an invocation of one of the tasks *)
(* internal_stop() destroys (the confirm timeout, say).  destroy() waits   *)
(* for the future of the invocation it finds, wherever that job is: on     *)
(* another thread, or still in the overflow queue.  The jobs of other      *)
(* tasks, that of the locator for one, wait for nothing.  The pool is a    *)
(* member of the environment and is destroyed last.                        *)
(***************************************************************************)
EXTENDS BackgroundScheduler

CONSTANTS
    PoolUsers,                  \* producers and consumers
    Others                      \* jobs that belong to no owner

ASSUME OwnersAssumption == Tasks = (PoolUsers \X {"stop", "work"}) \cup Others

VARIABLE destroyed              \* per owner: destroy() of its task has begun

poolOwnerVars == <<schedulerVars, destroyed>>

StopJob(o) == <<o, "stop">>
WorkJob(o) == <<o, "work">>

OwnersInit == PoolInit /\ destroyed = [o \in PoolUsers |-> FALSE]

\* The timer of the owner's task fires.
Trigger(o) ==
    /\ ~destroyed[o]
    /\ run_task(WorkJob(o))
    /\ UNCHANGED destroyed

\* reconnect_to_server learns that the stream is gone.
StreamDeleted(o) ==
    /\ run_task(StopJob(o))
    /\ UNCHANGED destroyed

OtherJob(k) ==
    /\ run_task(k)
    /\ UNCHANGED destroyed

\* internal_stop() calls destroy() of the task.
DestroyTask(o) ==
    /\ \E t \in Threads : tpc[t] = "executing" /\ current[t] = StopJob(o)
    /\ ~destroyed[o]
    /\ destroyed' = [destroyed EXCEPT ![o] = TRUE]
    /\ UNCHANGED schedulerVars

\* Faulty variant: destroy() waits for an invocation even if there is none.
JobDoneAlways(o) == executed[WorkJob(o)] = 1

\* current_invocation, if there is one, is complete.
JobDone(o) == WorkJob(o) \in submitted => executed[WorkJob(o)] = 1

\* The stop job of o is inside destroy(), which has an invocation to wait for.
Waiting(o) == (\E t \in Threads : current[t] = StopJob(o)) /\ destroyed[o] /\ ~JobDone(o)

\* A job returns; one that stops its owner only when destroy() has returned.
JobEnds(t) ==
    /\ \A o \in PoolUsers : current[t] = StopJob(o) => destroyed[o] /\ ~Waiting(o)
    /\ TaskEnds(t)
    /\ UNCHANGED destroyed

ThreadRuns(t) == (Enter(t) \/ Wake(t)) /\ UNCHANGED destroyed

ThreadStops(t) == IdleTimeout(t) /\ UNCHANGED destroyed

\* ~EnvironmentImpl has stopped its producers and consumers before its members
\* are destroyed.
PoolDestroyed ==
    /\ \A o \in PoolUsers : StopJob(o) \in submitted => executed[StopJob(o)] = 1
    /\ Quit
    /\ UNCHANGED destroyed

PoolJoined == JoinAll /\ UNCHANGED destroyed

OwnersNext ==
    \/ \E k \in Others : OtherJob(k)
    \/ PoolDestroyed \/ PoolJoined
    \/ \E o \in PoolUsers : Trigger(o) \/ StreamDeleted(o) \/ DestroyTask(o)
    \/ \E t \in Threads : ThreadRuns(t) \/ JobEnds(t) \/ ThreadStops(t)

\* Threads are scheduled; a job that can end does.
OwnersFairness ==
    /\ \A o \in PoolUsers : WF_poolOwnerVars(DestroyTask(o))
    /\ \A t \in Threads : WF_poolOwnerVars(ThreadRuns(t) \/ JobEnds(t))
    /\ WF_poolOwnerVars(PoolJoined)

OwnersSpec == OwnersInit /\ [][OwnersNext]_poolOwnerVars /\ OwnersFairness

-----------------------------------------------------------------------------
(* Properties                                                              *)

\* Every thread of the pool has a stop job that waits: no job ends any more.
AllBlocked == \A t \in Threads : \E o \in PoolUsers : current[t] = StopJob(o) /\ Waiting(o)

\* A pool with a job in its overflow queue has a thread whose job does not wait
\* and will take the queue further, except in one situation: as many owners as
\* the pool has threads are inside destroy() on these threads, and the job that
\* each of them waits for is in the queue behind them.  The pool has as many
\* threads as the machine, and any number of owners.
SomeThreadMovesOn ==
    overflow # <<>> /\ ~quitting =>
        \/ \E t \in Threads :
              current[t] # NoTask /\ \A o \in PoolUsers : current[t] = StopJob(o) => ~Waiting(o)
        \/ /\ Cardinality({o \in PoolUsers : Waiting(o)}) = NbThreads
           /\ \A o \in PoolUsers : Waiting(o) => Queued(WorkJob(o)) # {}

\* Every job given to run_task is executed, unless the pool is destroyed first or
\* the stop jobs have blocked it: the idle timeout, the overflow queue and the
\* restart of threads never leave a job behind.
TaskIsExecuted == \A k \in Tasks : k \in submitted ~> executed[k] = 1 \/ quitting \/ AllBlocked

\* A producer whose stream has been deleted stops and reports its messages,
\* although its internal_stop() waits on the pool for other jobs of the pool, if
\* fewer owners than the pool has threads ever lose their stream.
DeletedOwnerStops ==
    \A o \in PoolUsers :
        StopJob(o) \in submitted ~>
            \/ executed[StopJob(o)] = 1
            \/ Cardinality({p \in PoolUsers : StopJob(p) \in submitted}) >= NbThreads
=============================================================================
