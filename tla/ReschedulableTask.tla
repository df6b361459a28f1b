------------------------- MODULE ReschedulableTask --------------------------
(***************************************************************************)
(* One ReschedulableTask with its AsyncTask: any number of threads that    *)
(* schedule it, several that destroy it, the asio strand that runs the     *)
(* posted handlers one at a time, the steady timer, and the jobs that the  *)
(* task hands to the BackgroundScheduler (run by its own module; here a    *)
(* job simply starts at some later time).                                  *)
(*                                                                         *)
(* A step is a stretch of code between two points where a thread can be    *)
(* made to wait: acquiring InternalState::mutex, waiting for the strand,   *)
(* waiting for a future, calling the user's function.  The mutex is a      *)
(* variable because destroy() is the one place that must not hold it       *)
(* while it waits.                                                         *)
(***************************************************************************)
EXTENDS Integers, Sequences, FiniteSets

CONSTANTS
    Destroyers,                 \* threads that call destroy()
    MaxPosts,                   \* bound on the scheduling calls made
    MayThrow,                   \* may the task's function throw?
    Free                        \* the mutex has no owner

Handlers == {"now", "after", "cancel", "fire"}

ASSUME DestroyersAssumption == Destroyers \cap Handlers = {}
ASSUME MaxPostsAssumption   == MaxPosts \in Nat
ASSUME MayThrowAssumption   == MayThrow \in BOOLEAN
ASSUME FreeAssumption       == Free \notin Destroyers

\* Every job is started by a handler, and every handler by a scheduling call.
Jobs  == 1 .. MaxPosts
NoJob == 0                      \* current_invocation is std::nullopt

VARIABLES
    \* AsyncTask
    strand,                     \* handlers posted to m_strand, oldest first
    timer,                      \* is a wait on m_timer outstanding?
    function,                   \* is m_function still set?
    \* ReschedulableTask::InternalState
    mutex,
    destroyed,
    pending,                    \* pending_invocations
    current,                    \* current_invocation
    async_task,                 \* is async_task non-null?
    \* threads
    job,                        \* the lambda given to run_task, per job
    njobs,                      \* jobs created so far
    dpc,                        \* where each destroyer is in destroy()
    awaited,                    \* the future a destroyer copied
    posts                       \* scheduling calls made so far (bound)

asyncVars == <<strand, timer, function>>
stateVars == <<mutex, destroyed, pending, current, async_task>>
jobVars   == <<job, njobs>>
destVars  == <<dpc, awaited>>
vars      == <<asyncVars, stateVars, jobVars, destVars, posts>>

JobStates     == {"unused", "queued", "calling", "loop", "done", "threw"}
DestroyStates == {"idle", "locked", "strand", "relock", "waiting", "returned", "threw"}

Init ==
    /\ strand = <<>>
    /\ timer = FALSE
    /\ function = TRUE
    /\ mutex = Free
    /\ destroyed = FALSE
    /\ pending = 0
    /\ current = NoJob
    /\ async_task = TRUE
    /\ job = [j \in Jobs |-> "unused"]
    /\ njobs = 0
    /\ dpc = [d \in Destroyers |-> "idle"]
    /\ awaited = [d \in Destroyers |-> NoJob]
    /\ posts = 0

-----------------------------------------------------------------------------
(* schedule_now(), schedule_after(), cancel(): called by any thread, the   *)
(* task's own function included.  A call on a destroyed task changes       *)
(* nothing.                                                                *)

Post(h) ==
    /\ mutex = Free
    /\ posts < MaxPosts
    /\ posts' = posts + 1
    /\ strand' = Append(strand, h)
    /\ UNCHANGED <<timer, function, stateVars, jobVars, destVars>>

schedule_now   == async_task /\ ~destroyed /\ Post("now")
schedule_after == async_task /\ ~destroyed /\ Post("after")
cancel         == async_task /\ Post("cancel")

-----------------------------------------------------------------------------
(* The strand.  A handler runs to its end before the next one starts, and  *)
(* one that calls m_function blocks until the mutex is free.               *)

\* The function given to AsyncTask::create in the constructor.
Fire ==
    /\ mutex = Free
    /\ IF destroyed
       THEN UNCHANGED <<pending, current, jobVars>>
       ELSE /\ pending' = pending + 1
            /\ IF pending' = 1 /\ current = NoJob
               THEN /\ njobs' = njobs + 1
                    /\ current' = njobs'
                    /\ job' = [job EXCEPT ![njobs'] = "queued"]
               ELSE UNCHANGED <<current, jobVars>>

FireIfSet == IF function THEN Fire ELSE UNCHANGED <<pending, current, jobVars>>

StrandNow ==
    /\ strand # <<>> /\ Head(strand) = "now"
    /\ strand' = Tail(strand)
    /\ timer' = FALSE
    /\ FireIfSet
    /\ UNCHANGED <<function, mutex, destroyed, async_task, destVars, posts>>

StrandFire ==
    /\ strand # <<>> /\ Head(strand) = "fire"
    /\ strand' = Tail(strand)
    /\ FireIfSet
    /\ UNCHANGED <<timer, function, mutex, destroyed, async_task, destVars, posts>>

StrandAfter ==
    /\ strand # <<>> /\ Head(strand) = "after"
    /\ strand' = Tail(strand)
    /\ timer' = (timer \/ function)
    /\ UNCHANGED <<function, stateVars, jobVars, destVars, posts>>

StrandCancel ==
    /\ strand # <<>> /\ Head(strand) = "cancel"
    /\ strand' = Tail(strand)
    /\ timer' = FALSE
    /\ UNCHANGED <<function, stateVars, jobVars, destVars, posts>>

\* The handler of AsyncTask::destroy(); its completion unblocks the .get().
StrandDestroy(d) ==
    /\ strand # <<>> /\ Head(strand) = d
    /\ strand' = Tail(strand)
    /\ function' = FALSE
    /\ timer' = FALSE
    /\ dpc' = [dpc EXCEPT ![d] = "relock"]
    /\ UNCHANGED <<stateVars, jobVars, awaited, posts>>

\* The wait completes without error.  Its handler is queued from then on and
\* a later cancel() no longer reaches it.
TimerExpires ==
    /\ timer
    /\ timer' = FALSE
    /\ strand' = Append(strand, "fire")
    /\ UNCHANGED <<function, stateVars, jobVars, destVars, posts>>

-----------------------------------------------------------------------------
(* The job: the worker loop run on a scheduler thread.                     *)

\* Faulty variant: the loop drains the backlog of a destroyed task.
JobLoopDraining(j) ==
    /\ job[j] \in {"queued", "loop"}
    /\ mutex = Free
    /\ IF pending > 0
       THEN /\ pending' = pending - 1
            /\ job' = [job EXCEPT ![j] = "calling"]
            /\ UNCHANGED current
       ELSE /\ current' = NoJob
            /\ job' = [job EXCEPT ![j] = "done"]
            /\ UNCHANGED pending
    /\ UNCHANGED <<asyncVars, mutex, destroyed, async_task, njobs, destVars, posts>>

\* Takes the mutex (on entry, or after a call), tests the loop condition and
\* either starts a call or clears current_invocation and ends.
JobLoop(j) ==
    /\ job[j] \in {"queued", "loop"}
    /\ mutex = Free
    /\ IF ~destroyed /\ pending > 0
       THEN /\ pending' = pending - 1
            /\ job' = [job EXCEPT ![j] = "calling"]
            /\ UNCHANGED current
       ELSE /\ current' = NoJob
            /\ job' = [job EXCEPT ![j] = "done"]
            /\ UNCHANGED pending
    /\ UNCHANGED <<asyncVars, mutex, destroyed, async_task, njobs, destVars, posts>>

\* Faulty variant: one call per job, triggers that arrived meanwhile forgotten.
CallReturnsOnce(j) ==
    /\ job[j] = "calling"
    /\ job' = [job EXCEPT ![j] = "done"]
    /\ current' = NoJob
    /\ UNCHANGED <<asyncVars, mutex, destroyed, pending, async_task, njobs, destVars, posts>>

CallReturns(j) ==
    /\ job[j] = "calling"
    /\ job' = [job EXCEPT ![j] = "loop"]
    /\ UNCHANGED <<asyncVars, stateVars, njobs, destVars, posts>>

\* An exception leaves the lambda: it ends up in the future, and
\* current_invocation is never cleared.
CallThrows(j) ==
    /\ MayThrow
    /\ job[j] = "calling"
    /\ job' = [job EXCEPT ![j] = "threw"]
    /\ UNCHANGED <<asyncVars, stateVars, njobs, destVars, posts>>

-----------------------------------------------------------------------------
(* destroy()                                                               *)

DestroyCall(d) ==
    /\ dpc[d] = "idle"
    /\ mutex = Free
    /\ IF async_task
       THEN /\ destroyed' = TRUE
            /\ mutex' = d
            /\ dpc' = [dpc EXCEPT ![d] = "locked"]
       ELSE /\ dpc' = [dpc EXCEPT ![d] = "returned"]
            /\ UNCHANGED <<destroyed, mutex>>
    /\ UNCHANGED <<asyncVars, pending, current, async_task, jobVars, awaited, posts>>

\* Faulty variant: the mutex stays locked while the strand is waited for.
DestroyUnlockNever(d) ==
    /\ dpc[d] = "locked"
    /\ strand' = Append(strand, d)
    /\ dpc' = [dpc EXCEPT ![d] = "strand"]
    /\ UNCHANGED <<timer, function, stateVars, jobVars, awaited, posts>>

\* lock.unlock(), then the dispatch to the strand.
DestroyUnlock(d) ==
    /\ dpc[d] = "locked"
    /\ mutex' = Free
    /\ strand' = Append(strand, d)
    /\ dpc' = [dpc EXCEPT ![d] = "strand"]
    /\ UNCHANGED <<timer, function, destroyed, pending, current, async_task,
                   jobVars, awaited, posts>>

DestroyRelock(d) ==
    /\ dpc[d] = "relock"
    /\ mutex = Free
    /\ awaited' = [awaited EXCEPT ![d] = current]
    /\ IF current # NoJob
       THEN /\ dpc' = [dpc EXCEPT ![d] = "waiting"]
            /\ UNCHANGED async_task
       ELSE /\ dpc' = [dpc EXCEPT ![d] = "returned"]
            /\ async_task' = FALSE
    /\ UNCHANGED <<asyncVars, mutex, destroyed, pending, current, jobVars, posts>>

\* current_invocation.get() completes; it rethrows what the function threw,
\* and then async_task is not reset.
DestroyJoined(d) ==
    /\ dpc[d] = "waiting"
    /\ job[awaited[d]] \in {"done", "threw"}
    /\ IF job[awaited[d]] = "done"
       THEN /\ mutex = Free
            /\ async_task' = FALSE
            /\ dpc' = [dpc EXCEPT ![d] = "returned"]
       ELSE /\ dpc' = [dpc EXCEPT ![d] = "threw"]
            /\ UNCHANGED async_task
    /\ UNCHANGED <<asyncVars, mutex, destroyed, pending, current, jobVars,
                   awaited, posts>>

-----------------------------------------------------------------------------
Strand ==
    \/ StrandNow \/ StrandFire \/ StrandAfter \/ StrandCancel
    \/ \E d \in Destroyers : StrandDestroy(d)

Job(j) == JobLoop(j) \/ CallReturns(j) \/ CallThrows(j)

Destroy(d) ==
    DestroyCall(d) \/ DestroyUnlock(d) \/ DestroyRelock(d) \/ DestroyJoined(d)

Next ==
    \/ schedule_now \/ schedule_after \/ cancel
    \/ TimerExpires
    \/ Strand
    \/ \E j \in Jobs : Job(j)
    \/ \E d \in Destroyers : Destroy(d)

\* The io threads run the strand and the timer, the pool runs the jobs, calls
\* return, and a thread inside destroy() goes on; nobody has to call anything.
Fairness ==
    /\ WF_vars(Strand)
    /\ WF_vars(TimerExpires)
    /\ \A j \in Jobs : WF_vars(Job(j))
    /\ \A d \in Destroyers :
          WF_vars(DestroyUnlock(d) \/ DestroyRelock(d) \/ DestroyJoined(d))

Spec     == Init /\ [][Next]_vars
FairSpec == Spec /\ Fairness

-----------------------------------------------------------------------------
(* Properties                                                              *)

\* The job that still has to come back to the loop condition.
Active(j) == job[j] \in {"queued", "calling", "loop"}

\* Every variable has its type; pending_invocations never becomes negative.
TypeOK ==
    /\ strand \in Seq(Handlers \cup Destroyers)
    /\ timer \in BOOLEAN
    /\ function \in BOOLEAN
    /\ mutex \in Destroyers \cup {Free}
    /\ destroyed \in BOOLEAN
    /\ pending \in Nat
    /\ current \in Jobs \cup {NoJob}
    /\ async_task \in BOOLEAN
    /\ job \in [Jobs -> JobStates]
    /\ njobs \in 0 .. MaxPosts
    /\ dpc \in [Destroyers -> DestroyStates]
    /\ awaited \in [Destroyers -> Jobs \cup {NoJob}]
    /\ posts \in 0 .. MaxPosts

\* Two calls of the task's function never overlap, whatever the order in which
\* the timer, schedule_now() and the pool's threads get to run: the owners of
\* the tasks rely on it (reconnect_to_server has no guard against itself).
SerialCalls ==
    \A i, j \in Jobs : job[i] = "calling" /\ job[j] = "calling" => i = j

\* When destroy() has returned to any caller, no call is in progress and no job
\* is left that could make one, so the owner may be freed (the jobs keep a raw
\* pointer to its state).
NothingAfterDestroy ==
    (\E d \in Destroyers : dpc[d] = "returned") => \A j \in Jobs : ~Active(j)

\* The function has thrown: current_invocation will never be cleared.
Threw == \E j \in Jobs : job[j] = "threw"

\* A trigger counted in pending_invocations always has a job that will come
\* back to the loop condition, unless the function has thrown: no wakeup is
\* lost between the increment in the strand handler and the end of the loop.
NoLostInvocation ==
    pending > 0 /\ ~destroyed => Threw \/ (current # NoJob /\ Active(current))

\* Once destroy() has begun no further call starts: it stops the task, it does
\* not drain the queued invocations.
StopsNotDrains ==
    [][destroyed => \A j \in Jobs : job'[j] = "calling" => job[j] = "calling"]_vars

\* Every call of destroy() comes back, also while the timer fires, other
\* threads schedule the task, and several threads destroy it at once.
DestroyReturns ==
    \A d \in Destroyers : dpc[d] # "idle" ~> dpc[d] \in {"returned", "threw"}

\* The backlog of invocations is worked off unless the task is destroyed, or
\* its function throws.
BacklogDrains == pending > 0 ~> pending = 0 \/ destroyed \/ Threw

-----------------------------------------------------------------------------
(* The task implements its contract.  A trigger is due from the moment its *)
(* handler is in the strand until the worker loop takes it.                *)

\* The places of the strand's queue that hold a trigger.
Triggers(q) == {i \in DOMAIN q : q[i] \in {"now", "fire"}}

Contract == INSTANCE TaskContract WITH
    due       <- pending + Cardinality(Triggers(strand)),
    running   <- \E j \in Jobs : job[j] = "calling",
    returned  <- {d \in Destroyers : dpc[d] = "returned"}

\* Every behaviour of the task is one its owners may rely on: one call per
\* trigger, no overlap, nothing after destroy().
ImplementsContract == Contract!Spec
=============================================================================
