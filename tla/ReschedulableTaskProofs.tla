----------------------- MODULE ReschedulableTaskProofs ----------------------
(***************************************************************************)
(* For any number of scheduling calls and of threads that destroy the      *)
(* task: calls never overlap, no trigger is lost, and a destroy() that has *)
(* returned leaves nothing behind.  The invariant ties the jobs to         *)
(* current_invocation, the one future that destroy() waits for.            *)
(***************************************************************************)
EXTENDS ReschedulableTask, SequenceTheorems, FunctionTheorems, FiniteSetTheorems, TLAPS

\* A job that may still call the function is the one current_invocation holds,
\* and current_invocation holds no finished one, unless its function threw.
ActiveIsCurrent == \A j \in Jobs : Active(j) => j = current
CurrentIsActive == current # NoJob => Active(current) \/ (MayThrow /\ job[current] = "threw")

\* The backlog of a task that is not destroyed has a job.
BacklogHasJob == pending > 0 /\ ~destroyed => current # NoJob

\* Whoever is past the first step of destroy() has set the flag, and so has
\* the poster of a destroy handler.
DestroyedFirst ==
    /\ \A d \in Destroyers : dpc[d] # "idle" => destroyed
    /\ \A i \in DOMAIN strand : strand[i] \in Destroyers => destroyed

\* destroy() waits for the last job there will ever be.
AwaitsLastJob ==
    \A d \in Destroyers : dpc[d] = "waiting" =>
        awaited[d] \in Jobs /\ current \in {awaited[d], NoJob}

\* async_task is reset, and a destroy() returns, when nothing is active.
ReturnedIsQuiet ==
    /\ ~async_task => destroyed /\ current = NoJob
    /\ \A d \in Destroyers : dpc[d] = "returned" => current = NoJob

\* A job stems from a scheduling call, so the bound on the calls bounds them.
JobsBounded ==
    ~destroyed => njobs + Len(strand) + (IF timer THEN 1 ELSE 0) =< posts

IInv ==
    /\ TypeOK
    /\ ActiveIsCurrent /\ CurrentIsActive
    /\ BacklogHasJob
    /\ DestroyedFirst /\ AwaitsLastJob /\ ReturnedIsQuiet
    /\ JobsBounded

-----------------------------------------------------------------------------
\* What a strand handler leaves in the queue.
LEMMA TailOfStrand ==
    ASSUME TypeOK, strand # <<>>
    PROVE  /\ Tail(strand) \in Seq(Handlers \cup Destroyers)
           /\ Len(Tail(strand)) = Len(strand) - 1
           /\ Len(strand) \in Nat /\ Len(strand) > 0
           /\ Head(strand) = strand[1] /\ 1 \in DOMAIN strand
           /\ \A i \in DOMAIN Tail(strand) : i + 1 \in DOMAIN strand /\ Tail(strand)[i] = strand[i + 1]
<1>1. strand \in Seq(Handlers \cup Destroyers)
  BY Zenon DEF TypeOK
<1> HIDE DEF Handlers
<1>2. Len(strand) \in Nat /\ DOMAIN strand = 1 .. Len(strand)
  BY <1>1, LenProperties, Zenon
<1>3. Len(strand) # 0
  BY <1>1, EmptySeq, Zenon
<1>4. /\ Tail(strand) \in Seq(Handlers \cup Destroyers)
      /\ Len(Tail(strand)) = Len(strand) - 1
      /\ Head(strand) = strand[1]
      /\ \A i \in 1 .. Len(Tail(strand)) : Tail(strand)[i] = strand[i + 1]
  BY <1>1, HeadTailProperties
<1>5. DOMAIN Tail(strand) = 1 .. Len(Tail(strand))
  BY <1>4, LenProperties, Zenon
<1> QED
  BY <1>2, <1>3, <1>4, <1>5

\* What posting a handler does to the queue.
LEMMA AppendToStrand ==
    ASSUME TypeOK, NEW h \in Handlers \cup Destroyers
    PROVE  /\ Append(strand, h) \in Seq(Handlers \cup Destroyers)
           /\ Len(Append(strand, h)) = Len(strand) + 1
           /\ Len(strand) \in Nat /\ DOMAIN strand = 1 .. Len(strand)
           /\ DOMAIN Append(strand, h) = 1 .. Len(strand) + 1
           /\ \A i \in 1 .. Len(strand) : Append(strand, h)[i] = strand[i]
           /\ Append(strand, h)[Len(strand) + 1] = h
           /\ \A i \in DOMAIN Append(strand, h) :
                 \/ i \in DOMAIN strand /\ Append(strand, h)[i] = strand[i]
                 \/ Append(strand, h)[i] = h
<1>1. strand \in Seq(Handlers \cup Destroyers)
  BY Zenon DEF TypeOK
<1> HIDE DEF Handlers
<1>2. Len(strand) \in Nat /\ DOMAIN strand = 1 .. Len(strand)
  BY <1>1, LenProperties, Zenon
<1>3. /\ Append(strand, h) \in Seq(Handlers \cup Destroyers)
      /\ Len(Append(strand, h)) = Len(strand) + 1
      /\ \A i \in 1 .. Len(strand) : Append(strand, h)[i] = strand[i]
      /\ Append(strand, h)[Len(strand) + 1] = h
  BY <1>1, AppendProperties
<1>4. DOMAIN Append(strand, h) = 1 .. Len(strand) + 1
  BY <1>3, LenProperties, Zenon
<1> QED
  BY <1>2, <1>3, <1>4

\* A new task has no job, no handler and no trigger: the invariant holds.
LEMMA InitInv == Init => IInv
<1> SUFFICES ASSUME Init PROVE IInv
  OBVIOUS
<1>1. TypeOK
  <2>1. strand \in Seq(Handlers \cup Destroyers)
    <3> HIDE DEF Handlers
    <3> QED
      BY EmptySeq, Zenon DEF Init
  <2>2. /\ job \in [Jobs -> JobStates]
        /\ dpc \in [Destroyers -> DestroyStates]
        /\ awaited \in [Destroyers -> Jobs \cup {NoJob}]
    BY Zenon DEF Init, JobStates, DestroyStates
  <2>3. /\ timer \in BOOLEAN /\ function \in BOOLEAN /\ destroyed \in BOOLEAN
        /\ async_task \in BOOLEAN /\ mutex \in Destroyers \cup {Free}
        /\ current \in Jobs \cup {NoJob}
    BY Zenon DEF Init
  <2>4. pending \in Nat /\ njobs \in 0 .. MaxPosts /\ posts \in 0 .. MaxPosts
    BY MaxPostsAssumption DEF Init
  <2> QED
    BY <2>1, <2>2, <2>3, <2>4, Zenon DEF TypeOK
<1>2. ActiveIsCurrent /\ CurrentIsActive /\ BacklogHasJob
  BY DEF Init, ActiveIsCurrent, CurrentIsActive, BacklogHasJob, Active
<1>3. strand = <<>> /\ Len(strand) = 0 /\ DOMAIN strand = {}
  BY EmptySeq DEF Init
<1>4. DestroyedFirst /\ AwaitsLastJob /\ ReturnedIsQuiet /\ JobsBounded
  BY <1>3 DEF Init, DestroyedFirst, AwaitsLastJob, ReturnedIsQuiet, JobsBounded
<1> QED
  BY <1>1, <1>2, <1>4, Zenon DEF IInv

-----------------------------------------------------------------------------
\* The first half of StrandNow and StrandFire: a handler leaves the queue and
\* counts its invocation, starting a job if there is none.
LEMMA FireKeepsInv ==
    ASSUME IInv, StrandNow \/ StrandFire
    PROVE  IInv'
<1> USE DEF IInv
<1>0. /\ strand # <<>>
      /\ strand' = Tail(strand)
      /\ timer' \in BOOLEAN /\ (timer' => timer)
      /\ UNCHANGED <<function, mutex, destroyed, async_task, dpc, awaited, posts>>
  <2>1. timer' \in BOOLEAN /\ (timer' => timer)
    <3>1. CASE StrandNow
      BY <3>1, Zenon DEF StrandNow
    <3>2. CASE StrandFire
      BY <3>2, Zenon DEF StrandFire, TypeOK
    <3> QED
      BY <3>1, <3>2, Zenon
  <2>2. strand # <<>> /\ strand' = Tail(strand)
    BY Zenon DEF StrandNow, StrandFire
  <2>3. UNCHANGED <<function, mutex, destroyed, async_task, dpc, awaited, posts>>
    BY Zenon DEF StrandNow, StrandFire, destVars
  <2> QED
    BY <2>1, <2>2, <2>3, Zenon
<1>1. /\ strand' \in Seq(Handlers \cup Destroyers)
      /\ Len(strand') = Len(strand) - 1
      /\ Len(strand) \in Nat
      /\ \A i \in DOMAIN strand' : i + 1 \in DOMAIN strand /\ strand'[i] = strand[i + 1]
  BY <1>0, TailOfStrand, Zenon
<1>2. DestroyedFirst'
  <2>1. \A i \in DOMAIN strand' : strand'[i] \in Destroyers => destroyed
    BY <1>1, Zenon DEF DestroyedFirst
  <2> QED
    BY <1>0, <2>1, Zenon DEF DestroyedFirst
<1>3. CASE UNCHANGED <<pending, current, job, njobs>>
  <2>1. TypeOK'
    BY <1>0, <1>1, <1>3, Zenon DEF TypeOK
  <2>2. ActiveIsCurrent' /\ CurrentIsActive' /\ BacklogHasJob'
    BY <1>0, <1>3, Zenon DEF ActiveIsCurrent, CurrentIsActive, BacklogHasJob, Active
  <2>3. AwaitsLastJob' /\ ReturnedIsQuiet'
    BY <1>0, <1>3, Zenon DEF AwaitsLastJob, ReturnedIsQuiet
  <2>4. JobsBounded'
    BY <1>0, <1>1, <1>3 DEF JobsBounded, TypeOK
  <2> QED
    BY <1>2, <2>1, <2>2, <2>3, <2>4, Zenon
<1>4. CASE /\ ~destroyed
           /\ pending' = pending + 1
           /\ ~(pending' = 1 /\ current = NoJob)
           /\ UNCHANGED <<current, job, njobs>>
  <2>1. TypeOK'
    BY <1>0, <1>1, <1>4 DEF TypeOK
  <2>2. ActiveIsCurrent' /\ CurrentIsActive'
    BY <1>0, <1>4, Zenon DEF ActiveIsCurrent, CurrentIsActive, Active
  <2>3. BacklogHasJob'
    BY <1>4 DEF BacklogHasJob, TypeOK
  <2>4. AwaitsLastJob' /\ ReturnedIsQuiet'
    BY <1>0, <1>4, Zenon DEF AwaitsLastJob, ReturnedIsQuiet
  <2>5. JobsBounded'
    BY <1>0, <1>1, <1>4 DEF JobsBounded, TypeOK
  <2> QED
    BY <1>2, <2>1, <2>2, <2>3, <2>4, <2>5, Zenon
<1>5. CASE /\ ~destroyed
           /\ pending' = pending + 1
           /\ current = NoJob
           /\ njobs' = njobs + 1
           /\ current' = njobs'
           /\ job' = [job EXCEPT ![njobs'] = "queued"]
  <2>1. njobs' \in Jobs
    <3>1. njobs + Len(strand) =< MaxPosts
      BY <1>1, <1>5, MaxPostsAssumption DEF JobsBounded, TypeOK
    <3>2. Len(strand) > 0
      BY <1>0, TailOfStrand, Zenon
    <3> QED
      BY <1>1, <1>5, <3>1, <3>2, MaxPostsAssumption DEF Jobs, TypeOK
  <2>2. TypeOK'
    BY <1>0, <1>1, <1>5, <2>1, MaxPostsAssumption DEF TypeOK, Jobs, JobStates
  <2>3. ActiveIsCurrent' /\ CurrentIsActive' /\ BacklogHasJob'
    <3>1. \A j \in Jobs : ~Active(j)
      BY <1>5 DEF ActiveIsCurrent, Jobs, NoJob
    <3>2. \A j \in Jobs : j # njobs' => job'[j] = job[j]
      BY <1>5, Zenon DEF TypeOK
    <3>3. job'[njobs'] = "queued"
      BY <1>5, <2>1, Zenon DEF TypeOK
    <3>4. njobs' # NoJob
      BY <2>1 DEF Jobs, NoJob
    <3> QED
      BY <1>5, <2>1, <3>1, <3>2, <3>3, <3>4, Zenon
         DEF ActiveIsCurrent, CurrentIsActive, BacklogHasJob, Active
  <2>4. AwaitsLastJob' /\ ReturnedIsQuiet'
    BY <1>0, <1>5, Zenon DEF AwaitsLastJob, ReturnedIsQuiet, DestroyedFirst
  <2>5. JobsBounded'
    BY <1>0, <1>1, <1>5 DEF JobsBounded, TypeOK
  <2> QED
    BY <1>2, <2>2, <2>3, <2>4, <2>5, Zenon
<1> QED
  BY <1>3, <1>4, <1>5, Zenon DEF StrandNow, StrandFire, FireIfSet, Fire, jobVars

\* Posting a handler, or queueing the one of an expired timer, only grows the queue.
LEMMA PostKeepsInv ==
    ASSUME IInv,
           schedule_now \/ schedule_after \/ cancel \/ TimerExpires
    PROVE  IInv'
<1> USE DEF IInv
<1>1. PICK h \in Handlers : strand' = Append(strand, h)
  BY Zenon DEF schedule_now, schedule_after, cancel, TimerExpires, Post, Handlers
<1>2. UNCHANGED <<function, mutex, destroyed, pending, current, async_task, job, njobs, dpc, awaited>>
  BY Zenon DEF schedule_now, schedule_after, cancel, TimerExpires, Post, stateVars, jobVars, destVars
<1>3. \/ timer' = timer /\ posts < MaxPosts /\ posts' = posts + 1
      \/ timer /\ timer' = FALSE /\ posts' = posts
  BY Zenon DEF schedule_now, schedule_after, cancel, TimerExpires, Post
<1>4. /\ strand' \in Seq(Handlers \cup Destroyers)
      /\ Len(strand') = Len(strand) + 1
      /\ Len(strand) \in Nat
      /\ \A i \in DOMAIN strand' : \/ i \in DOMAIN strand /\ strand'[i] = strand[i]
                                  \/ strand'[i] = h
  BY <1>1, AppendToStrand, Zenon
<1>5. timer \in BOOLEAN /\ timer' \in BOOLEAN
  BY <1>3, Zenon DEF TypeOK
<1>6. TypeOK'
  <2>1. posts' \in 0 .. MaxPosts
    BY <1>3, MaxPostsAssumption DEF TypeOK
  <2> QED
    BY <1>2, <1>4, <1>5, <2>1, Zenon DEF TypeOK
<1>7. ActiveIsCurrent' /\ CurrentIsActive' /\ BacklogHasJob' /\ AwaitsLastJob' /\ ReturnedIsQuiet'
  BY <1>2, Zenon DEF ActiveIsCurrent, CurrentIsActive, BacklogHasJob, Active, AwaitsLastJob, ReturnedIsQuiet
<1>8. DestroyedFirst'
  <2>1. h \notin Destroyers
    BY DestroyersAssumption, Zenon
  <2> QED
    BY <1>2, <1>4, <2>1, Zenon DEF DestroyedFirst
<1>9. JobsBounded'
  <2>1. njobs + Len(strand') + (IF timer' THEN 1 ELSE 0) =< posts' \/ destroyed
    BY <1>3, <1>4, MaxPostsAssumption DEF JobsBounded, TypeOK
  <2> QED
    BY <1>2, <2>1, Zenon DEF JobsBounded
<1> QED
  BY <1>6, <1>7, <1>8, <1>9, Zenon

\* The handlers of schedule_after(), cancel() and destroy() start no job.
LEMMA QuietHandlerKeepsInv ==
    ASSUME IInv,
           StrandAfter \/ StrandCancel \/ \E d \in Destroyers : StrandDestroy(d)
    PROVE  IInv'
<1> USE DEF IInv
<1>0. strand # <<>> /\ strand' = Tail(strand)
  BY Zenon DEF StrandAfter, StrandCancel, StrandDestroy
<1>1. /\ strand' \in Seq(Handlers \cup Destroyers)
      /\ Len(strand') = Len(strand) - 1
      /\ Len(strand) \in Nat
      /\ \A i \in DOMAIN strand' : i + 1 \in DOMAIN strand /\ strand'[i] = strand[i + 1]
      /\ Head(strand) = strand[1] /\ 1 \in DOMAIN strand
  BY <1>0, TailOfStrand, Zenon
<1>2. UNCHANGED <<mutex, destroyed, pending, current, async_task, job, njobs, awaited, posts>>
  BY Zenon DEF StrandAfter, StrandCancel, StrandDestroy, stateVars, jobVars, destVars
<1>3. timer' \in BOOLEAN /\ function' \in BOOLEAN
  <2>1. timer' \in {timer \/ function, FALSE} /\ function' \in {function, FALSE}
    BY Zenon DEF StrandAfter, StrandCancel, StrandDestroy
  <2>2. timer \in BOOLEAN /\ function \in BOOLEAN
    BY Zenon DEF TypeOK
  <2> QED
    BY <2>1, <2>2, ZenonT(60)
<1>4. \/ dpc' = dpc
      \/ \E d \in Destroyers : destroyed /\ dpc' = [dpc EXCEPT ![d] = "relock"]
  BY <1>1 DEF StrandAfter, StrandCancel, StrandDestroy, destVars, DestroyedFirst
<1>5. TypeOK'
  <2>1. dpc' \in [Destroyers -> DestroyStates]
    BY <1>4, Zenon DEF TypeOK, DestroyStates
  <2> QED
    BY <1>1, <1>2, <1>3, <2>1, Zenon DEF TypeOK
<1>6. ActiveIsCurrent' /\ CurrentIsActive' /\ BacklogHasJob'
  BY <1>2, Zenon DEF ActiveIsCurrent, CurrentIsActive, BacklogHasJob, Active
<1>7. \A d \in Destroyers : dpc'[d] = dpc[d] \/ (destroyed /\ dpc'[d] = "relock")
  BY <1>4, Zenon DEF TypeOK
<1>8. DestroyedFirst' /\ AwaitsLastJob' /\ ReturnedIsQuiet'
  <2>1. \A i \in DOMAIN strand' : strand'[i] \in Destroyers => destroyed
    BY <1>1, Zenon DEF DestroyedFirst
  <2> QED
    BY <1>2, <1>7, <2>1, Zenon DEF DestroyedFirst, AwaitsLastJob, ReturnedIsQuiet
<1>9. JobsBounded'
  BY <1>1, <1>2, <1>3 DEF JobsBounded, TypeOK
<1> QED
  BY <1>5, <1>6, <1>8, <1>9, Zenon

\* A job that comes back to the loop condition is current_invocation's: it takes
\* an invocation from the backlog or clears current_invocation.
LEMMA JobKeepsInv ==
    ASSUME IInv, NEW j \in Jobs, Job(j)
    PROVE  IInv'
<1> USE DEF IInv
<1>0. Active(j) /\ j = current /\ j # NoJob
  BY DEF Job, JobLoop, CallReturns, CallThrows, Active, ActiveIsCurrent, Jobs, NoJob
<1>1. /\ UNCHANGED <<strand, timer, function, mutex, destroyed, async_task, njobs, dpc, awaited, posts>>
      /\ \E s \in JobStates : job' = [job EXCEPT ![j] = s]
  BY Zenon DEF Job, JobLoop, CallReturns, CallThrows, asyncVars, stateVars, destVars, JobStates
<1>2. /\ job' \in [Jobs -> JobStates]
      /\ \A i \in Jobs : i # j => job'[i] = job[i]
  BY <1>1, Zenon DEF TypeOK
<1>3. \/ job'[j] = "calling" /\ ~destroyed /\ pending > 0 /\ pending' = pending - 1 /\ current' = current
      \/ job'[j] = "done" /\ (destroyed \/ ~(pending > 0)) /\ pending' = pending /\ current' = NoJob
      \/ job'[j] = "loop" /\ pending' = pending /\ current' = current
      \/ job'[j] = "threw" /\ MayThrow /\ pending' = pending /\ current' = current
  BY Zenon DEF Job, JobLoop, CallReturns, CallThrows, stateVars, TypeOK
<1>4. TypeOK'
  <2>1. pending' \in Nat /\ current' \in Jobs \cup {NoJob}
    BY <1>3 DEF TypeOK
  <2> QED
    BY <1>1, <1>2, <2>1, Zenon DEF TypeOK
<1>5. ActiveIsCurrent' /\ CurrentIsActive'
  BY <1>0, <1>2, <1>3, Zenon DEF ActiveIsCurrent, CurrentIsActive, Active
<1>6. BacklogHasJob'
  BY <1>0, <1>1, <1>3, Zenon DEF BacklogHasJob, TypeOK
<1>7. DestroyedFirst' /\ JobsBounded'
  BY <1>1, Zenon DEF DestroyedFirst, JobsBounded
<1>8. AwaitsLastJob' /\ ReturnedIsQuiet'
  BY <1>1, <1>3, Zenon DEF AwaitsLastJob, ReturnedIsQuiet
<1> QED
  BY <1>4, <1>5, <1>6, <1>7, <1>8, Zenon

\* The steps of destroy() on the calling thread.
LEMMA DestroyKeepsInv ==
    ASSUME IInv, NEW d \in Destroyers, Destroy(d)
    PROVE  IInv'
<1> USE DEF IInv
<1>1. /\ UNCHANGED <<timer, function, pending, current, job, njobs, posts>>
      /\ timer' \in BOOLEAN
  BY SMTT(30) DEF Destroy, DestroyCall, DestroyUnlock, DestroyRelock, DestroyJoined, asyncVars, jobVars, TypeOK
<1>2. PICK s \in DestroyStates \ {"idle"} : dpc' = [dpc EXCEPT ![d] = s]
  BY Zenon DEF Destroy, DestroyCall, DestroyUnlock, DestroyRelock, DestroyJoined, DestroyStates
<1>3. /\ dpc' \in [Destroyers -> DestroyStates]
      /\ dpc'[d] = s
      /\ \A e \in Destroyers : e # d => dpc'[e] = dpc[e]
  BY <1>2, Zenon DEF TypeOK
<1>4. ActiveIsCurrent' /\ CurrentIsActive'
  BY <1>1, Zenon DEF ActiveIsCurrent, CurrentIsActive, Active
<1>5. CASE DestroyCall(d) /\ async_task
  <2>1. /\ destroyed' = TRUE /\ mutex' = d /\ dpc' = [dpc EXCEPT ![d] = "locked"]
        /\ UNCHANGED <<strand, async_task, awaited>>
    BY <1>5, Zenon DEF DestroyCall, asyncVars
  <2>2. destroyed'
    BY <2>1, Zenon
  <2>3. TypeOK'
    <3>1. destroyed' \in BOOLEAN
      BY <2>1, Zenon
    <3> QED
      BY <1>1, <1>3, <2>1, <3>1, Zenon DEF TypeOK
  <2>4. \A e \in Destroyers : dpc'[e] \in {"waiting", "returned"} => dpc'[e] = dpc[e]
    BY <1>3, <2>1, Zenon DEF TypeOK
  <2> QED
    BY <1>1, <1>4, <1>5, <2>1, <2>2, <2>3, <2>4, Zenon
       DEF BacklogHasJob, DestroyedFirst, AwaitsLastJob, ReturnedIsQuiet, JobsBounded
<1>6. CASE ~(DestroyCall(d) /\ async_task)
  <2>1. destroyed /\ UNCHANGED destroyed
    BY <1>6, Zenon DEF Destroy, DestroyCall, DestroyUnlock, DestroyRelock, DestroyJoined,
                DestroyedFirst, ReturnedIsQuiet
  <2>2. CASE DestroyUnlock(d)
    <3>1. /\ strand' = Append(strand, d) /\ mutex' = Free
          /\ dpc' = [dpc EXCEPT ![d] = "strand"]
          /\ UNCHANGED <<async_task, awaited>>
      BY <2>2, Zenon DEF DestroyUnlock
    <3>2. strand' \in Seq(Handlers \cup Destroyers)
      BY <3>1, AppendToStrand, Zenon
    <3>3. TypeOK'
      BY <1>1, <1>3, <2>1, <3>1, <3>2, Zenon DEF TypeOK
    <3>4. \A e \in Destroyers : dpc'[e] \in {"waiting", "returned"} => dpc'[e] = dpc[e]
      BY <1>3, <3>1, SMTT(30) DEF TypeOK
    <3> QED
      BY <1>1, <1>4, <2>1, <3>1, <3>3, <3>4, Zenon
         DEF BacklogHasJob, DestroyedFirst, AwaitsLastJob, ReturnedIsQuiet, JobsBounded
  <2>3. CASE ~DestroyUnlock(d)
    <3>1. UNCHANGED <<strand, mutex>>
      BY <1>6, <2>3, Zenon DEF Destroy, DestroyCall, DestroyRelock, DestroyJoined, asyncVars
    <3>2. /\ awaited' \in [Destroyers -> Jobs \cup {NoJob}]
          /\ \A e \in Destroyers : e # d => awaited'[e] = awaited[e]
      BY <1>6, <2>3, Zenon DEF Destroy, DestroyCall, DestroyRelock, DestroyJoined, TypeOK
    <3>3. async_task' \in BOOLEAN
      BY <1>6, <2>3, Zenon DEF Destroy, DestroyCall, DestroyRelock, DestroyJoined, TypeOK
    <3>4. TypeOK'
      BY <1>1, <1>3, <2>1, <3>1, <3>2, <3>3, Zenon DEF TypeOK
    <3>5. dpc'[d] = "waiting" => awaited'[d] \in Jobs /\ current = awaited'[d]
      BY <1>6, <2>3, Zenon DEF Destroy, DestroyCall, DestroyRelock, DestroyJoined, TypeOK
    <3>6. (dpc'[d] = "returned" \/ (async_task /\ ~async_task')) => current = NoJob
      <4>1. CASE DestroyCall(d)
        BY <1>6, <4>1, Zenon DEF DestroyCall, ReturnedIsQuiet
      <4>2. CASE DestroyRelock(d)
        BY <4>2, Zenon DEF DestroyRelock, TypeOK
      <4>3. CASE DestroyJoined(d)
        <5>1. CASE job[awaited[d]] = "done"
          <6>1. dpc[d] = "waiting"
            BY <4>3, Zenon DEF DestroyJoined
          <6>2. current = awaited[d] \/ current = NoJob
            BY <6>1, Zenon DEF AwaitsLastJob
          <6> QED
            BY <5>1, <6>2, Zenon DEF CurrentIsActive, Active
        <5>2. CASE job[awaited[d]] = "threw"
          BY <1>3, <4>3, <5>2, Zenon DEF DestroyJoined, TypeOK
        <5> QED
          BY <4>3, <5>1, <5>2, Zenon DEF DestroyJoined
      <4> QED
        BY <2>3, <4>1, <4>2, <4>3, Zenon DEF Destroy
    <3>7. AwaitsLastJob'
      BY <1>1, <1>3, <3>2, <3>5, Zenon DEF AwaitsLastJob
    <3>8. ReturnedIsQuiet'
      BY <1>1, <1>3, <2>1, <3>3, <3>6, Zenon DEF ReturnedIsQuiet, TypeOK
    <3> QED
      BY <1>1, <1>4, <2>1, <3>1, <3>4, <3>7, <3>8, Zenon
         DEF BacklogHasJob, DestroyedFirst, JobsBounded
  <2> QED
    BY <2>2, <2>3, SMTT(30)
<1> QED
  BY <1>5, <1>6, Zenon

\* IInv is inductive.
LEMMA NextKeepsInv == IInv /\ [Next]_vars => IInv'
<1> SUFFICES ASSUME IInv, [Next]_vars PROVE IInv'
  OBVIOUS
<1>1. CASE UNCHANGED vars
  <2>1. UNCHANGED <<strand, timer, function, mutex, destroyed, pending, current, async_task, job,
                    njobs, dpc, awaited, posts>>
    BY <1>1, Zenon DEF vars, asyncVars, stateVars, jobVars, destVars
  <2> QED
    BY <2>1, Zenon DEF IInv, TypeOK, ActiveIsCurrent, CurrentIsActive, Active, BacklogHasJob, DestroyedFirst,
                AwaitsLastJob, ReturnedIsQuiet, JobsBounded
<1>2. CASE Strand
  BY <1>2, FireKeepsInv, QuietHandlerKeepsInv, Zenon DEF Strand
<1> QED
  BY <1>1, <1>2, PostKeepsInv, JobKeepsInv, DestroyKeepsInv, Zenon DEF Next

\* IInv is an invariant of the task.
THEOREM Invariance == Spec => []IInv
BY InitInv, NextKeepsInv, PTL DEF Spec

\* Every variable keeps its type, and pending_invocations never goes below zero.
THEOREM TypeCorrect == Spec => []TypeOK
<1>1. IInv => TypeOK
  BY Zenon DEF IInv
<1> QED
  BY <1>1, Invariance, PTL

\* Two calls of the function never overlap: a calling job is current_invocation's.
THEOREM CallsAreSerial == Spec => []SerialCalls
<1>1. IInv => SerialCalls
  BY Zenon DEF IInv, ActiveIsCurrent, Active, SerialCalls
<1> QED
  BY <1>1, Invariance, PTL

\* A destroy() that has returned leaves no job that could still call the function.
THEOREM DestroyLeavesNothing == Spec => []NothingAfterDestroy
<1>1. IInv => NothingAfterDestroy
  <2> SUFFICES ASSUME IInv, NEW d \in Destroyers, dpc[d] = "returned", NEW j \in Jobs
               PROVE  ~Active(j)
    BY Zenon DEF NothingAfterDestroy
  <2> QED
    BY DEF IInv, ReturnedIsQuiet, ActiveIsCurrent, Jobs, NoJob
<1> QED
  BY <1>1, Invariance, PTL

\* A trigger counted in pending_invocations is never forgotten.
THEOREM InvocationsAreServed == Spec => []NoLostInvocation
<1>1. IInv => NoLostInvocation
  <2> SUFFICES ASSUME IInv, pending > 0, ~destroyed, ~Threw
               PROVE  current # NoJob /\ Active(current)
    BY Zenon DEF NoLostInvocation
  <2>1. current # NoJob /\ current \in Jobs
    BY Zenon DEF IInv, TypeOK, BacklogHasJob
  <2> QED
    BY <2>1, Zenon DEF IInv, CurrentIsActive, Threw
<1> QED
  BY <1>1, Invariance, PTL

\* A destroyed task starts no further call, in any step.
THEOREM DestroyStopsCalls == Spec => StopsNotDrains
<1>1. IInv /\ [Next]_vars =>
        [destroyed => \A j \in Jobs : job'[j] = "calling" => job[j] = "calling"]_vars
  <2> SUFFICES ASSUME IInv, [Next]_vars, destroyed, NEW j \in Jobs, job'[j] = "calling"
               PROVE  job[j] = "calling"
    OBVIOUS
  <2> USE DEF IInv
  <2>1. CASE job' = job
    BY <2>1, Zenon
  <2>2. CASE \E i \in Jobs : Job(i)
    BY <2>2, Zenon DEF Job, JobLoop, CallReturns, CallThrows, TypeOK
  <2> QED
    BY <2>1, <2>2, ZenonT(60) DEF Next, vars, jobVars, schedule_now, schedule_after, cancel, Post, TimerExpires, Strand,
       StrandNow, StrandFire, StrandAfter, StrandCancel, StrandDestroy, FireIfSet, Fire, Destroy,
       DestroyCall, DestroyUnlock, DestroyRelock, DestroyJoined
<1> QED
  BY <1>1, Invariance, PTL DEF Spec, StopsNotDrains

-----------------------------------------------------------------------------
(* The refinement of TaskContract.                                         *)

\* m_function is reset by destroy() alone, and each destroyer has at most one
\* handler in the queue, which it waits for.
FunctionUntilDestroyed == ~function => destroyed
OwnHandler ==
    \A i \in DOMAIN strand : strand[i] \in Destroyers =>
        /\ dpc[strand[i]] = "strand"
        /\ \A k \in DOMAIN strand : strand[k] = strand[i] => k = i

\* A posted handler is one more trigger, or none.
LEMMA TriggersAfterAppend ==
    ASSUME NEW S, NEW q \in Seq(S), NEW h \in S
    PROVE  /\ Cardinality(Triggers(q)) \in Nat
           /\ Cardinality(Triggers(Append(q, h))) =
                 Cardinality(Triggers(q)) + (IF h \in {"now", "fire"} THEN 1 ELSE 0)
<1>1. Len(q) \in Nat /\ DOMAIN q = 1 .. Len(q)
  BY LenProperties, Zenon
<1>2. /\ Append(q, h) \in Seq(S)
      /\ Len(Append(q, h)) = Len(q) + 1
      /\ \A i \in 1 .. Len(q) : Append(q, h)[i] = q[i]
      /\ Append(q, h)[Len(q) + 1] = h
  BY AppendProperties
<1>3. DOMAIN Append(q, h) = 1 .. Len(q) + 1
  BY <1>2, LenProperties, Zenon
<1>4. IsFiniteSet(Triggers(q)) /\ Cardinality(Triggers(q)) \in Nat
  <2>1. IsFiniteSet(1 .. Len(q))
    BY <1>1, FS_Interval
  <2>2. Triggers(q) \subseteq 1 .. Len(q)
    BY <1>1, Zenon DEF Triggers
  <2> QED
    BY <2>1, <2>2, FS_Subset, FS_CardinalityType, Zenon
<1>5. CASE h \in {"now", "fire"}
  <2>1. Triggers(Append(q, h)) = Triggers(q) \cup {Len(q) + 1}
    BY <1>1, <1>2, <1>3, <1>5 DEF Triggers
  <2>2. Len(q) + 1 \notin Triggers(q)
    BY <1>1 DEF Triggers
  <2> QED
    BY <1>4, <1>5, <2>1, <2>2, FS_AddElement, Zenon
<1>6. CASE h \notin {"now", "fire"}
  <2>1. Triggers(Append(q, h)) = Triggers(q)
    BY <1>1, <1>2, <1>3, <1>6 DEF Triggers
  <2> QED
    BY <1>4, <1>6, <2>1
<1> QED
  BY <1>4, <1>5, <1>6, Zenon

\* The handler that leaves the queue was a trigger, or was none.
LEMMA TriggersAfterTail ==
    ASSUME NEW S, NEW q \in Seq(S), q # <<>>
    PROVE  /\ Cardinality(Triggers(q)) \in Nat
           /\ Cardinality(Triggers(Tail(q))) \in Nat
           /\ Cardinality(Triggers(q)) =
                 Cardinality(Triggers(Tail(q))) + (IF Head(q) \in {"now", "fire"} THEN 1 ELSE 0)
<1>1. Len(q) \in Nat /\ Len(q) # 0 /\ DOMAIN q = 1 .. Len(q)
  BY LenProperties, EmptySeq, Zenon
<1>2. /\ Tail(q) \in Seq(S)
      /\ Len(Tail(q)) = Len(q) - 1
      /\ Head(q) = q[1]
      /\ \A i \in 1 .. Len(Tail(q)) : Tail(q)[i] = q[i + 1]
  BY HeadTailProperties
<1>3. DOMAIN Tail(q) = 1 .. Len(q) - 1
  BY <1>1, <1>2, LenProperties, Zenon
<1> DEFINE Rest == Triggers(q) \ {1}
<1>4. IsFiniteSet(Triggers(q)) /\ Cardinality(Triggers(q)) \in Nat
  <2>1. IsFiniteSet(1 .. Len(q))
    BY <1>1, FS_Interval
  <2>2. Triggers(q) \subseteq 1 .. Len(q)
    BY <1>1, Zenon DEF Triggers
  <2> QED
    BY <2>1, <2>2, FS_Subset, FS_CardinalityType, Zenon
<1>5. IsFiniteSet(Triggers(Tail(q))) /\ Cardinality(Triggers(Tail(q))) \in Nat
  <2>1. IsFiniteSet(1 .. Len(q) - 1)
    BY <1>1, FS_Interval
  <2>2. Triggers(Tail(q)) \subseteq 1 .. Len(q) - 1
    BY <1>3, Zenon DEF Triggers
  <2> QED
    BY <2>1, <2>2, FS_Subset, FS_CardinalityType, Zenon
<1>6. IsFiniteSet(Rest) /\ Cardinality(Rest) = Cardinality(Triggers(Tail(q)))
  <2> DEFINE shift == [i \in Triggers(Tail(q)) |-> i + 1]
  <2>1. \A i \in Triggers(Tail(q)) : i \in Nat /\ i + 1 \in Rest
    BY <1>1, <1>2, <1>3 DEF Triggers
  <2>2. \A i \in Rest : i - 1 \in Triggers(Tail(q)) /\ i = (i - 1) + 1
    BY <1>1, <1>2, <1>3 DEF Triggers
  <2>3. shift \in Bijection(Triggers(Tail(q)), Rest)
    <3>1. shift \in [Triggers(Tail(q)) -> Rest]
      BY <2>1, Zenon
    <3>2. \A a, b \in Triggers(Tail(q)) : shift[a] = shift[b] => a = b
      BY <2>1
    <3>3. \A i \in Rest : \E a \in Triggers(Tail(q)) : shift[a] = i
      BY <2>1, <2>2, Zenon
    <3> HIDE DEF shift, Rest
    <3>4. shift \in Injection(Triggers(Tail(q)), Rest)
      BY <3>1, <3>2, Fun_IsInj, Zenon
    <3>5. shift \in Surjection(Triggers(Tail(q)), Rest)
      BY <3>1, <3>3, Fun_IsSurj, Zenon
    <3> QED
      BY <3>4, <3>5, Zenon DEF Bijection
  <2>4. ExistsBijection(Triggers(Tail(q)), Rest)
    BY <2>3, Zenon DEF ExistsBijection
  <2> QED
    BY <1>5, <2>4, FS_Bijection, Zenon
<1>7. CASE Head(q) \in {"now", "fire"}
  <2>1. 1 \in Triggers(q)
    BY <1>1, <1>2, <1>7 DEF Triggers
  <2>2. Cardinality(Rest) = Cardinality(Triggers(q)) - 1
    BY <1>4, <2>1, FS_RemoveElement, Zenon
  <2> QED
    BY <1>4, <1>5, <1>6, <1>7, <2>2
<1>8. CASE Head(q) \notin {"now", "fire"}
  <2>1. 1 \notin Triggers(q)
    BY <1>2, <1>8, Zenon DEF Triggers
  <2>2. Rest = Triggers(q)
    BY <2>1, Zenon
  <2> HIDE DEF Rest
  <2> QED
    BY <1>4, <1>5, <1>6, <1>8, <2>2
<1> QED
  BY <1>4, <1>5, <1>7, <1>8, Zenon

\* The two facts above are kept by every step.
LEMMA HandlersInvariance == Spec => [](FunctionUntilDestroyed /\ OwnHandler)
<1>1. Init => FunctionUntilDestroyed /\ OwnHandler
  <2>1. Init => DOMAIN strand = {}
    BY EmptySeq DEF Init
  <2>2. Init => FunctionUntilDestroyed
    BY Zenon DEF Init, FunctionUntilDestroyed
  <2> QED
    BY <2>1, <2>2, Zenon DEF OwnHandler
<1>2. IInv /\ FunctionUntilDestroyed /\ OwnHandler /\ [Next]_vars =>
        (FunctionUntilDestroyed /\ OwnHandler)'
  <2> SUFFICES ASSUME IInv, FunctionUntilDestroyed, OwnHandler, [Next]_vars
               PROVE  FunctionUntilDestroyed' /\ OwnHandler'
    OBVIOUS
  <2> USE DEF IInv
  <2>1. CASE UNCHANGED <<strand, function, destroyed, dpc>>
    BY <2>1, Zenon DEF FunctionUntilDestroyed, OwnHandler
  <2>2. CASE schedule_now \/ schedule_after \/ cancel \/ TimerExpires
    <3>1. PICK h \in Handlers : strand' = Append(strand, h)
      BY <2>2, Zenon DEF schedule_now, schedule_after, cancel, TimerExpires, Post, Handlers
    <3>2. UNCHANGED <<function, destroyed, dpc>>
      BY <2>2, Zenon DEF schedule_now, schedule_after, cancel, TimerExpires, Post, stateVars, destVars
    <3>3. h \notin Destroyers
      BY DestroyersAssumption, Zenon
    <3>4. \A i \in DOMAIN strand' : \/ i \in DOMAIN strand /\ strand'[i] = strand[i]
                                   \/ strand'[i] = h
      BY <3>1, AppendToStrand, Zenon
    <3> QED
      BY <3>2, <3>3, <3>4, Zenon DEF FunctionUntilDestroyed, OwnHandler
  <2>3. CASE Strand
    <3>1. strand # <<>> /\ strand' = Tail(strand)
      BY <2>3, Zenon DEF Strand, StrandNow, StrandFire, StrandAfter, StrandCancel, StrandDestroy
    <3>2. UNCHANGED destroyed
      BY <2>3, Zenon DEF Strand, StrandNow, StrandFire, StrandAfter, StrandCancel, StrandDestroy, stateVars
    <3>3. /\ DOMAIN strand' \subseteq Nat \ {0}
          /\ Head(strand) = strand[1] /\ 1 \in DOMAIN strand
          /\ \A i \in DOMAIN strand' : i + 1 \in DOMAIN strand /\ strand'[i] = strand[i + 1]
      <4>1. strand' \in Seq(Handlers \cup Destroyers)
        BY <3>1, TailOfStrand, Zenon
      <4>2. DOMAIN strand' \subseteq Nat \ {0}
        <5> HIDE DEF Handlers
        <5> QED
          BY <4>1, LenProperties
      <4> QED
        BY <3>1, <4>2, TailOfStrand, Zenon
    <3>4. CASE UNCHANGED <<function, dpc>>
      <4>1. OwnHandler'
        BY <3>3, <3>4 DEF OwnHandler
      <4> QED
        BY <3>2, <3>4, <4>1, Zenon DEF FunctionUntilDestroyed
    <3>5. CASE \E d \in Destroyers : StrandDestroy(d)
      <4>1. PICK d \in Destroyers : Head(strand) = d /\ dpc' = [dpc EXCEPT ![d] = "relock"]
        BY <3>5, ZenonT(60) DEF StrandDestroy
      <4>2. destroyed
        BY <3>3, <4>1, Zenon DEF DestroyedFirst
      <4>3. \A i \in DOMAIN strand' : strand'[i] # d
        BY <3>3, <4>1 DEF OwnHandler
      <4>4. \A e \in Destroyers : e # d => dpc'[e] = dpc[e]
        BY <4>1, Zenon DEF TypeOK
      <4>5. OwnHandler'
        BY <3>3, <4>3, <4>4 DEF OwnHandler
      <4> QED
        BY <3>2, <4>2, <4>5, Zenon DEF FunctionUntilDestroyed
    <3> QED
      BY <2>3, <3>4, <3>5, Zenon DEF Strand, StrandNow, StrandFire, StrandAfter, StrandCancel, destVars
  <2>4. ASSUME NEW d \in Destroyers, Destroy(d) PROVE FunctionUntilDestroyed' /\ OwnHandler'
    <3>1. UNCHANGED function /\ (destroyed => destroyed')
      BY <2>4, SMTT(30) DEF Destroy, DestroyCall, DestroyUnlock, DestroyRelock, DestroyJoined, asyncVars
    <3>2. \A e \in Destroyers : e # d => dpc'[e] = dpc[e]
      BY <2>4, Zenon DEF Destroy, DestroyCall, DestroyUnlock, DestroyRelock, DestroyJoined, TypeOK
    <3>3. \A i \in DOMAIN strand : strand[i] # d
      BY <2>4, ZenonT(60) DEF Destroy, DestroyCall, DestroyUnlock, DestroyRelock, DestroyJoined, OwnHandler
    <3>4. CASE strand' = strand
      BY <3>1, <3>2, <3>3, <3>4, Zenon DEF FunctionUntilDestroyed, OwnHandler
    <3>5. CASE strand' = Append(strand, d) /\ dpc' = [dpc EXCEPT ![d] = "strand"]
      <4>1. dpc'[d] = "strand"
        BY <3>5, Zenon DEF TypeOK
      <4>2. /\ Len(strand) \in Nat /\ DOMAIN strand = 1 .. Len(strand)
            /\ DOMAIN strand' = 1 .. Len(strand) + 1
            /\ \A i \in 1 .. Len(strand) : strand'[i] = strand[i]
            /\ strand'[Len(strand) + 1] = d
        BY <3>5, AppendToStrand, ZenonT(60) DEF IInv
      <4>3. OwnHandler'
        <5> SUFFICES ASSUME NEW i \in DOMAIN strand', strand'[i] \in Destroyers
                     PROVE  /\ dpc'[strand'[i]] = "strand"
                            /\ \A k \in DOMAIN strand' : strand'[k] = strand'[i] => k = i
          BY Zenon DEF OwnHandler
        <5>1. CASE i \in DOMAIN strand
          <6>1. strand'[i] = strand[i] /\ strand[i] # d
            BY <3>3, <4>2, <5>1, Zenon
          <6>2. dpc[strand[i]] = "strand" /\ \A k \in DOMAIN strand : strand[k] = strand[i] => k = i
            BY <5>1, <6>1, Zenon DEF OwnHandler
          <6>3. dpc'[strand'[i]] = "strand"
            BY <3>2, <6>1, <6>2, Zenon
          <6> QED
            BY <4>2, <6>1, <6>2, <6>3
        <5>2. CASE i = Len(strand) + 1
          BY <3>3, <4>1, <4>2, <5>2
        <5> QED
          BY <4>2, <5>1, <5>2
      <4> QED
        BY <3>1, <4>3, Zenon DEF FunctionUntilDestroyed
    <3> QED
      BY <2>4, <3>4, <3>5, Zenon DEF Destroy, DestroyCall, DestroyUnlock, DestroyRelock, DestroyJoined, asyncVars
  <2>5. CASE \E j \in Jobs : Job(j)
    BY <2>1, <2>5, Zenon DEF Job, JobLoop, CallReturns, CallThrows, asyncVars, stateVars, destVars
  <2>6. CASE UNCHANGED vars
    BY <2>1, <2>6, Zenon DEF vars, asyncVars, stateVars, destVars
  <2> QED
    BY <2>2, <2>3, <2>4, <2>5, <2>6, Zenon DEF Next
<1> QED
  BY <1>1, <1>2, Invariance, PTL DEF Spec

\* How far each step is from the contract: what it does to the number of
\* triggers, to the call in progress, and to the destroyers that returned.
LEMMA StepImplements ==
    ASSUME IInv, FunctionUntilDestroyed, OwnHandler, [Next]_vars
    PROVE  [Contract!Next]_(Contract!vars)
<1> DEFINE due == pending + Cardinality(Triggers(strand))
           running == \E j \in Jobs : job[j] = "calling"
           returned == {d \in Destroyers : dpc[d] = "returned"}
<1> USE DEF IInv
<1>0. /\ strand \in Seq(Handlers \cup Destroyers) /\ pending \in Nat
      /\ job \in [Jobs -> JobStates] /\ dpc \in [Destroyers -> DestroyStates]
  BY Zenon DEF TypeOK
<1>1. CASE UNCHANGED <<strand, pending, job, destroyed, dpc>>
  BY <1>1, Zenon DEF Contract!vars
<1>2. CASE schedule_now \/ schedule_after \/ cancel \/ TimerExpires
  <2>1. PICK h \in Handlers : strand' = Append(strand, h)
    BY <1>2, Zenon DEF schedule_now, schedule_after, cancel, TimerExpires, Post, Handlers
  <2>2. UNCHANGED <<pending, job, destroyed, dpc>>
    BY <1>2, Zenon DEF schedule_now, schedule_after, cancel, TimerExpires, Post, stateVars, jobVars, destVars
  <2>3. /\ Cardinality(Triggers(strand)) \in Nat
        /\ Cardinality(Triggers(strand')) =
              Cardinality(Triggers(strand)) + (IF h \in {"now", "fire"} THEN 1 ELSE 0)
    <3> HIDE DEF Handlers
    <3> QED
      BY <1>0, <2>1, TriggersAfterAppend
  <2>4. due' = due + 1 \/ due' = due
    BY <1>0, <2>2, <2>3
  <2>5. UNCHANGED <<running, returned>>
    BY <2>2, Zenon
  <2> QED
    BY <2>2, <2>4, <2>5, Zenon DEF Contract!Next, Contract!Trigger, Contract!vars
<1>3. CASE Strand
  <2>1. strand # <<>> /\ strand' = Tail(strand) /\ UNCHANGED destroyed
    BY <1>3, Zenon DEF Strand, StrandNow, StrandFire, StrandAfter, StrandCancel, StrandDestroy, stateVars
  <2>2. /\ Cardinality(Triggers(strand)) \in Nat
        /\ Cardinality(Triggers(strand')) \in Nat
        /\ Cardinality(Triggers(strand)) =
              Cardinality(Triggers(strand')) + (IF Head(strand) \in {"now", "fire"} THEN 1 ELSE 0)
    <3> HIDE DEF Handlers
    <3> QED
      BY <1>0, <2>1, TriggersAfterTail, Zenon
  <2>3. CASE StrandNow \/ StrandFire
    <3>1. Head(strand) \in {"now", "fire"} /\ UNCHANGED dpc
      BY <2>3, Zenon DEF StrandNow, StrandFire, destVars
    <3>2. UNCHANGED returned
      BY <3>1, Zenon
    <3>3. CASE destroyed /\ pending' = pending /\ job' = job
      <4>1. due' \in 0 .. due
        BY <1>0, <2>2, <3>1, <3>3
      <4>2. UNCHANGED running
        BY <3>3, Zenon
      <4> QED
        BY <2>1, <3>2, <3>3, <4>1, <4>2, Zenon DEF Contract!Next, Contract!Discard
    <3>4. CASE /\ ~destroyed
               /\ pending' = pending + 1
               /\ \/ job' = job
                  \/ /\ current = NoJob
                     /\ job' = [job EXCEPT ![njobs'] = "queued"]
      <4>1. due' = due
        BY <1>0, <2>2, <3>1, <3>4
      <4>2. UNCHANGED running
        <5>1. CASE job' = job
          BY <5>1, Zenon
        <5>2. CASE current = NoJob /\ job' = [job EXCEPT ![njobs'] = "queued"]
          <6>1. \A j \in Jobs : job[j] # "calling"
            BY <5>2 DEF ActiveIsCurrent, Active, Jobs, NoJob
          <6>2. \A j \in Jobs : job'[j] # "calling"
            BY <1>0, <5>2, <6>1, Zenon
          <6> QED
            BY <6>1, <6>2, Zenon
        <5> QED
          BY <3>4, <5>1, <5>2, Zenon
      <4> QED
        BY <2>1, <3>2, <4>1, <4>2, Zenon DEF Contract!vars
    <3>5. function \/ destroyed
      BY Zenon DEF FunctionUntilDestroyed
    <3> QED
      BY <2>3, <3>3, <3>4, <3>5, Zenon DEF StrandNow, StrandFire, FireIfSet, Fire, jobVars
  <2>4. CASE StrandAfter \/ StrandCancel \/ \E d \in Destroyers : StrandDestroy(d)
    <3>1. UNCHANGED <<pending, job>>
      BY <2>4, Zenon DEF StrandAfter, StrandCancel, StrandDestroy, stateVars, jobVars
    <3>2. Head(strand) \notin {"now", "fire"}
      BY <2>4, DestroyersAssumption, Zenon DEF StrandAfter, StrandCancel, StrandDestroy, Handlers
    <3>3. due' = due
      BY <1>0, <2>2, <3>1, <3>2
    <3>4. UNCHANGED running
      BY <3>1, Zenon
    <3>5. UNCHANGED returned
      <4>1. CASE dpc' = dpc
        BY <4>1, Zenon
      <4>2. CASE \E d \in Destroyers : StrandDestroy(d)
        <5>1. PICK d \in Destroyers : Head(strand) = d /\ dpc' = [dpc EXCEPT ![d] = "relock"]
          BY <4>2, Zenon DEF StrandDestroy
        <5>2. dpc[d] = "strand"
          BY <2>1, <5>1, TailOfStrand, Zenon DEF OwnHandler
        <5>3. \A e \in Destroyers : dpc'[e] = "returned" <=> dpc[e] = "returned"
          BY <1>0, <5>1, <5>2, Zenon
        <5> QED
          BY <5>3, Zenon
      <4> QED
        BY <2>4, <4>1, <4>2, Zenon DEF StrandAfter, StrandCancel, destVars
    <3> QED
      BY <2>1, <3>3, <3>4, <3>5, Zenon DEF Contract!vars
  <2> QED
    BY <1>3, <2>3, <2>4, Zenon DEF Strand
<1>4. ASSUME NEW j \in Jobs, Job(j) PROVE [Contract!Next]_(Contract!vars)
  <2>1. Active(j) /\ \A i \in Jobs : i # j => job[i] # "calling"
    BY <1>4, Zenon DEF Job, JobLoop, CallReturns, CallThrows, Active, ActiveIsCurrent
  <2>2. UNCHANGED <<strand, destroyed, dpc>>
    BY <1>4, Zenon DEF Job, JobLoop, CallReturns, CallThrows, asyncVars, stateVars, destVars
  <2>3. UNCHANGED returned
    BY <2>2, Zenon
  <2>4. Cardinality(Triggers(strand)) \in Nat
    <3>1. "now" \in Handlers \cup Destroyers
      BY Zenon DEF Handlers
    <3> HIDE DEF Handlers
    <3> QED
      BY <1>0, <3>1, TriggersAfterAppend, Zenon
  <2>5. CASE job[j] = "calling" /\ pending' = pending /\ \E s \in {"loop", "threw"} : job' = [job EXCEPT ![j] = s]
    <3>1. running /\ ~running'
      <4>1. \A i \in Jobs : job'[i] # "calling"
        BY <1>0, <2>1, <2>5, Zenon
      <4> QED
        BY <2>5, <4>1, Zenon
    <3> QED
      BY <2>2, <2>3, <2>5, <3>1, Zenon DEF Contract!Next, Contract!Finish
  <2>6. CASE /\ job[j] # "calling" /\ ~destroyed /\ pending > 0 /\ pending' = pending - 1
             /\ job' = [job EXCEPT ![j] = "calling"]
    <3>1. ~running /\ running'
      <4>1. job'[j] = "calling"
        BY <1>0, <2>6, Zenon
      <4> QED
        BY <2>1, <2>6, <4>1, Zenon
    <3>2. due > 0 /\ due' = due - 1
      BY <1>0, <2>2, <2>4, <2>6
    <3> QED
      BY <2>2, <2>3, <2>6, <3>1, <3>2, Zenon DEF Contract!Next, Contract!Start
  <2>7. CASE job[j] # "calling" /\ pending' = pending /\ job' = [job EXCEPT ![j] = "done"]
    <3>1. UNCHANGED running
      <4>1. \A i \in Jobs : job[i] # "calling" /\ job'[i] # "calling"
        BY <1>0, <2>1, <2>7, Zenon
      <4> QED
        BY <4>1, Zenon
    <3> QED
      BY <2>2, <2>3, <2>7, <3>1, Zenon DEF Contract!vars
  <2> QED
    BY <1>4, <2>5, <2>6, <2>7, Zenon DEF Job, JobLoop, CallReturns, CallThrows, stateVars
<1>5. ASSUME NEW d \in Destroyers, Destroy(d) PROVE [Contract!Next]_(Contract!vars)
  <2>1. UNCHANGED <<pending, job>>
    BY <1>5, SMTT(30) DEF Destroy, DestroyCall, DestroyUnlock, DestroyRelock, DestroyJoined, stateVars, jobVars
  <2>2. due' = due
    <3>1. CASE strand' = strand
      BY <2>1, <3>1, Zenon
    <3>2. CASE strand' = Append(strand, d)
      <4>1. d \notin {"now", "fire"}
        BY DestroyersAssumption, Zenon DEF Handlers
      <4> HIDE DEF Handlers
      <4>2. Cardinality(Triggers(strand')) = Cardinality(Triggers(strand))
        BY <1>0, <3>2, <4>1, TriggersAfterAppend
      <4> QED
        BY <2>1, <4>2, Zenon
    <3> QED
      BY <1>5, <3>1, <3>2, Zenon DEF Destroy, DestroyCall, DestroyUnlock, DestroyRelock, DestroyJoined, asyncVars
  <2>3. UNCHANGED running
    BY <2>1, Zenon
  <2>4. CASE dpc'[d] = "returned"
    <3>1. dpc' = [dpc EXCEPT ![d] = "returned"]
      BY <1>0, <1>5, <2>4, Zenon DEF Destroy, DestroyCall, DestroyUnlock, DestroyRelock, DestroyJoined
    <3>2. returned' = returned \cup {d}
      BY <1>0, <3>1, SMTT(30)
    <3>3. destroyed /\ UNCHANGED destroyed
      BY <1>0, <1>5, <2>4, Zenon DEF Destroy, DestroyCall, DestroyUnlock, DestroyRelock, DestroyJoined,
                              DestroyedFirst, ReturnedIsQuiet
    <3>4. ~running
      <4>1. current' = NoJob /\ current' = current
        <5>1. IInv'
          BY <1>5, DestroyKeepsInv, Zenon
        <5> QED
          BY <1>5, <2>4, <5>1, Zenon DEF ReturnedIsQuiet, Destroy, DestroyCall, DestroyUnlock, DestroyRelock,
                                  DestroyJoined
      <4> QED
        BY <4>1, SMTT(30) DEF ActiveIsCurrent, Active, Jobs, NoJob
    <3> QED
      BY <2>2, <2>3, <3>2, <3>3, <3>4, Zenon DEF Contract!Next, Contract!Return
  <2>5. CASE dpc'[d] # "returned"
    <3>1. dpc[d] # "returned"
      BY <1>5, Zenon DEF Destroy, DestroyCall, DestroyUnlock, DestroyRelock, DestroyJoined
    <3>2. \A e \in Destroyers : e # d => dpc'[e] = dpc[e]
      BY <1>0, <1>5, Zenon DEF Destroy, DestroyCall, DestroyUnlock, DestroyRelock, DestroyJoined
    <3>3. UNCHANGED returned
      BY <2>5, <3>1, <3>2, SMTT(30)
    <3>4. destroyed' = destroyed \/ destroyed' = TRUE
      BY <1>5, Zenon DEF Destroy, DestroyCall, DestroyUnlock, DestroyRelock, DestroyJoined
    <3> QED
      BY <2>2, <2>3, <3>3, <3>4, ZenonT(60) DEF Contract!Next, Contract!Destroy, Contract!vars
  <2> QED
    BY <2>4, <2>5, Zenon
<1>6. CASE UNCHANGED vars
  BY <1>1, <1>6, Zenon DEF vars, asyncVars, stateVars, jobVars, destVars
<1> QED
  BY <1>2, <1>3, <1>4, <1>5, <1>6, Zenon DEF Next

\* The task implements the contract its owners rely on, for every number of
\* scheduling calls and of destroyers.
THEOREM TaskRefinesContract == Spec => ImplementsContract
<1>1. Init => Contract!Init
  <2> SUFFICES ASSUME Init PROVE Contract!Init
    OBVIOUS
  <2>1. Triggers(strand) = {}
    BY EmptySeq DEF Init, Triggers
  <2>2. pending + Cardinality(Triggers(strand)) = 0
    BY <2>1, FS_EmptySet DEF Init
  <2>3. (\E j \in Jobs : job[j] = "calling") = FALSE
    BY Zenon DEF Init
  <2>4. {d \in Destroyers : dpc[d] = "returned"} = {}
    BY Zenon DEF Init
  <2> QED
    BY <2>2, <2>3, <2>4, Zenon DEF Init, Contract!Init
<1> QED
  BY <1>1, StepImplements, Invariance, HandlersInvariance, PTL DEF Spec, ImplementsContract, Contract!Spec
=============================================================================
