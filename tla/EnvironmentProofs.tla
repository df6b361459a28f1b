-------------------------- MODULE EnvironmentProofs -------------------------
(***************************************************************************)
(* For any number of operations, owners and faults: the environment keeps  *)
(* a dead locator only by the window of reconnect_to_server, and nothing   *)
(* but one listener that is about to unlock m_mutex can be left after its  *)
(* destructor.  Both rest on two facts: a client that runs, or whose       *)
(* listener has still to run, is the locator or the one                    *)
(* reconnect_to_server is about to install; and there is never both.       *)
(*                                                                         *)
(* For any number of threads and any tasks: the thread pool it owns.  The  *)
(* inductive invariant adds to the type invariant what m_running says      *)
(* about a thread, and where each task is, without counting.  From it: the *)
(* one way in which the owners that share the pool can block it.           *)
(***************************************************************************)
EXTENDS Environment, PoolOwners, FiniteSetTheorems, SequenceTheorems, WellFoundedInduction, TLAPS

Gone == {g \in Clients : client[g] \in {"lost", "silent", "resetting", "told"}}

\* Each client that is gone has cost a fault.
FaultInv ==
    /\ faults \in 0 .. MaxFaults
    /\ IsFiniteSet(Gone) /\ Cardinality(Gone) <= faults

\* The locator and the client that will replace it.
LocatorInv ==
    /\ \A g \in Clients : client[g] \in {"started", "lost", "silent"} => g \in {m_locator, created}
    /\ reconnect \in {"start", "install"} => m_locator = NoClient
    /\ reconnect = "install" <=> created # NoClient
    /\ created # NoClient /\ client[created] \in {"lost", "silent", "resetting", "told"} => created \in early
    /\ \A g, h \in Clients : client[g] = "resetting" /\ client[h] = "resetting" => g = h
    /\ StaleOnlyByWindow

\* How far the destructor is.
DestructorInv ==
    /\ m_reconnect_locator_task.destroyed <=> destructor \in {"locator", "joining", "owners", "done"}
    /\ m_reconnect_locator_task.destroyed =>
           /\ m_reconnect_locator_task.pending = 0 /\ ~m_reconnect_locator_task.delayed
           /\ reconnect = "none"
    /\ destructor = "joining" => \A g \in Clients : client[g] # "started"
    /\ destructor \in {"owners", "done"} => \A g \in Clients : client[g] \notin {"started", "lost", "silent"}
    /\ destructor = "done" => \A p \in Owners : owners[p] # "registered"
    /\ \A g \in Clients : client[g] = "stopped" => destructor \in {"owners", "done"}

EnvInv == TypeOK /\ FaultInv /\ LocatorInv /\ DestructorInv

-----------------------------------------------------------------------------
\* NoClient is none of the clients.
LEMMA ClientNumbers == Clients \subseteq Nat /\ NoClient \notin Clients /\ 1 \in Clients
PROOF BY EnvironmentAssumption DEF Clients, NoClient

\* Steps that leave the clients alone keep the count of those that are gone.
LEMMA GoneUnchanged == FaultInv /\ UNCHANGED <<client, faults>> => FaultInv'
PROOF BY Zenon DEF FaultInv, Gone

\* A set of clients that shrinks has no larger count.
LEMMA GoneShrinks ==
    ASSUME FaultInv, Gone' \subseteq Gone, UNCHANGED faults
    PROVE  FaultInv'
<1>1. IsFiniteSet(Gone') /\ Cardinality(Gone') <= Cardinality(Gone)
  BY FS_Subset, Zenon DEF FaultInv
<1>2. Cardinality(Gone') \in Nat /\ Cardinality(Gone) \in Nat
  BY <1>1, FS_CardinalityType, Zenon DEF FaultInv
<1> QED
  BY <1>1, <1>2 DEF FaultInv

\* While reconnect_to_server starts a client, all of the used ones are gone, so
\* that there is one left: the bound on faults cannot stop a recovery.
LEMMA FreshExists ==
    ASSUME EnvInv, reconnect = "start"
    PROVE  Fresh \in Clients /\ client[Fresh] = "none"
<1>1. SUFFICES ASSUME \A g \in Clients : client[g] # "none" PROVE FALSE
  BY Zenon DEF Fresh
<1>2. ASSUME NEW g \in Clients PROVE g \in Gone
  <2>1. m_locator = NoClient /\ created = NoClient
    BY Zenon DEF EnvInv, LocatorInv
  <2>2. client[g] \notin {"started", "lost", "silent"}
    BY <2>1, ClientNumbers, Zenon DEF EnvInv, LocatorInv
  <2>3. client[g] # "stopped"
    BY Zenon DEF EnvInv, DestructorInv
  <2>4. client[g] \in ClientStates
    BY Zenon DEF EnvInv, TypeOK
  <2> QED
    BY <1>1, <2>2, <2>3, <2>4, Zenon DEF ClientStates, Gone
<1>3. Gone = 1 .. MaxFaults + 1
  BY <1>2, Zenon DEF Gone, Clients
<1>4. Cardinality(Gone) = MaxFaults + 1
  BY <1>3, FS_Interval, EnvironmentAssumption
<1> QED
  BY <1>4, EnvironmentAssumption DEF EnvInv, FaultInv

-----------------------------------------------------------------------------
\* Before anything happens.
LEMMA InitEnv == Init => EnvInv
<1> SUFFICES ASSUME Init PROVE EnvInv
  OBVIOUS
<1>1. TypeOK
  <2>1. operation \in [Operations -> [pc : {"idle", "wait", "operate"}, i : 0 .. NB_RETRIES, client : Clients \cup {NoClient}]]
    BY DEF Init, Idle, NB_RETRIES
  <2>2. client \in [Clients -> ClientStates]
    BY Zenon DEF Init, ClientStates
  <2> QED
    BY <2>1, <2>2, ClientNumbers, Zenon DEF Init, TypeOK
<1>2. FaultInv
  <2>1. Gone = {}
    BY Zenon DEF Init, Gone
  <2> QED
    BY <2>1, FS_EmptySet, EnvironmentAssumption DEF Init, FaultInv
<1>3. LocatorInv
  BY ClientNumbers, Zenon DEF Init, LocatorInv, StaleOnlyByWindow
<1>4. DestructorInv
  BY Zenon DEF Init, DestructorInv
<1> QED
  BY <1>1, <1>2, <1>3, <1>4, Zenon DEF EnvInv

\* locator_operation looks at the locator and changes none of it.
LEMMA OperationKeeps ==
    ASSUME EnvInv, NEW o \in Operations, OperationCalls(o) \/ OperationStep(o)
    PROVE  EnvInv'
<1> DEFINE Op == [pc : {"idle", "wait", "operate"}, i : 0 .. NB_RETRIES, client : Clients \cup {NoClient}]
<1>1. operation \in [Operations -> Op] /\ UNCHANGED operationVars /\ faults \in 0 .. MaxFaults
  BY Zenon DEF EnvInv, TypeOK, FaultInv, OperationCalls, OperationStep, TakesLocator, WaitTimesOut, OperationEnds,
         OperationTimesOut, OperationFails
<1>2. Idle \in Op /\ Retried(o) \in Op
  BY <1>1 DEF Idle, Retried, NB_RETRIES
<1>3. operation' \in [Operations -> Op]
  <2>1. CASE OperationCalls(o)
    BY <1>1, <2>1 DEF OperationCalls, NB_RETRIES
  <2>2. CASE TakesLocator(o)
    <3>1. operation' = [operation EXCEPT ![o] = [pc |-> "operate", i |-> operation[o].i, client |-> m_locator]]
      BY <2>2, Zenon DEF TakesLocator
    <3>2. m_locator \in Clients \cup {NoClient} /\ operation[o].i \in 0 .. NB_RETRIES
      BY <1>1, Zenon DEF EnvInv, TypeOK
    <3>3. [pc |-> "operate", i |-> operation[o].i, client |-> m_locator] \in Op
      BY <3>2, Zenon
    <3> QED
      BY <1>1, <3>1, <3>3, Zenon
  <2>3. CASE WaitTimesOut(o) \/ OperationEnds(o) \/ OperationTimesOut(o) \/ OperationFails(o)
    BY <1>1, <1>2, <2>3, Zenon DEF WaitTimesOut, OperationEnds, OperationTimesOut, OperationFails
  <2> QED
    BY <2>1, <2>2, <2>3, Zenon DEF OperationStep
<1>4. TypeOK'
  BY <1>1, <1>3, ZenonT(60) DEF EnvInv, TypeOK, operationVars
<1>5. FaultInv'
  <2>1. faults' \in 0 .. MaxFaults /\ faults' >= faults
    BY <1>1, EnvironmentAssumption
       DEF OperationCalls, OperationStep, TakesLocator, WaitTimesOut, OperationEnds, OperationTimesOut, OperationFails
  <2>2. Gone' = Gone
    BY <1>1, Zenon DEF Gone, operationVars
  <2>3. Cardinality(Gone) \in Nat
    BY FS_CardinalityType, Zenon DEF EnvInv, FaultInv
  <2> QED
    BY <1>1, <2>1, <2>2, <2>3 DEF EnvInv, FaultInv
<1>6. LocatorInv' /\ DestructorInv'
  BY <1>1, Zenon DEF EnvInv, LocatorInv, DestructorInv, StaleOnlyByWindow, operationVars
<1> QED
  BY <1>4, <1>5, <1>6, Zenon DEF EnvInv

\* A client that is lost is the locator, or is early.
LEMMA LossKeeps ==
    ASSUME EnvInv, NEW g \in Current, ClientLost(g)
    PROVE  EnvInv'
<1>1. g \in Clients /\ g # NoClient /\ client[g] = "started" /\ faults < MaxFaults /\ faults' = faults + 1
  BY ClientNumbers, Zenon DEF EnvInv, TypeOK, Current, ClientLost
<1>2. PICK how \in {"lost", "silent"} : client' = [client EXCEPT ![g] = how]
  BY Zenon DEF ClientLost
<1>3. early' = IF g # m_locator THEN early \cup {g} ELSE early
  BY Zenon DEF ClientLost
<1>4. UNCHANGED <<m_locator, operation, m_reconnect_locator_task, reconnect, created, owners, destructor, wedged, torn>>
  BY Zenon DEF ClientLost
<1>5. TypeOK'
  <2>1. client' \in [Clients -> ClientStates]
    BY <1>2, Zenon DEF EnvInv, TypeOK, ClientStates
  <2> QED
    BY <1>1, <1>3, <1>4, <2>1, ZenonT(60) DEF EnvInv, TypeOK
<1>6. FaultInv'
  <2>1. Gone' = Gone \cup {g}
    BY <1>1, <1>2, Zenon DEF Gone, EnvInv, TypeOK
  <2>2. IsFiniteSet(Gone') /\ Cardinality(Gone') <= Cardinality(Gone) + 1
    <3>1. Cardinality(Gone) \in Nat
      BY FS_CardinalityType, Zenon DEF EnvInv, FaultInv
    <3> QED
      BY <2>1, <3>1, FS_AddElement DEF EnvInv, FaultInv
  <2>3. Cardinality(Gone) \in Nat /\ Cardinality(Gone') \in Nat
    BY <2>2, FS_CardinalityType, Zenon DEF EnvInv, FaultInv
  <2> QED
    BY <1>1, <2>2, <2>3, EnvironmentAssumption DEF EnvInv, FaultInv
<1>7. LocatorInv'
  <2>1. \A h \in Clients : client'[h] \in {"started", "lost", "silent"} => client[h] \in {"started", "lost", "silent"}
    BY <1>1, <1>2, Zenon DEF EnvInv, TypeOK
  <2>2. \A h \in Clients : h # g => client'[h] = client[h]
    BY <1>2, Zenon DEF EnvInv, TypeOK
  <2>3. client'[g] \notin {"resetting", "told"}
    BY <1>1, <1>2, Zenon DEF EnvInv, TypeOK
  <2>4. created = NoClient \/ m_locator = NoClient
    BY Zenon DEF EnvInv, LocatorInv
  <2>5. created # NoClient /\ client'[created] \in {"lost", "silent", "resetting", "told"} => created \in early'
    BY <1>1, <1>3, <2>2, <2>4, Zenon DEF EnvInv, LocatorInv, TypeOK
  <2>6. StaleOnlyByWindow'
    BY <1>1, <1>3, <1>4, <2>2, <2>3, Zenon DEF EnvInv, LocatorInv, StaleOnlyByWindow, TypeOK
  <2>7. \A h, k \in Clients : client'[h] = "resetting" /\ client'[k] = "resetting" => h = k
    BY <2>2, <2>3, Zenon DEF EnvInv, LocatorInv
  <2> QED
    BY <1>4, <2>1, <2>5, <2>6, <2>7, Zenon DEF EnvInv, LocatorInv
<1>8. DestructorInv'
  <2>1. destructor \notin {"joining", "owners", "done"}
    BY <1>1, Zenon DEF EnvInv, DestructorInv
  <2>2. \A h \in Clients : client'[h] = "stopped" => client[h] = "stopped"
    BY <1>1, <1>2, Zenon DEF EnvInv, TypeOK
  <2> QED
    BY <1>4, <2>1, <2>2, Zenon DEF EnvInv, DestructorInv
<1> QED
  BY <1>5, <1>6, <1>7, <1>8, Zenon DEF EnvInv

\* schedule_now of the recovery task.
LEMMA ScheduledTask ==
    ASSUME NEW task \in [pending : Nat, delayed : BOOLEAN, destroyed : BOOLEAN]
    PROVE  /\ Scheduled(task) \in [pending : Nat, delayed : BOOLEAN, destroyed : BOOLEAN]
           /\ Scheduled(task).destroyed = task.destroyed
           /\ task.destroyed => Scheduled(task) = task
<1>1. CASE task.destroyed
  BY <1>1, Zenon DEF Scheduled
<1>2. CASE ~task.destroyed
  <2>1. Scheduled(task) = [pending |-> task.pending + 1, delayed |-> FALSE, destroyed |-> task.destroyed]
    BY <1>2, Zenon DEF Scheduled
  <2>2. task.pending \in Nat /\ task.destroyed \in BOOLEAN
    OBVIOUS
  <2> QED
    BY <1>2, <2>1, <2>2
<1> QED
  BY <1>1, <1>2, Zenon

\* The listener takes m_mutex and resets m_locator: the client it runs for was
\* the locator, or is about to be.
LEMMA ResetKeeps ==
    ASSUME EnvInv, NEW g \in Clients, ShutdownResets(g)
    PROVE  EnvInv'
<1>1. /\ client[g] \in {"lost", "silent"} /\ client' = [client EXCEPT ![g] = "resetting"] /\ m_locator' = NoClient
      /\ \A h \in Clients : client[h] # "resetting"
      /\ UNCHANGED <<early, operation, m_reconnect_locator_task, reconnect, created, owners, destructor, faults>>
  BY Zenon DEF ShutdownResets, LocatorReset, Unlocked
<1>2. wedged' \in BOOLEAN /\ torn' \in BOOLEAN
  BY Zenon DEF ShutdownResets, EnvInv, TypeOK
<1>3. TypeOK'
  <2>1. client' \in [Clients -> ClientStates]
    BY <1>1, Zenon DEF EnvInv, TypeOK, ClientStates
  <2> QED
    BY <1>1, <1>2, <2>1, ZenonT(60) DEF EnvInv, TypeOK
<1>4. FaultInv'
  <2>1. Gone' = Gone
    BY <1>1, Zenon DEF Gone, EnvInv, TypeOK
  <2> QED
    BY <1>1, <2>1, Zenon DEF EnvInv, FaultInv
<1>5. LocatorInv'
  <2>1. \A h \in Clients : client'[h] = "resetting" <=> h = g
    BY <1>1, Zenon DEF EnvInv, TypeOK
  <2>2. \A h \in Clients : h # g => client'[h] = client[h]
    BY <1>1, Zenon DEF EnvInv, TypeOK
  <2>3. created = NoClient \/ m_locator = NoClient
    BY Zenon DEF EnvInv, LocatorInv
  <2>4. g \in {m_locator, created}
    BY <1>1, Zenon DEF EnvInv, LocatorInv
  <2>5. \A h \in Clients : client'[h] \in {"started", "lost", "silent"} => h \in {m_locator', created'}
    BY <1>1, <2>1, <2>2, <2>3, <2>4, ClientNumbers, Zenon DEF EnvInv, LocatorInv
  <2>6. created # NoClient /\ client'[created] \in {"lost", "silent", "resetting", "told"} => created \in early
    BY <1>1, <2>2, Zenon DEF EnvInv, LocatorInv, TypeOK
  <2>7. \A h, k \in Clients : client'[h] = "resetting" /\ client'[k] = "resetting" => h = k
    BY <2>1, Zenon
  <2> QED
    BY <1>1, <2>5, <2>6, <2>7, Zenon DEF EnvInv, LocatorInv, StaleOnlyByWindow
<1>6. DestructorInv'
  <2>1. \A h \in Clients : client'[h] # "resetting" => client'[h] = client[h]
    BY <1>1, Zenon DEF EnvInv, TypeOK
  <2> QED
    BY <1>1, <2>1, Zenon DEF EnvInv, DestructorInv
<1> QED
  BY <1>3, <1>4, <1>5, <1>6, Zenon DEF EnvInv

\* Then it calls schedule_now, which does nothing once the task is destroyed, and
\* unlocks.
LEMMA ScheduleKeeps ==
    ASSUME EnvInv, NEW g \in Clients, ShutdownSchedules(g)
    PROVE  EnvInv'
<1>1. /\ client[g] = "resetting" /\ client' = [client EXCEPT ![g] = "told"]
      /\ m_reconnect_locator_task' = Scheduled(m_reconnect_locator_task)
      /\ UNCHANGED <<m_locator, early, operation, reconnect, created, owners, destructor, wedged, torn, faults>>
  BY Zenon DEF ShutdownSchedules
<1>2. /\ m_reconnect_locator_task' \in [pending : Nat, delayed : BOOLEAN, destroyed : BOOLEAN]
      /\ m_reconnect_locator_task'.destroyed = m_reconnect_locator_task.destroyed
      /\ m_reconnect_locator_task.destroyed => m_reconnect_locator_task' = m_reconnect_locator_task
  BY <1>1, ScheduledTask, Zenon DEF EnvInv, TypeOK
<1>3. TypeOK'
  <2>1. client' \in [Clients -> ClientStates]
    BY <1>1, Zenon DEF EnvInv, TypeOK, ClientStates
  <2> QED
    BY <1>1, <1>2, <2>1, ZenonT(60) DEF EnvInv, TypeOK
<1>4. FaultInv'
  <2>1. Gone' = Gone
    BY <1>1, Zenon DEF Gone, EnvInv, TypeOK
  <2> QED
    BY <1>1, <2>1, Zenon DEF EnvInv, FaultInv
<1>5. \A h \in Clients : client'[h] = IF h = g THEN "told" ELSE client[h]
  BY <1>1, Zenon DEF EnvInv, TypeOK
<1>6. LocatorInv'
  <2>1. \A h \in Clients : client'[h] \in {"started", "lost", "silent", "resetting"} => client'[h] = client[h]
    BY <1>5, Zenon
  <2>2. \A h \in Clients : client'[h] = "told" => client[h] \in {"resetting", "told"}
    BY <1>1, <1>5, Zenon
  <2>3. created # NoClient /\ client'[created] \in {"lost", "silent", "resetting", "told"} => created \in early
    BY <2>1, <2>2, Zenon DEF EnvInv, LocatorInv, TypeOK
  <2>4. StaleOnlyByWindow'
    BY <1>1, <2>1, <2>2, Zenon DEF EnvInv, LocatorInv, StaleOnlyByWindow, TypeOK
  <2> QED
    BY <1>1, <2>1, <2>3, <2>4, Zenon DEF EnvInv, LocatorInv
<1>7. DestructorInv'
  <2>1. \A h \in Clients : client'[h] # "told" => client'[h] = client[h]
    BY <1>5, Zenon
  <2> QED
    BY <1>1, <1>2, <2>1, Zenon DEF EnvInv, DestructorInv
<1> QED
  BY <1>3, <1>4, <1>6, <1>7, Zenon DEF EnvInv

\* reconnect_to_server and its timer.
LEMMA ReconnectKeeps ==
    ASSUME EnvInv, RetryExpires \/ ReconnectStep
    PROVE  EnvInv'
<1> DEFINE Task == [pending : Nat, delayed : BOOLEAN, destroyed : BOOLEAN]
<1>0. m_reconnect_locator_task \in Task
  BY Zenon DEF EnvInv, TypeOK
<1>1. CASE RetryExpires \/ ReconnectBegins \/ ReconnectFails
  <2>1. UNCHANGED <<m_locator, client, early, operation, created, owners, destructor, wedged, torn>>
    BY <1>1, Zenon DEF RetryExpires, ReconnectBegins, ReconnectFails
  <2>2. ~m_reconnect_locator_task.destroyed
    BY <1>1 DEF EnvInv, DestructorInv, RetryExpires, ReconnectBegins, ReconnectFails
  <2>3. m_reconnect_locator_task' \in Task /\ ~m_reconnect_locator_task'.destroyed
    <3>1. CASE RetryExpires
      <4>1. m_reconnect_locator_task' =
              [pending |-> m_reconnect_locator_task.pending + 1, delayed |-> FALSE,
               destroyed |-> m_reconnect_locator_task.destroyed]
        BY <1>0, <3>1, Zenon DEF RetryExpires
      <4> QED
        BY <1>0, <2>2, <4>1
    <3>2. CASE ReconnectBegins
      <4>1. m_reconnect_locator_task' =
              [m_reconnect_locator_task EXCEPT !.pending = m_reconnect_locator_task.pending - 1]
        BY <3>2, Zenon DEF ReconnectBegins
      <4>2. m_reconnect_locator_task.pending - 1 \in Nat
        BY <1>0, <3>2 DEF ReconnectBegins
      <4> QED
        BY <1>0, <2>2, <4>1, <4>2, Zenon
    <3>3. CASE ReconnectFails
      <4>1. m_reconnect_locator_task' = [m_reconnect_locator_task EXCEPT !.delayed = TRUE]
        BY <1>0, <2>2, <3>3, Zenon DEF ReconnectFails, RetriedLater
      <4> QED
        BY <1>0, <2>2, <4>1, Zenon
    <3> QED
      BY <1>1, <3>1, <3>2, <3>3, Zenon
  <2>4. /\ reconnect' \in {"none", "start", reconnect}
        /\ reconnect' = "start" => m_locator = NoClient
        /\ reconnect' = "install" => reconnect = "install"
        /\ reconnect = "install" => reconnect' = "install"
    BY <1>1, Zenon DEF RetryExpires, ReconnectBegins, ReconnectFails, EnvInv, LocatorInv
  <2>5. faults' \in 0 .. MaxFaults /\ faults' >= faults
    BY <1>1, EnvironmentAssumption DEF RetryExpires, ReconnectBegins, ReconnectFails, EnvInv, FaultInv
  <2>6. TypeOK'
    BY <2>1, <2>3, <2>4, Zenon DEF EnvInv, TypeOK
  <2>7. FaultInv'
    <3>1. Gone' = Gone
      BY <2>1, Zenon DEF Gone
    <3>2. Cardinality(Gone) \in Nat
      BY FS_CardinalityType, Zenon DEF EnvInv, FaultInv
    <3> QED
      BY <2>5, <3>1, <3>2 DEF EnvInv, FaultInv
  <2>8. LocatorInv'
    BY <2>1, <2>4, Zenon DEF EnvInv, LocatorInv, StaleOnlyByWindow, TypeOK
  <2>9. DestructorInv'
    BY <2>1, <2>2, <2>3, Zenon DEF EnvInv, DestructorInv
  <2> QED
    BY <2>6, <2>7, <2>8, <2>9, Zenon DEF EnvInv
<1>2. CASE ReconnectStarts
  <2>1. Fresh \in Clients /\ client[Fresh] = "none" /\ Fresh # NoClient
    BY <1>2, FreshExists, ClientNumbers, Zenon DEF ReconnectStarts
  <2>2. /\ reconnect = "start" /\ client' = [client EXCEPT ![Fresh] = "started"] /\ created' = Fresh
        /\ reconnect' = "install"
        /\ UNCHANGED <<m_locator, early, operation, m_reconnect_locator_task, owners, destructor, wedged, torn, faults>>
    BY <1>2, Zenon DEF ReconnectStarts
  <2>3. m_locator = NoClient /\ created = NoClient
    BY <2>2, Zenon DEF EnvInv, LocatorInv
  <2>4. TypeOK'
    <3>1. client' \in [Clients -> ClientStates]
      BY <2>1, <2>2, Zenon DEF EnvInv, TypeOK, ClientStates
    <3> QED
      BY <2>1, <2>2, <3>1, Zenon DEF EnvInv, TypeOK
  <2>5. FaultInv'
    <3>1. Gone' = Gone
      BY <2>1, <2>2, Zenon DEF Gone, EnvInv, TypeOK
    <3> QED
      BY <2>2, <3>1, Zenon DEF EnvInv, FaultInv
  <2>6. LocatorInv'
    <3>1. \A g \in Clients : client'[g] \in {"started", "lost", "silent"} => g = Fresh
      BY <2>1, <2>2, <2>3, ClientNumbers, Zenon DEF EnvInv, LocatorInv, TypeOK
    <3>2. client'[Fresh] = "started"
      BY <2>1, <2>2, Zenon DEF EnvInv, TypeOK
    <3>3. \A g \in Clients : client'[g] = "resetting" => client[g] = "resetting"
      BY <2>1, <2>2, Zenon DEF EnvInv, TypeOK
    <3>4. \A g, h \in Clients : client'[g] = "resetting" /\ client'[h] = "resetting" => g = h
      BY <3>3, Zenon DEF EnvInv, LocatorInv
    <3> QED
      BY <2>1, <2>2, <2>3, <3>1, <3>2, <3>4, Zenon DEF LocatorInv, StaleOnlyByWindow
  <2>7. DestructorInv'
    <3>1. destructor \in {"none", "task"} /\ ~m_reconnect_locator_task.destroyed
      BY <2>2, Zenon DEF EnvInv, DestructorInv, TypeOK
    <3>2. \A g \in Clients : client'[g] = "stopped" => client[g] = "stopped"
      BY <2>1, <2>2, Zenon DEF EnvInv, TypeOK
    <3> QED
      BY <2>2, <3>1, <3>2, Zenon DEF EnvInv, DestructorInv
  <2> QED
    BY <2>4, <2>5, <2>6, <2>7, Zenon DEF EnvInv
<1>3. CASE ReconnectInstalls
  <2>1. /\ reconnect = "install" /\ m_locator' = created /\ created' = NoClient /\ reconnect' = "none"
        /\ UNCHANGED <<client, early, operation, m_reconnect_locator_task, owners, destructor, wedged, torn, faults>>
    BY <1>3, Zenon DEF ReconnectInstalls
  <2>2. TypeOK' /\ FaultInv'
    BY <2>1, GoneUnchanged, Zenon DEF EnvInv, TypeOK
  <2>3. LocatorInv'
    BY <2>1, ClientNumbers, ZenonT(60) DEF EnvInv, LocatorInv, StaleOnlyByWindow
  <2>4. DestructorInv'
    BY <2>1, Zenon DEF EnvInv, DestructorInv
  <2> QED
    BY <2>2, <2>3, <2>4, Zenon DEF EnvInv
<1> QED
  BY <1>1, <1>2, <1>3, Zenon DEF ReconnectStep

\* Registration, and the steps of the destructor.
LEMMA DestructorKeeps ==
    ASSUME EnvInv,
           \/ \E p \in Owners : RegisterOwner(p) \/ UnregisterOwner(p)
           \/ Destroys \/ DestructorStep
    PROVE  EnvInv'
<1>1. CASE UNCHANGED ownerVars
  <2>1. /\ owners' \in [Owners -> {"none", "registered", "stopped"}]
        /\ destructor' \in {"none", "task", "locator", "joining", "owners", "done"}
    BY Zenon DEF EnvInv, TypeOK, RegisterOwner, UnregisterOwner, Destroys, DestructorStep, DestroysTask, StopsLocator,
           LocatorJoined, StopsOwners
  <2>2. TypeOK' /\ FaultInv' /\ LocatorInv'
    BY <1>1, <2>1, GoneUnchanged, Zenon DEF EnvInv, TypeOK, LocatorInv, StaleOnlyByWindow, ownerVars
  <2>3. DestructorInv'
    <3>1. ASSUME NEW p \in Owners, RegisterOwner(p) \/ UnregisterOwner(p) PROVE DestructorInv'
      BY <1>1, <3>1, Zenon DEF EnvInv, DestructorInv, ownerVars, RegisterOwner, UnregisterOwner
    <3>2. CASE Destroys
      BY <1>1, <3>2, Zenon DEF EnvInv, DestructorInv, ownerVars, Destroys
    <3>3. CASE DestroysTask
      BY <1>1, <3>3 DEF EnvInv, DestructorInv, ownerVars, DestroysTask
    <3>4. CASE StopsLocator
      <4>1. created = NoClient
        BY <3>4, Zenon DEF EnvInv, LocatorInv, DestructorInv, StopsLocator
      <4>2. CASE m_locator # NoClient /\ client[m_locator] \in {"lost", "silent"} /\ destructor' = "joining"
        <5>1. \A g \in Clients : client[g] # "started"
          BY <4>1, <4>2, ClientNumbers, Zenon DEF EnvInv, LocatorInv
        <5> QED
          BY <1>1, <3>4, <4>2, <5>1, Zenon DEF EnvInv, DestructorInv, ownerVars, StopsLocator
      <4>3. CASE /\ destructor' = "owners"
                 /\ client' = [g \in Clients |-> IF g = m_locator THEN "stopped" ELSE client[g]]
        <5>1. \A g \in Clients : client'[g] = IF g = m_locator THEN "stopped" ELSE client[g]
          BY <4>3, Zenon
        <5>2. \A g \in Clients : client[g] \notin {"started", "lost", "silent"}
          BY <1>1, <4>1, <5>1, ClientNumbers, Zenon DEF EnvInv, LocatorInv, ownerVars
        <5> QED
          BY <1>1, <3>4, <4>3, <5>2, Zenon DEF EnvInv, DestructorInv, ownerVars, StopsLocator
      <4> QED
        BY <3>4, <4>2, <4>3, Zenon DEF StopsLocator
    <3>5. CASE LocatorJoined
      BY <1>1, <3>5, Zenon DEF EnvInv, DestructorInv, ownerVars, LocatorJoined
    <3>6. CASE StopsOwners
      <4>1. \A p \in Owners : owners'[p] # "registered"
        BY <3>6, Zenon DEF StopsOwners
      <4> QED
        BY <1>1, <3>6, <4>1, Zenon DEF EnvInv, DestructorInv, ownerVars, StopsOwners
    <3> QED
      BY <3>1, <3>2, <3>3, <3>4, <3>5, <3>6, Zenon DEF DestructorStep
  <2> QED
    BY <2>2, <2>3, Zenon DEF EnvInv
<1>2. CASE DestroysTask
  <2>1. /\ destructor = "task" /\ reconnect = "none" /\ destructor' = "locator"
        /\ m_reconnect_locator_task' = [pending |-> 0, delayed |-> FALSE, destroyed |-> TRUE]
        /\ UNCHANGED <<m_locator, client, early, operation, reconnect, created, owners, wedged, torn, faults>>
    BY <1>2, Zenon DEF DestroysTask, TaskQuiet
  <2>2. TypeOK' /\ FaultInv' /\ LocatorInv'
    BY <2>1, GoneUnchanged, Zenon DEF EnvInv, TypeOK, LocatorInv, StaleOnlyByWindow
  <2>3. DestructorInv'
    BY <2>1, Zenon DEF EnvInv, DestructorInv
  <2> QED
    BY <2>2, <2>3, Zenon DEF EnvInv
<1>3. CASE StopsLocator /\ ~UNCHANGED ownerVars
  <2>1. /\ destructor = "locator" /\ destructor' = "owners"
        /\ client' = [g \in Clients |-> IF g = m_locator THEN "stopped" ELSE client[g]]
        /\ UNCHANGED <<m_locator, early, operation, m_reconnect_locator_task, reconnect, created, owners, wedged, torn, faults>>
    BY <1>3, Zenon DEF StopsLocator, ownerVars
  <2>2. created = NoClient /\ reconnect = "none" /\ m_reconnect_locator_task.destroyed
    BY <2>1, Zenon DEF EnvInv, LocatorInv, DestructorInv
  <2>3. \A g \in Clients : client'[g] \notin {"started", "lost", "silent"}
    BY <2>1, <2>2, ClientNumbers, Zenon DEF EnvInv, LocatorInv
  <2>4. TypeOK'
    <3>1. client' \in [Clients -> ClientStates]
      BY <2>1, Zenon DEF EnvInv, TypeOK, ClientStates
    <3> QED
      BY <2>1, <3>1, Zenon DEF EnvInv, TypeOK
  <2>5. FaultInv'
    <3>1. Gone' \subseteq Gone
      BY <2>1, Zenon DEF Gone
    <3> QED
      BY <2>1, <3>1, GoneShrinks, Zenon DEF EnvInv
  <2>6. LocatorInv'
    <3>1. m_locator # NoClient => client'[m_locator] = "stopped"
      BY <2>1, Zenon DEF EnvInv, TypeOK
    <3>2. \A g \in Clients : client'[g] = "resetting" => client[g] = "resetting"
      BY <2>1, Zenon
    <3>3. \A g, h \in Clients : client'[g] = "resetting" /\ client'[h] = "resetting" => g = h
      BY <3>2, Zenon DEF EnvInv, LocatorInv
    <3> QED
      BY <2>1, <2>2, <2>3, <3>1, <3>3, Zenon DEF LocatorInv, StaleOnlyByWindow
  <2>7. DestructorInv'
    BY <2>1, <2>2, <2>3, Zenon DEF EnvInv, DestructorInv
  <2> QED
    BY <2>4, <2>5, <2>6, <2>7, Zenon DEF EnvInv
<1> QED
  BY <1>1, <1>2, <1>3, Zenon
     DEF RegisterOwner, UnregisterOwner, Destroys, DestructorStep, LocatorJoined, StopsOwners

-----------------------------------------------------------------------------
\* The invariant holds in every behaviour of the environment.
LEMMA EnvInvHolds == Spec => []EnvInv
<1>1. EnvInv /\ [Next]_vars => EnvInv'
  <2>1. SUFFICES ASSUME EnvInv, [Next]_vars PROVE EnvInv'
    OBVIOUS
  <2>2. CASE UNCHANGED vars
    <3>1. TypeOK' /\ FaultInv'
      BY <2>1, <2>2, GoneUnchanged, ZenonT(60) DEF EnvInv, TypeOK, vars
    <3>2. LocatorInv' /\ DestructorInv'
      BY <2>1, <2>2, Zenon DEF EnvInv, LocatorInv, StaleOnlyByWindow, DestructorInv, vars
    <3> QED
      BY <3>1, <3>2, Zenon DEF EnvInv
  <2> QED
    BY <2>1, <2>2, OperationKeeps, LossKeeps, ResetKeeps, ScheduleKeeps, ReconnectKeeps, DestructorKeeps, Zenon
       DEF Next, handle_locator_shutdown
<1> QED
  BY <1>1, InitEnv, PTL DEF Spec

\* Whatever is lost and whenever, the environment keeps a locator whose loss it
\* was told of only if this happened before reconnect_to_server stored it.
THEOREM StaleLocator == Spec => []StaleOnlyByWindow
<1>1. EnvInv => StaleOnlyByWindow
  BY Zenon DEF EnvInv, LocatorInv
<1> QED
  BY <1>1, EnvInvHolds, PTL

\* After ~EnvironmentImpl no owner, no client and no reconnection is left, and of
\* the listeners at most one, which has already reset m_locator, for any number
\* of owners and of clients used.
THEOREM NobodyOutlives == Spec => []NothingOutlives
<1>1. EnvInv => NothingOutlives
  BY Zenon DEF EnvInv, LocatorInv, DestructorInv, NothingOutlives
<1> QED
  BY <1>1, EnvInvHolds, PTL

\* Every variable keeps its type: an operation is tried at most three times, and
\* there is a client for every attempt to reconnect.
THEOREM EnvironmentTypes == Spec => []TypeOK
<1>1. EnvInv => TypeOK
  BY Zenon DEF EnvInv
<1> QED
  BY <1>1, EnvInvHolds, PTL

-----------------------------------------------------------------------------
(* The thread pool                                                         *)

\* m_running is set exactly while the thread is inside run_work_thread.
RunningIsAlive ==
    \A t \in Threads : running[t] <=> tpc[t] \in {"spawned", "executing", "waiting"}

\* A task is with one thread or at one place of the overflow queue; it is
\* submitted before and not yet executed, and an executed task is nowhere.
HeldOnce ==
    \A s, t \in Threads : current[s] = current[t] /\ current[s] # NoTask => s = t
QueuedOnce ==
    \A i, j \in DOMAIN overflow : overflow[i] = overflow[j] => i = j
NotBoth ==
    \A t \in Threads : \A i \in DOMAIN overflow : current[t] # overflow[i]
HeldIsPending ==
    \A t \in Threads : current[t] # NoTask =>
        current[t] \in submitted /\ executed[current[t]] = 0
QueuedIsPending ==
    \A i \in DOMAIN overflow : overflow[i] \in submitted /\ executed[overflow[i]] = 0
ExecutedOnce ==
    \A k \in Tasks : /\ executed[k] \in {0, 1}
                     /\ k \notin submitted => executed[k] = 0
PendingIsSomewhere ==
    \A k \in submitted : executed[k] = 0 =>
        \/ \E t \in Threads : current[t] = k
        \/ \E i \in DOMAIN overflow : overflow[i] = k

PoolInv ==
    /\ PoolTypeOK
    /\ RunningIsAlive
    /\ OverflowOnlyWhenBusy
    /\ NoTaskOnStoppedThread
    /\ HeldOnce /\ QueuedOnce /\ NotBoth
    /\ HeldIsPending /\ QueuedIsPending /\ ExecutedOnce /\ PendingIsSomewhere

-----------------------------------------------------------------------------
\* find_available_thread finds a thread of the set it looks for, the first one.
LEMMA MinIsMember ==
    ASSUME NEW S, S \subseteq Threads, S # {}
    PROVE  Min(S) \in S
<1>1. S \subseteq Nat
  BY NbThreadsAssumption DEF Threads
<1>2. PICK x \in S : \A y \in S : ~(<<y, x>> \in OpToRel(<, Nat))
  BY <1>1, WFMin, NatLessThanWellFounded, Zenon
<1>3. \A y \in S : ~(y < x)
  BY <1>1, <1>2, Zenon DEF OpToRel
<1>4. \A y \in S : x =< y
  BY <1>1, <1>3
<1> QED
  BY <1>4, Zenon DEF Min

\* The overflow queue without its front.
LEMMA TailOfOverflow ==
    ASSUME NEW q \in Seq(Tasks), q # <<>>
    PROVE  /\ Head(q) \in Tasks
           /\ Tail(q) \in Seq(Tasks)
           /\ Head(q) = q[1] /\ 1 \in DOMAIN q
           /\ \A i \in DOMAIN Tail(q) : i + 1 \in DOMAIN q /\ Tail(q)[i] = q[i + 1]
           /\ \A i \in DOMAIN q : i # 1 => i - 1 \in DOMAIN Tail(q) /\ Tail(q)[i - 1] = q[i]
<1>1. Len(q) \in Nat /\ Len(q) > 0 /\ DOMAIN q = 1 .. Len(q)
  BY EmptySeq, LenProperties
<1>2. Tail(q) \in Seq(Tasks) /\ Len(Tail(q)) = Len(q) - 1
      /\ \A i \in 1 .. Len(Tail(q)) : Tail(q)[i] = q[i + 1]
  BY HeadTailProperties, Zenon
<1>3. DOMAIN Tail(q) = 1 .. Len(q) - 1
  BY <1>2, LenProperties, Zenon
<1> QED
  BY <1>1, <1>2, <1>3, ElementOfSeq

-----------------------------------------------------------------------------
\* The pool starts with no thread and no task: the inductive invariant holds.
LEMMA InitPool == PoolInit => PoolInv
<1> SUFFICES ASSUME PoolInit PROVE PoolInv
  OBVIOUS
<1>1. PoolTypeOK
  <2>1. overflow \in Seq(Tasks)
    BY EmptySeq, Zenon DEF PoolInit
  <2>2. running \in [Threads -> BOOLEAN] /\ executed \in [Tasks -> Nat]
    BY Zenon DEF PoolInit
  <2>3. tpc \in [Threads -> ThreadStates] /\ current \in [Threads -> Tasks \cup {NoTask}]
    BY Zenon DEF PoolInit, ThreadStates
  <2>4. \A t \in Threads : tpc[t] # "executing"
    BY Zenon DEF PoolInit
  <2> QED
    BY <2>1, <2>2, <2>3, <2>4, Zenon DEF PoolInit, PoolTypeOK
<1>2. RunningIsAlive /\ NoTaskOnStoppedThread /\ OverflowOnlyWhenBusy
  BY Zenon DEF PoolInit, RunningIsAlive, NoTaskOnStoppedThread, OverflowOnlyWhenBusy
<1>3. HeldOnce /\ HeldIsPending /\ ExecutedOnce /\ PendingIsSomewhere
  BY Zenon DEF PoolInit, HeldOnce, HeldIsPending, ExecutedOnce, PendingIsSomewhere
<1>4. DOMAIN overflow = {}
  BY DEF PoolInit
<1>5. QueuedOnce /\ NotBoth /\ QueuedIsPending
  BY <1>4, Zenon DEF QueuedOnce, NotBoth, QueuedIsPending
<1> QED
  BY <1>1, <1>2, <1>3, <1>5, Zenon DEF PoolInv

-----------------------------------------------------------------------------
\* run_task gives the task to an idle or a stopped thread, or queues it.
LEMMA AssignKeepsInv ==
    ASSUME PoolInv, NEW k \in Tasks, k \notin submitted, ~quitting, NEW t \in Threads,
           current[t] = NoTask,
           current' = [current EXCEPT ![t] = k],
           submitted' = submitted \cup {k},
           UNCHANGED <<overflow, quitting, joined, executed>>,
           \/ running[t] /\ UNCHANGED <<running, tpc>>
           \/ ~running[t] /\ start_thread(t)
    PROVE  PoolInv'
<1> USE NoTaskAssumption DEF PoolInv, PoolTypeOK
<1>1. PoolTypeOK'
  BY Zenon DEF start_thread, ThreadStates
<1>2. RunningIsAlive' /\ OverflowOnlyWhenBusy' /\ NoTaskOnStoppedThread'
  BY Zenon DEF RunningIsAlive, OverflowOnlyWhenBusy, NoTaskOnStoppedThread, start_thread
<1>3. (\A s \in Threads : current[s] # k) /\ (\A i \in DOMAIN overflow : overflow[i] # k)
  BY Zenon DEF HeldIsPending, QueuedIsPending
<1>4. HeldOnce' /\ QueuedOnce' /\ NotBoth'
  BY <1>3, Zenon DEF HeldOnce, QueuedOnce, NotBoth
<1>5. HeldIsPending' /\ QueuedIsPending' /\ ExecutedOnce'
  BY Zenon DEF HeldIsPending, QueuedIsPending, ExecutedOnce
<1>6. PendingIsSomewhere'
  BY Zenon DEF PendingIsSomewhere
<1> QED
  BY <1>1, <1>2, <1>4, <1>5, <1>6, Zenon DEF PoolInv

\* run_task as a whole, whichever thread find_available_thread returns.
LEMMA RunTaskKeepsInv ==
    ASSUME PoolInv, NEW k \in Tasks, run_task(k)
    PROVE  PoolInv'
<1>1. CASE IdleThreads # {} /\ assign_task(Min(IdleThreads), k) /\ UNCHANGED <<running, tpc>>
  <2>1. Min(IdleThreads) \in IdleThreads
    BY <1>1, MinIsMember, Zenon DEF IdleThreads
  <2> QED
    BY <1>1, <2>1, AssignKeepsInv, Zenon DEF run_task, assign_task, IdleThreads
<1>2. CASE IdleThreads = {} /\ StoppedThreads # {} /\ start_thread(Min(StoppedThreads)) /\ assign_task(Min(StoppedThreads), k)
  <2>1. Min(StoppedThreads) \in StoppedThreads
    BY <1>2, MinIsMember, Zenon DEF StoppedThreads
  <2>2. current[Min(StoppedThreads)] = NoTask
    BY <2>1, Zenon DEF run_task, StoppedThreads, PoolInv, NoTaskOnStoppedThread
  <2> QED
    BY <1>2, <2>1, <2>2, AssignKeepsInv, Zenon DEF run_task, assign_task, StoppedThreads
<1>3. CASE IdleThreads = {} /\ StoppedThreads = {} /\ overflow' = Append(overflow, k) /\ UNCHANGED <<running, tpc, current>>
  <2> USE <1>3, NoTaskAssumption DEF run_task, PoolInv, PoolTypeOK
  <2>1. /\ overflow' \in Seq(Tasks)
        /\ DOMAIN overflow' = 1 .. Len(overflow) + 1 /\ DOMAIN overflow = 1 .. Len(overflow)
        /\ Len(overflow) \in Nat
        /\ \A i \in 1 .. Len(overflow) : overflow'[i] = overflow[i]
        /\ overflow'[Len(overflow) + 1] = k
    BY AppendProperties, LenProperties
  <2>2. PoolTypeOK'
    BY <2>1, Zenon
  <2>3. RunningIsAlive' /\ OverflowOnlyWhenBusy' /\ NoTaskOnStoppedThread'
    BY Zenon DEF RunningIsAlive, OverflowOnlyWhenBusy, NoTaskOnStoppedThread, IdleThreads, StoppedThreads
  <2>4. (\A s \in Threads : current[s] # k) /\ (\A i \in DOMAIN overflow : overflow[i] # k)
    BY DEF HeldIsPending, QueuedIsPending
  <2>5. HeldOnce' /\ QueuedOnce' /\ NotBoth'
    BY <2>1, <2>4 DEF HeldOnce, QueuedOnce, NotBoth
  <2>6. HeldIsPending' /\ QueuedIsPending' /\ ExecutedOnce'
    BY <2>1 DEF HeldIsPending, QueuedIsPending, ExecutedOnce
  <2>7. PendingIsSomewhere'
    <3> SUFFICES ASSUME NEW l \in submitted', executed[l] = 0
                 PROVE  \/ \E t \in Threads : current[t] = l
                        \/ \E i \in DOMAIN overflow' : overflow'[i] = l
      BY Zenon DEF PendingIsSomewhere
    <3>1. CASE l = k
      BY <2>1, <3>1
    <3>2. CASE l # k
      BY <2>1, <3>2 DEF PendingIsSomewhere
    <3> QED
      BY <3>1, <3>2, Zenon
  <2> QED
    BY <2>2, <2>3, <2>5, <2>6, <2>7, Zenon DEF PoolInv
<1> QED
  BY <1>1, <1>2, <1>3, Zenon DEF run_task

-----------------------------------------------------------------------------
\* A thread that only changes what it does with the task it has.
LEMMA ThreadKeepsInv ==
    ASSUME PoolInv, NEW t \in Threads, Enter(t) \/ Wake(t) \/ IdleTimeout(t)
    PROVE  PoolInv'
<1> USE DEF PoolInv, PoolTypeOK
<1>1. UNCHANGED <<current, overflow, quitting, joined, submitted, executed>>
  BY Zenon DEF Enter, Wake, IdleTimeout
<1>2. PoolTypeOK'
  BY <1>1, Zenon DEF Enter, Wake, IdleTimeout, Continue, ThreadStates
<1>3. RunningIsAlive'
  BY <1>1, Zenon DEF RunningIsAlive, Enter, Wake, IdleTimeout, Continue
<1>4. OverflowOnlyWhenBusy' /\ NoTaskOnStoppedThread'
  BY <1>1, Zenon DEF OverflowOnlyWhenBusy, NoTaskOnStoppedThread, RunningIsAlive, Enter, Wake, IdleTimeout, Continue
<1>5. HeldOnce' /\ QueuedOnce' /\ NotBoth'
  BY <1>1, Zenon DEF HeldOnce, QueuedOnce, NotBoth
<1>6. HeldIsPending' /\ QueuedIsPending' /\ ExecutedOnce' /\ PendingIsSomewhere'
  BY <1>1, Zenon DEF HeldIsPending, QueuedIsPending, ExecutedOnce, PendingIsSomewhere
<1> QED
  BY <1>2, <1>3, <1>4, <1>5, <1>6, Zenon DEF PoolInv

\* A task returns with an empty overflow queue, or its thread takes the front.
LEMMA TaskEndsKeepsInv ==
    ASSUME PoolInv, NEW t \in Threads, TaskEnds(t)
    PROVE  PoolInv'
<1> USE NoTaskAssumption DEF PoolInv, PoolTypeOK
<1>1. /\ tpc[t] = "executing" /\ current[t] # NoTask /\ current[t] \in Tasks
      /\ executed' = [executed EXCEPT ![current[t]] = @ + 1]
      /\ UNCHANGED <<quitting, joined, submitted>>
  BY Zenon DEF TaskEnds
<1>2. executed[current[t]] = 0 /\ executed'[current[t]] = 1 /\ current[t] \in submitted
  BY <1>1 DEF HeldIsPending
<1>3. CASE overflow = <<>>
  <2>1. current' = [current EXCEPT ![t] = NoTask] /\ overflow' = overflow /\ Continue(t, NoTask)
    BY <1>3, Zenon DEF TaskEnds
  <2>2. DOMAIN overflow = {}
    BY <1>3
  <2>3. PoolTypeOK'
    BY <1>1, <2>1 DEF Continue, ThreadStates
  <2>4. RunningIsAlive' /\ OverflowOnlyWhenBusy' /\ NoTaskOnStoppedThread'
    BY <1>1, <1>3, <2>1, Zenon DEF Continue, RunningIsAlive, OverflowOnlyWhenBusy, NoTaskOnStoppedThread
  <2>5. HeldOnce' /\ QueuedOnce' /\ NotBoth' /\ QueuedIsPending'
    BY <2>1, <2>2, Zenon DEF HeldOnce, QueuedOnce, NotBoth, QueuedIsPending
  <2>6. HeldIsPending'
    BY <1>1, <1>2, <2>1, Zenon DEF HeldIsPending, HeldOnce
  <2>7. ExecutedOnce' /\ PendingIsSomewhere'
    BY <1>1, <1>2, <2>1 DEF ExecutedOnce, PendingIsSomewhere
  <2> QED
    BY <2>3, <2>4, <2>5, <2>6, <2>7, Zenon DEF PoolInv
<1>4. CASE overflow # <<>>
  <2>1. /\ current' = [current EXCEPT ![t] = Head(overflow)]
        /\ overflow' = Tail(overflow)
        /\ Continue(t, Head(overflow))
    BY <1>4, Zenon DEF TaskEnds
  <2>2. /\ Head(overflow) \in Tasks /\ overflow' \in Seq(Tasks)
        /\ Head(overflow) = overflow[1] /\ 1 \in DOMAIN overflow
        /\ \A i \in DOMAIN overflow' : i + 1 \in DOMAIN overflow /\ overflow'[i] = overflow[i + 1]
        /\ \A i \in DOMAIN overflow : i # 1 => i - 1 \in DOMAIN overflow' /\ overflow'[i - 1] = overflow[i]
    BY <1>4, <2>1, TailOfOverflow, Zenon
  <2>3. DOMAIN overflow \subseteq Nat /\ DOMAIN overflow' \subseteq Nat /\ 0 \notin DOMAIN overflow'
    BY <2>2, LenProperties
  <2>4. PoolTypeOK'
    BY <1>1, <2>1, <2>2 DEF Continue, ThreadStates
  <2>5. RunningIsAlive' /\ OverflowOnlyWhenBusy' /\ NoTaskOnStoppedThread'
    BY <1>1, <1>4, <2>1, <2>2, ZenonT(60) DEF Continue, RunningIsAlive, OverflowOnlyWhenBusy, NoTaskOnStoppedThread
  <2>6. HeldOnce'
    BY <2>1, <2>2 DEF HeldOnce, NotBoth
  <2>7. QueuedOnce'
    <3> SUFFICES ASSUME NEW i \in DOMAIN overflow', NEW j \in DOMAIN overflow', overflow'[i] = overflow'[j]
                 PROVE  i = j
      BY Zenon DEF QueuedOnce
    <3>1. i + 1 \in DOMAIN overflow /\ j + 1 \in DOMAIN overflow /\ overflow[i + 1] = overflow[j + 1]
      BY <2>2, Zenon
    <3>2. i + 1 = j + 1
      BY <3>1, Zenon DEF QueuedOnce
    <3> QED
      BY <2>3, <3>2
  <2>8. NotBoth'
    <3> SUFFICES ASSUME NEW s \in Threads, NEW i \in DOMAIN overflow'
                 PROVE  current'[s] # overflow'[i]
      BY Zenon DEF NotBoth
    <3>1. i + 1 \in DOMAIN overflow /\ overflow'[i] = overflow[i + 1] /\ i + 1 # 1
      BY <2>2, <2>3
    <3>2. CASE s = t
      BY <2>1, <2>2, <3>1, <3>2, Zenon DEF QueuedOnce
    <3>3. CASE s # t
      BY <2>1, <3>1, <3>3, Zenon DEF NotBoth
    <3> QED
      BY <3>2, <3>3, Zenon
  <2>9. HeldIsPending'
    <3> SUFFICES ASSUME NEW s \in Threads, current'[s] # NoTask
                 PROVE  current'[s] \in submitted' /\ executed'[current'[s]] = 0
      BY Zenon DEF HeldIsPending
    <3>1. CASE s = t
      BY <1>1, <2>1, <2>2, <3>1 DEF QueuedIsPending, NotBoth
    <3>2. CASE s # t
      BY <1>1, <2>1, <3>2, Zenon DEF HeldIsPending, HeldOnce
    <3> QED
      BY <3>1, <3>2, Zenon
  <2>10. QueuedIsPending'
    BY <1>1, <2>2 DEF QueuedIsPending, NotBoth
  <2>11. ExecutedOnce'
    BY <1>1, <1>2, Zenon DEF ExecutedOnce
  <2>12. PendingIsSomewhere'
    <3> SUFFICES ASSUME NEW k \in submitted', executed'[k] = 0
                 PROVE  \/ \E s \in Threads : current'[s] = k
                        \/ \E i \in DOMAIN overflow' : overflow'[i] = k
      BY Zenon DEF PendingIsSomewhere
    <3>1. k # current[t] /\ k \in submitted /\ executed[k] = 0
      BY <1>1, <1>2
    <3>2. CASE \E s \in Threads : current[s] = k
      BY <2>1, <3>1, <3>2, Zenon
    <3>3. CASE \E i \in DOMAIN overflow : overflow[i] = k
      <4>1. PICK i \in DOMAIN overflow : overflow[i] = k
        BY <3>3, Zenon
      <4>2. CASE i = 1
        BY <2>1, <2>2, <4>1, <4>2
      <4>3. CASE i # 1
        BY <2>2, <4>1, <4>3, Zenon
      <4> QED
        BY <4>2, <4>3, Zenon
    <3> QED
      BY <3>1, <3>2, <3>3, Zenon DEF PendingIsSomewhere
  <2> QED
    BY <2>4, <2>5, <2>6, <2>7, <2>8, <2>9, <2>10, <2>11, <2>12, Zenon DEF PoolInv
<1> QED
  BY <1>3, <1>4, Zenon

\* The destructor changes only its own flags.
LEMMA DestructorKeepsInv ==
    ASSUME PoolInv, Quit \/ JoinAll
    PROVE  PoolInv'
<1> USE DEF PoolInv, PoolTypeOK
<1>1. UNCHANGED <<running, current, tpc, overflow, submitted, executed>> /\ (quitting => quitting')
  BY Zenon DEF Quit, JoinAll, poolVars
<1>2. PoolTypeOK'
  BY <1>1, Zenon DEF Quit, JoinAll
<1>3. RunningIsAlive' /\ OverflowOnlyWhenBusy' /\ NoTaskOnStoppedThread'
  BY <1>1, <1>2, Zenon DEF RunningIsAlive, OverflowOnlyWhenBusy, NoTaskOnStoppedThread
<1>4. HeldOnce' /\ QueuedOnce' /\ NotBoth'
  BY <1>1, Zenon DEF HeldOnce, QueuedOnce, NotBoth
<1>5. HeldIsPending' /\ QueuedIsPending' /\ ExecutedOnce' /\ PendingIsSomewhere'
  BY <1>1, Zenon DEF HeldIsPending, QueuedIsPending, ExecutedOnce, PendingIsSomewhere
<1> QED
  BY <1>2, <1>3, <1>4, <1>5, Zenon DEF PoolInv

\* Every step of the pool keeps the inductive invariant.
LEMMA PoolKeepsInv == PoolInv /\ [PoolNext]_schedulerVars => PoolInv'
<1> SUFFICES ASSUME PoolInv, [PoolNext]_schedulerVars PROVE PoolInv'
  OBVIOUS
<1>1. CASE \E k \in Tasks : run_task(k)
  BY <1>1, RunTaskKeepsInv, Zenon
<1>2. CASE \E t \in Threads : Thread(t)
  BY <1>2, ThreadKeepsInv, TaskEndsKeepsInv, Zenon DEF Thread
<1>3. CASE Quit \/ JoinAll
  BY <1>3, DestructorKeepsInv, Zenon
<1>4. CASE UNCHANGED schedulerVars
  <2> USE <1>4 DEF schedulerVars, poolVars, PoolInv
  <2>1. PoolTypeOK' /\ RunningIsAlive' /\ OverflowOnlyWhenBusy' /\ NoTaskOnStoppedThread'
    BY Zenon DEF PoolTypeOK, RunningIsAlive, OverflowOnlyWhenBusy, NoTaskOnStoppedThread
  <2>2. HeldOnce' /\ QueuedOnce' /\ NotBoth'
    BY Zenon DEF HeldOnce, QueuedOnce, NotBoth
  <2>3. HeldIsPending' /\ QueuedIsPending' /\ ExecutedOnce' /\ PendingIsSomewhere'
    BY Zenon DEF HeldIsPending, QueuedIsPending, ExecutedOnce, PendingIsSomewhere
  <2> QED
    BY <2>1, <2>2, <2>3, Zenon
<1> QED
  BY <1>1, <1>2, <1>3, <1>4, Zenon DEF PoolNext

-----------------------------------------------------------------------------
\* Whatever run_task, the threads and the destructor do, every task is in
\* exactly one place: what EachTaskOnce says by counting.
LEMMA EachTaskInOnePlace == PoolInv => EachTaskOnce
<1> SUFFICES ASSUME PoolInv, NEW k \in Tasks
             PROVE  executed[k] + Cardinality(Holders(k)) + Cardinality(Queued(k))
                        = IF k \in submitted THEN 1 ELSE 0
  BY Zenon DEF EachTaskOnce
<1> USE NoTaskAssumption DEF PoolInv, PoolTypeOK
<1>1. Cardinality({}) = 0 /\ \A x : Cardinality({x}) = 1
  BY FS_EmptySet, FS_Singleton, Zenon
<1>2. executed[k] \in {0, 1} /\ (k \notin submitted => executed[k] = 0)
  BY Zenon DEF ExecutedOnce
<1>3. CASE k \notin submitted \/ executed[k] = 1
  <2>1. Holders(k) = {} /\ Queued(k) = {}
    BY <1>2, <1>3 DEF Holders, Queued, HeldIsPending, QueuedIsPending
  <2> QED
    BY <1>1, <1>2, <1>3, <2>1
<1>4. CASE k \in submitted /\ executed[k] = 0
  <2>1. CASE \E t \in Threads : current[t] = k
    <3>1. PICK t \in Threads : current[t] = k
      BY <2>1, Zenon
    <3>2. Holders(k) = {t} /\ Queued(k) = {}
      BY <3>1 DEF Holders, Queued, HeldOnce, NotBoth
    <3>3. Cardinality(Holders(k)) = 1 /\ Cardinality(Queued(k)) = 0
      BY <1>1, <3>2, Zenon
    <3> QED
      BY <1>4, <3>3
  <2>2. CASE \E i \in DOMAIN overflow : overflow[i] = k
    <3>1. PICK i \in DOMAIN overflow : overflow[i] = k
      BY <2>2, Zenon
    <3>2. Holders(k) = {} /\ Queued(k) = {i}
      BY <3>1, Zenon DEF Holders, Queued, QueuedOnce, NotBoth
    <3>3. Cardinality(Holders(k)) = 0 /\ Cardinality(Queued(k)) = 1
      BY <1>1, <3>2, Zenon
    <3> QED
      BY <1>4, <3>3
  <2> QED
    BY <1>4, <2>1, <2>2, Zenon DEF PendingIsSomewhere
<1> QED
  BY <1>2, <1>3, <1>4, Zenon

-----------------------------------------------------------------------------
\* PoolInv is an invariant of the pool.
THEOREM PoolInvariance == PoolSpec => []PoolInv
BY InitPool, PoolKeepsInv, PTL DEF PoolSpec

\* The types of the pool's state, and no thread dereferences an empty
\* m_current_task, for any number of threads and any tasks.
THEOREM PoolTypes == PoolSpec => []PoolTypeOK
<1>1. PoolInv => PoolTypeOK
  BY Zenon DEF PoolInv
<1> QED
  BY <1>1, PoolInvariance, PTL

\* No task is stranded in m_task_overflow while a thread is idle or stopped.
THEOREM OverflowIsServed == PoolSpec => []OverflowOnlyWhenBusy
<1>1. PoolInv => OverflowOnlyWhenBusy
  BY Zenon DEF PoolInv
<1> QED
  BY <1>1, PoolInvariance, PTL

\* The idle timeout of run_work_thread and an assignment never cross.
THEOREM NoTaskLeftBehind == PoolSpec => []NoTaskOnStoppedThread
<1>1. PoolInv => NoTaskOnStoppedThread
  BY Zenon DEF PoolInv
<1> QED
  BY <1>1, PoolInvariance, PTL

\* run_task and the threads lose no task and execute none twice.
THEOREM TasksRunOnce == PoolSpec => []EachTaskOnce
BY EachTaskInOnePlace, PoolInvariance, PTL

-----------------------------------------------------------------------------
(* The owners that share the pool: how the stop jobs that wait for other   *)
(* jobs can occupy every thread.  The argument counts: no two threads have *)
(* the same job, so a pool full of stop jobs maps its threads one to one   *)
(* to the owners that wait, and no thread is left for the jobs they wait   *)
(* for, which are then in the queue.                                       *)

\* Every step of the owners is a step of the pool, or changes none of its state.
LEMMA OwnersStepIsPoolStep == OwnersNext => [PoolNext]_schedulerVars
<1> SUFFICES ASSUME OwnersNext PROVE [PoolNext]_schedulerVars
  OBVIOUS
<1>1. \A o \in PoolUsers : StopJob(o) \in Tasks /\ WorkJob(o) \in Tasks
  BY OwnersAssumption, Zenon DEF StopJob, WorkJob
<1>2. ASSUME NEW o \in PoolUsers, Trigger(o) \/ StreamDeleted(o) PROVE PoolNext
  BY <1>1, <1>2, Zenon DEF Trigger, StreamDeleted, PoolNext
<1>3. ASSUME NEW o \in PoolUsers, DestroyTask(o) PROVE UNCHANGED schedulerVars
  BY <1>3, Zenon DEF DestroyTask
<1>4. ASSUME NEW t \in Threads, ThreadRuns(t) \/ JobEnds(t) \/ ThreadStops(t) PROVE PoolNext
  BY <1>4, Zenon DEF ThreadRuns, JobEnds, ThreadStops, Thread, PoolNext
<1>5. ASSUME NEW k \in Others, OtherJob(k) PROVE PoolNext
  BY <1>5, OwnersAssumption, Zenon DEF OtherJob, PoolNext
<1>6. ASSUME PoolDestroyed \/ PoolJoined PROVE PoolNext
  BY <1>6, Zenon DEF PoolDestroyed, PoolJoined, PoolNext
<1> QED
  BY <1>2, <1>3, <1>4, <1>5, <1>6, Zenon DEF OwnersNext

\* The pool's invariant, the queue in particular, holds with the owners too.
LEMMA OwnersInvariance == OwnersSpec => []PoolInv
<1>1. OwnersInit => PoolInv
  BY InitPool, Zenon DEF OwnersInit
<1>2. PoolInv /\ [OwnersNext]_poolOwnerVars => PoolInv'
  BY OwnersStepIsPoolStep, PoolKeepsInv, Zenon DEF poolOwnerVars
<1> QED
  BY <1>1, <1>2, PTL DEF OwnersSpec

\* If every thread has a stop job that waits, as many owners wait as there are
\* threads.
LEMMA OneOwnerPerThread ==
    ASSUME PoolInv, \A t \in Threads : \E o \in PoolUsers : current[t] = StopJob(o) /\ Waiting(o)
    PROVE  Cardinality({o \in PoolUsers : Waiting(o)}) = NbThreads
<1> DEFINE W == {o \in PoolUsers : Waiting(o)}
           f == [t \in Threads |-> CHOOSE o \in PoolUsers : current[t] = StopJob(o) /\ Waiting(o)]
<1>1. \A t \in Threads : f[t] \in W /\ current[t] = StopJob(f[t])
  OBVIOUS
<1>2. f \in [Threads -> W]
  BY <1>1, Zenon
<1>3. IsFiniteSet(Threads) /\ Cardinality(Threads) = NbThreads
  BY NbThreadsAssumption, FS_Interval DEF Threads
<1>4. \A o \in PoolUsers : StopJob(o) # NoTask
  BY OwnersAssumption, NoTaskAssumption DEF StopJob
<1>5. \A s, t \in Threads : f[s] = f[t] => s = t
  <2> HIDE DEF f
  <2> QED
    BY <1>1, <1>4, Zenon DEF PoolInv, HeldOnce
<1>6. \A o \in W : \E t \in Threads : f[t] = o
  <2> SUFFICES ASSUME NEW o \in W PROVE \E t \in Threads : f[t] = o
    BY Zenon
  <2>1. PICK t \in Threads : current[t] = StopJob(o)
    BY Zenon DEF Waiting
  <2>2. StopJob(f[t]) = StopJob(o)
    BY <1>1, <2>1, Zenon
  <2>3. f[t] = o
    <3> HIDE DEF f
    <3> QED
      BY <2>2 DEF StopJob
  <2> QED
    BY <2>3, Zenon
<1>7. f \in Bijection(Threads, W)
  <2> HIDE DEF f, W
  <2>1. f \in Injection(Threads, W) /\ f \in Surjection(Threads, W)
    BY <1>2, <1>5, <1>6, Zenon DEF Injection, Surjection, IsInjective
  <2> QED
    BY <2>1, Zenon DEF Bijection
<1> QED
  BY <1>3, <1>7, FS_Bijection, Zenon DEF ExistsBijection

\* Then the job that each of them waits for is in the queue.
LEMMA WaitedForInQueue ==
    ASSUME PoolInv, \A t \in Threads : \E o \in PoolUsers : current[t] = StopJob(o) /\ Waiting(o),
           NEW o \in PoolUsers, Waiting(o)
    PROVE  Queued(WorkJob(o)) # {}
<1>1. WorkJob(o) \in Tasks /\ WorkJob(o) \in submitted /\ executed[WorkJob(o)] # 1
  BY OwnersAssumption, Zenon DEF Waiting, JobDone, WorkJob
<1>2. executed[WorkJob(o)] = 0
  BY <1>1, Zenon DEF PoolInv, ExecutedOnce
<1>3. \A p \in PoolUsers : StopJob(p) # WorkJob(o)
  BY DEF StopJob, WorkJob
<1>4. \A t \in Threads : current[t] # WorkJob(o)
  BY <1>3, Zenon
<1> QED
  BY <1>1, <1>2, <1>4, Zenon DEF PoolInv, PendingIsSomewhere, Queued

\* While jobs are queued, a thread has a job that waits for no other, or as many
\* owners as there are threads wait for jobs of the queue: for any number of
\* threads and of producers and consumers.
THEOREM PoolMovesOn == OwnersSpec => []SomeThreadMovesOn
<1>1. PoolInv => SomeThreadMovesOn
  <2> SUFFICES ASSUME PoolInv, overflow # <<>>, ~quitting,
                      \A t \in Threads :
                          current[t] # NoTask => \E o \in PoolUsers : current[t] = StopJob(o) /\ Waiting(o)
               PROVE  /\ Cardinality({o \in PoolUsers : Waiting(o)}) = NbThreads
                      /\ \A o \in PoolUsers : Waiting(o) => Queued(WorkJob(o)) # {}
    BY Zenon DEF SomeThreadMovesOn
  <2>1. \A t \in Threads : current[t] # NoTask
    BY Zenon DEF PoolInv, OverflowOnlyWhenBusy
  <2>2. \A t \in Threads : \E o \in PoolUsers : current[t] = StopJob(o) /\ Waiting(o)
    BY <2>1, Zenon
  <2> QED
    BY <2>2, OneOwnerPerThread, WaitedForInQueue, Zenon
<1> QED
  BY <1>1, OwnersInvariance, PTL
=============================================================================
