--------------------------- MODULE ConsumerProofs ---------------------------
(***************************************************************************)
(* For any stream, configuration and number of faults: the optionals of    *)
(* the consumer hold a value where the code takes it, the messages reach   *)
(* the handler in sequence, nothing below the stored offset is missing,    *)
(* and stop() returns when every session is closed and every handler has   *)
(* returned.                                                               *)
(***************************************************************************)
EXTENDS ConsumerDeliveryProofs

Takers == {"Delayed", "Reconnect", "stop"}

\* The part of TypeOK that says who is where.
ControlType ==
    /\ conf \in Configs
    /\ status \in {"Initialized", "Starting", "Started", "Stopped"}
    /\ starting \in {"init", "connect", "subscribe", "finish", "done", "failed"}
    /\ client \in Sessions \cup {NoClient} /\ dropped \in Sessions \cup {NoClient}
    /\ sess \in [Sessions -> SessionStates]
    /\ nsess \in Sessions \cup {0} /\ faults \in 0 .. MaxFaults
    /\ due \in [Tasks -> Nat] /\ armed \in [Tasks -> BOOLEAN] /\ destroyed \in [Tasks -> BOOLEAN]
    /\ run \in [Tasks -> ReconnectSteps \cup {"join"}] /\ run["Reconnect"] \in ReconnectSteps
    /\ taken \in [Takers -> Sessions \cup {NoClient}]
    /\ stop \in [Stoppers -> StopStates]

\* The part about offsets and what is on the wire.
DataType ==
    /\ initial_offset \in Nat \cup {None, NoOffset} /\ last_seen \in Nat \cup {None} /\ since_persist \in Nat
    /\ position \in [Sessions -> Nat \cup {None}] /\ credit \in [Sessions -> Nat]
    /\ inbox \in [Sessions -> Seq(Nat)] /\ frame \in [Sessions -> Frames]
    /\ wire \in [Sessions -> Seq(Nat)] /\ stored \in Nat \cup {None}
    /\ handled \in SUBSET Nat

\* Until start() has subscribed, nothing has been delivered.
StartInv ==
    /\ status = "Started" => starting = "done"
    /\ starting \in Starting => AllUnused

\* What is at hand to be stored was given to the handler.
OffsetInv ==
    /\ OptionalsAreSet /\ StoredWasGiven
    /\ last_seen \in Given \cup {None}
    /\ \A s \in Sessions : frame[s].step \in {"handler", "store"} => frame[s].offset \in handled

DataInv == DataType /\ StartInv /\ OffsetInv

-----------------------------------------------------------------------------
(* Types of the control                                                    *)

\* Sessions are positive numbers, and one exists.
LEMMA SessionNumbers == Sessions \subseteq Nat /\ NoClient \notin Sessions /\ 1 \in Sessions
PROOF BY BoundsAssumption DEF Sessions, NoClient

\* What a configuration holds.
LEMMA ConfTypes ==
    ASSUME conf \in Configs
    PROVE  /\ conf.faults \in 0 .. MaxFaults /\ conf.last \in Nat /\ conf.stored \in Nat \cup {None}
           /\ conf.offset \in Nat \cup {NoOffset} /\ conf.frequency \in Nat
PROOF BY ConfigsAssumption, Zenon

\* schedule_now and schedule_after of any task.
LEMMA ScheduleTypes ==
    ASSUME ControlType, NEW t \in Tasks
    PROVE  /\ schedule_now(t) => due' \in [Tasks -> Nat] /\ armed' \in [Tasks -> BOOLEAN]
           /\ ArmedAfter(t) \in [Tasks -> BOOLEAN]
<1>0. due \in [Tasks -> Nat] /\ armed \in [Tasks -> BOOLEAN]
  BY Zenon DEF ControlType
<1>1. schedule_now(t) => due' \in [Tasks -> Nat]
  BY <1>0 DEF schedule_now, timerVars
<1>2. schedule_now(t) => armed' \in [Tasks -> BOOLEAN]
  BY <1>0, Zenon DEF schedule_now, timerVars
<1>3. ((Valid(t) /\ ~destroyed[t]) \/ armed[t]) \in BOOLEAN
  OBVIOUS
<1>4. ArmedAfter(t) \in [Tasks -> BOOLEAN]
  BY <1>0, <1>3, Zenon DEF ArmedAfter
<1> QED
  BY <1>1, <1>2, <1>4, Zenon

\* ClientImpl::stop() of any session, or of none.
LEMMA ClosingType ==
    ASSUME ControlType, NEW s
    PROVE  Closing(s) \in [Sessions -> SessionStates]
PROOF BY Zenon DEF Closing, ControlType, SessionStates

controlVars == <<confVars, client, sessVars, dropped, taskVars, taken, stop>>

\* Steps that leave all of it alone.
LEMMA ControlUnchanged == ControlType /\ UNCHANGED controlVars => ControlType'
PROOF BY Zenon DEF ControlType, controlVars, confVars, sessVars, taskVars

\* start()
LEMMA StartControl == ControlType /\ Start => ControlType'
<1> SUFFICES ASSUME ControlType, Start PROVE ControlType'
  OBVIOUS
<1>1. CASE StartBegin \/ StartSubscribe
  <2>1. status' \in {"Starting", status} /\ starting' \in {"connect", "finish", "failed"}
    BY <1>1, Zenon DEF StartBegin, StartSubscribe
  <2>2. UNCHANGED <<conf, client, sessVars, dropped, taskVars, taken, stop>>
    BY <1>1, Zenon DEF StartBegin, StartSubscribe
  <2> QED
    BY <2>1, <2>2, Zenon DEF ControlType, sessVars, taskVars
<1>2. CASE StartConnect
  <2>1. nsess' = 1 /\ client' \in {NoClient, 1} /\ starting' \in {"subscribe", "failed"}
    BY <1>2, Zenon DEF StartConnect
  <2>2. sess' \in [Sessions -> SessionStates]
    BY <1>2, Zenon DEF StartConnect, ControlType, SessionStates
  <2>3. UNCHANGED <<conf, status, faults, dropped, taskVars, taken, stop>>
    BY <1>2, Zenon DEF StartConnect
  <2> QED
    BY <2>1, <2>2, <2>3, SessionNumbers, Zenon DEF ControlType, taskVars
<1>3. CASE StartFinish
  <2>1. armed' \in [Tasks -> BOOLEAN]
    BY <1>3, ScheduleTypes, Zenon DEF StartFinish, Tasks
  <2>2. status' \in {"Started", status} /\ starting' \in {"done", "failed"}
    BY <1>3, Zenon DEF StartFinish
  <2>3. UNCHANGED <<conf, client, sessVars, dropped, due, destroyed, run, taken, stop>>
    BY <1>3, Zenon DEF StartFinish
  <2> QED
    BY <2>1, <2>2, <2>3, Zenon DEF ControlType, sessVars
<1> QED
  BY <1>1, <1>2, <1>3, Zenon DEF Start

\* internal_store_offset
LEMMA StoreControl ==
    ASSUME ControlType, NEW o, internal_store_offset(o)
    PROVE  armed' \in [Tasks -> BOOLEAN]
PROOF BY ScheduleTypes, Zenon DEF internal_store_offset, ControlType, Tasks

\* The broker and the frame handling threads.
LEMMA FrameControl ==
    ASSUME ControlType, NEW s \in Sessions,
           FrameThread(s) \/ Broker(s) \/ handle_metadata_update(s) \/ Disconnect(s) \/ HeartbeatTimeout(s)
    PROVE  ControlType'
<1>0. /\ sess \in [Sessions -> SessionStates] /\ faults \in 0 .. MaxFaults /\ conf.faults \in 0 .. MaxFaults
      /\ client \in Sessions \cup {NoClient} /\ dropped \in Sessions \cup {NoClient}
  BY ConfTypes, Zenon DEF ControlType
<1>1. CASE \/ handle_deliver(s) \/ HandleMessage(s) \/ CallHandler(s) \/ HandlerReturns(s) \/ grant_credit(s)
           \/ HandlerThrows(s) \/ Broker(s)
  <2>1. UNCHANGED controlVars
    BY <1>1, Zenon DEF handle_deliver, HandleMessage, CallHandler, HandlerReturns, grant_credit, HandlerThrows, Broker, Deliver,
                BrokerStores, controlVars
  <2> QED
    BY <2>1, ControlUnchanged, Zenon
<1>2. CASE store_offset(s) \/ StoreByCount(s)
  <2>1. armed' \in [Tasks -> BOOLEAN]
    BY <1>2, StoreControl, Zenon DEF store_offset, StoreByCount, ControlType
  <2>2. UNCHANGED <<confVars, client, sessVars, dropped, due, destroyed, run, taken, stop>>
    BY <1>2, Zenon DEF store_offset, StoreByCount
  <2> QED
    BY <2>1, <2>2, Zenon DEF ControlType, confVars, sessVars
<1>3. CASE NoticeDisconnect(s) \/ FrameThreadEnds(s)
  <2>1. sess' \in [Sessions -> SessionStates]
    BY <1>0, <1>3, Zenon DEF NoticeDisconnect, FrameThreadEnds, SessionStates
  <2>2. UNCHANGED <<confVars, client, nsess, faults, dropped, taskVars, taken, stop>>
    BY <1>3, Zenon DEF NoticeDisconnect, FrameThreadEnds
  <2> QED
    BY <2>1, <2>2, Zenon DEF ControlType, confVars, taskVars
<1>4. CASE handle_shutdown(s)
  <2>1. Closing(client) \in [Sessions -> SessionStates]
    BY ClosingType, Zenon
  <2>2. sess' \in [Sessions -> SessionStates]
    BY <1>0, <1>4, <2>1, Zenon DEF handle_shutdown, SessionStates
  <2>3. client' \in Sessions \cup {NoClient} /\ dropped' \in Sessions \cup {NoClient}
    BY <1>0, <1>4, Zenon DEF handle_shutdown
  <2>4. due' \in [Tasks -> Nat] /\ armed' \in [Tasks -> BOOLEAN]
    <3>1. schedule_now("Reconnect") \/ UNCHANGED timerVars
      BY <1>4, Zenon DEF handle_shutdown
    <3> QED
      BY <3>1, ScheduleTypes, Zenon DEF Tasks, ControlType, timerVars
  <2>5. UNCHANGED <<confVars, nsess, faults, destroyed, run, taken, stop>>
    BY <1>4, Zenon DEF handle_shutdown
  <2> QED
    BY <2>2, <2>3, <2>4, <2>5, Zenon DEF ControlType, confVars
<1>5. CASE ShutdownDropped(s)
  <2>1. due' \in [Tasks -> Nat] /\ armed' \in [Tasks -> BOOLEAN]
    BY <1>5, ScheduleTypes, Zenon DEF ShutdownDropped, Tasks
  <2>2. sess' \in [Sessions -> SessionStates] /\ dropped' \in Sessions \cup {NoClient}
    BY <1>0, <1>5, Zenon DEF ShutdownDropped, SessionStates
  <2>3. UNCHANGED <<confVars, client, nsess, faults, destroyed, run, taken, stop>>
    BY <1>5, Zenon DEF ShutdownDropped
  <2> QED
    BY <2>1, <2>2, <2>3, Zenon DEF ControlType, confVars
<1>6. CASE handle_metadata_update(s)
  <2>1. due' \in [Tasks -> Nat] /\ armed' \in [Tasks -> BOOLEAN]
    BY <1>6, ScheduleTypes, Zenon DEF handle_metadata_update, Tasks
  <2>2. faults' \in 0 .. MaxFaults
    BY <1>0, <1>6, BoundsAssumption DEF handle_metadata_update
  <2>3. UNCHANGED <<confVars, client, sess, nsess, dropped, destroyed, run, taken, stop>>
    BY <1>6, Zenon DEF handle_metadata_update
  <2> QED
    BY <2>1, <2>2, <2>3, Zenon DEF ControlType, confVars
<1>7. CASE Disconnect(s) \/ HeartbeatTimeout(s)
  <2>1. faults' \in 0 .. MaxFaults
    BY <1>0, <1>7, BoundsAssumption DEF Disconnect, HeartbeatTimeout
  <2>2. sess' \in [Sessions -> SessionStates]
    BY <1>0, <1>7, Zenon DEF Disconnect, HeartbeatTimeout, SessionStates
  <2>3. UNCHANGED <<confVars, client, nsess, dropped, taskVars, taken, stop>>
    BY <1>7, Zenon DEF Disconnect, HeartbeatTimeout
  <2> QED
    BY <2>1, <2>2, <2>3, Zenon DEF ControlType, confVars, taskVars
<1> QED
  BY <1>1, <1>2, <1>3, <1>4, <1>5, <1>6, <1>7, Zenon DEF FrameThread, Handler

\* The background tasks.
LEMMA TaskControl ==
    ASSUME ControlType,
           store_current_offset \/ DelayedTask \/ ReconnectTask \/ \E t \in Tasks : TimerExpires(t)
    PROVE  ControlType'
<1> DEFINE RunOK(r) == r \in [Tasks -> ReconnectSteps \cup {"join"}] /\ r["Reconnect"] \in ReconnectSteps
           Taken == [Takers -> Sessions \cup {NoClient}]
<1>0. /\ due \in [Tasks -> Nat] /\ armed \in [Tasks -> BOOLEAN] /\ RunOK(run)
      /\ taken \in Taken /\ client \in Sessions \cup {NoClient}
      /\ sess \in [Sessions -> SessionStates] /\ faults \in 0 .. MaxFaults /\ conf.faults \in 0 .. MaxFaults
  BY ConfTypes, Zenon DEF ControlType
<1>1. /\ \A x \in ReconnectSteps : RunOK([run EXCEPT !["Reconnect"] = x])
      /\ \A x \in {"idle", "join"} : RunOK([run EXCEPT !["Delayed"] = x])
  BY <1>0, Zenon DEF Tasks, ReconnectSteps
<1>2. ASSUME NEW t \in Tasks, Ready(t) PROVE [due EXCEPT ![t] = @ - 1] \in [Tasks -> Nat]
  BY <1>0, <1>2 DEF Ready
<1>3. \A x \in Takers : \A s \in Sessions \cup {NoClient} : [taken EXCEPT ![x] = s] \in Taken
  BY <1>0, Zenon
<1>4. ASSUME NEW t \in Tasks, TimerExpires(t) PROVE ControlType'
  <2>1. due' \in [Tasks -> Nat] /\ armed' \in [Tasks -> BOOLEAN]
    BY <1>0, <1>4 DEF TimerExpires
  <2>2. UNCHANGED <<confVars, client, sessVars, dropped, destroyed, run, taken, stop>>
    BY <1>4, Zenon DEF TimerExpires
  <2> QED
    BY <2>1, <2>2, Zenon DEF ControlType, confVars, sessVars
<1>5. CASE store_current_offset
  <2>1. due' \in [Tasks -> Nat]
    BY <1>2, <1>5, Zenon DEF store_current_offset, Tasks
  <2>2. armed' \in [Tasks -> BOOLEAN]
    BY <1>5, StoreControl, ScheduleTypes, Zenon DEF store_current_offset, Tasks
  <2>3. UNCHANGED <<confVars, client, sessVars, dropped, destroyed, run, taken, stop>>
    BY <1>5, Zenon DEF store_current_offset
  <2> QED
    BY <2>1, <2>2, <2>3, Zenon DEF ControlType, confVars, sessVars
<1>6. CASE DelayedBegin
  <2>1. due' \in [Tasks -> Nat]
    BY <1>2, <1>6, Zenon DEF DelayedBegin, Tasks
  <2>2. RunOK(run')
    BY <1>0, <1>1, <1>6, Zenon DEF DelayedBegin
  <2>3. taken' \in Taken /\ client' \in Sessions \cup {NoClient} /\ sess' \in [Sessions -> SessionStates]
    BY <1>0, <1>3, <1>6, ClosingType DEF DelayedBegin, Takers
  <2>4. UNCHANGED <<confVars, nsess, faults, dropped, armed, destroyed, stop>>
    BY <1>6, Zenon DEF DelayedBegin
  <2> QED
    BY <2>1, <2>2, <2>3, <2>4, Zenon DEF ControlType, confVars
<1>7. CASE DelayedEnd
  <2>1. taken' \in Taken
    BY <1>3, <1>7, Zenon DEF DelayedEnd, Takers
  <2>2. RunOK(run')
    BY <1>1, <1>7, Zenon DEF DelayedEnd
  <2>3. armed' \in [Tasks -> BOOLEAN]
    BY <1>7, ScheduleTypes, Zenon DEF DelayedEnd, Tasks
  <2>4. UNCHANGED <<confVars, client, sessVars, dropped, due, destroyed, stop>>
    BY <1>7, Zenon DEF DelayedEnd
  <2> QED
    BY <2>1, <2>2, <2>3, <2>4, Zenon DEF ControlType, confVars, sessVars
<1>8. CASE ReconnectBegin
  <2>1. due' \in [Tasks -> Nat]
    BY <1>2, <1>8, Zenon DEF ReconnectBegin, Tasks
  <2>2. RunOK(run')
    BY <1>1, <1>8, Zenon DEF ReconnectBegin, ReconnectSteps
  <2>3. UNCHANGED <<confVars, client, sessVars, dropped, armed, destroyed, taken, stop>>
    BY <1>8, Zenon DEF ReconnectBegin
  <2> QED
    BY <2>1, <2>2, <2>3, Zenon DEF ControlType, confVars, sessVars
<1>9. CASE ReconnectConnect
  <2>1. nsess' \in Sessions
    BY <1>9, Zenon DEF ReconnectConnect
  <2>2. sess' \in [Sessions -> SessionStates]
    BY <1>0, <1>9, <2>1, Zenon DEF ReconnectConnect, SessionStates
  <2>3. taken' \in Taken
    BY <1>3, <1>9, <2>1, Zenon DEF ReconnectConnect, Takers
  <2>4. RunOK(run')
    BY <1>1, <1>9, Zenon DEF ReconnectConnect, ReconnectSteps
  <2>5. UNCHANGED <<confVars, client, faults, dropped, due, armed, destroyed, stop>>
    BY <1>9, Zenon DEF ReconnectConnect, timerVars
  <2> QED
    BY <2>1, <2>2, <2>3, <2>4, <2>5, Zenon DEF ControlType, confVars
<1>10. Caught \subseteq {"retry", "deleted"}
  BY Zenon DEF Caught
<1>11. CASE ReconnectRefused
  <2>1. RunOK(run')
    BY <1>1, <1>10, <1>11, ZenonT(60) DEF ReconnectRefused, ReconnectSteps
  <2>2. UNCHANGED <<confVars, client, sessVars, dropped, due, armed, destroyed, taken, stop>>
    BY <1>11, Zenon DEF ReconnectRefused, timerVars
  <2> QED
    BY <2>1, <2>2, Zenon DEF ControlType, confVars, sessVars
<1>12. CASE ReconnectSubscribe
  <2>1. RunOK(run')
    BY <1>1, <1>12 DEF ReconnectSubscribe, ReconnectSteps
  <2>2. taken["Reconnect"] \in Sessions \cup {NoClient}
    BY <1>0, Zenon DEF Takers
  <2>3. taken' \in Taken /\ client' \in Sessions \cup {NoClient} /\ sess' \in [Sessions -> SessionStates]
    BY <1>0, <1>3, <1>12, <2>2, ClosingType DEF ReconnectSubscribe, Takers
  <2>4. UNCHANGED <<confVars, nsess, faults, dropped, due, armed, destroyed, stop>>
    BY <1>12, Zenon DEF ReconnectSubscribe, timerVars
  <2> QED
    BY <2>1, <2>3, <2>4, Zenon DEF ControlType, confVars
<1>13. CASE ReconnectUnsubscribed
  <2>1. RunOK(run')
    BY <1>1, <1>10, <1>13, ZenonT(60) DEF ReconnectUnsubscribed, ReconnectSteps
  <2>2. sess' \in [Sessions -> SessionStates]
    BY <1>13, ClosingType, Zenon DEF ReconnectUnsubscribed
  <2>3. faults' \in 0 .. MaxFaults
    BY <1>0, <1>13, BoundsAssumption DEF ReconnectUnsubscribed
  <2>4. UNCHANGED <<confVars, client, nsess, dropped, due, armed, destroyed, taken, stop>>
    BY <1>13, Zenon DEF ReconnectUnsubscribed, timerVars
  <2> QED
    BY <2>1, <2>2, <2>3, <2>4, Zenon DEF ControlType, confVars
<1>14. CASE ReconnectEnd
  <2>1. RunOK(run')
    BY <1>1, <1>14, Zenon DEF ReconnectEnd, ReconnectSteps
  <2>2. taken' \in Taken
    BY <1>3, <1>14, Zenon DEF ReconnectEnd, Takers
  <2>3. schedule_now("Deleted") \/ (armed' \in {armed, ArmedAfter("Reconnect")} /\ UNCHANGED due)
    BY <1>14, Zenon DEF ReconnectEnd
  <2>4. due' \in [Tasks -> Nat] /\ armed' \in [Tasks -> BOOLEAN]
    BY <1>0, <2>3, ScheduleTypes, Zenon DEF Tasks
  <2>5. UNCHANGED <<confVars, client, sessVars, dropped, destroyed, stop>>
    BY <1>14, Zenon DEF ReconnectEnd
  <2> QED
    BY <2>1, <2>2, <2>4, <2>5, Zenon DEF ControlType, confVars, sessVars
<1> QED
  BY <1>4, <1>5, <1>6, <1>7, <1>8, <1>9, <1>11, <1>12, <1>13, <1>14, Zenon DEF DelayedTask, ReconnectTask

\* The order in which internal_stop destroys the tasks.
LEMMA Order ==
    /\ DOMAIN DestroyOrder = {"Deleted", "Persist", "Delayed"}
    /\ DestroyOrder["Deleted"] = "Persist" /\ DestroyOrder["Persist"] = "Delayed"
    /\ DestroyOrder["Delayed"] = "Reconnect"
PROOF BY Zenon DEF DestroyOrder

\* stop() and internal_stop().
LEMMA StopControl ==
    ASSUME ControlType, StopCall \/ DeletedBegin \/ \E a \in Stoppers : Stop(a)
    PROVE  ControlType'
<1>0. /\ due \in [Tasks -> Nat] /\ destroyed \in [Tasks -> BOOLEAN] /\ stop \in [Stoppers -> StopStates]
      /\ taken \in [Takers -> Sessions \cup {NoClient}] /\ client \in Sessions \cup {NoClient}
  BY Zenon DEF ControlType
<1>1. CASE StopCall
  <2>1. stop' \in [Stoppers -> StopStates] /\ destroyed' \in [Tasks -> BOOLEAN]
    BY <1>0, <1>1, Zenon DEF StopCall, StopStates
  <2>2. UNCHANGED <<confVars, client, sessVars, dropped, due, armed, run, taken>>
    BY <1>1, Zenon DEF StopCall, timerVars
  <2> QED
    BY <2>1, <2>2, Zenon DEF ControlType, confVars, sessVars
<1>2. CASE DeletedBegin
  <2>1. stop' \in [Stoppers -> StopStates] /\ destroyed' \in [Tasks -> BOOLEAN]
    BY <1>0, <1>2, Zenon DEF DeletedBegin, StopStates
  <2>2. due' \in [Tasks -> Nat]
    BY <1>0, <1>2 DEF DeletedBegin, Ready, Tasks
  <2>3. UNCHANGED <<confVars, client, sessVars, dropped, armed, run, taken>>
    BY <1>2, Zenon DEF DeletedBegin
  <2> QED
    BY <2>1, <2>2, <2>3, Zenon DEF ControlType, confVars, sessVars
<1>3. ASSUME NEW a \in Stoppers, StopDestroys(a) PROVE ControlType'
  <2>1. DestroyOrder[stop[a]] \in StopStates
    BY <1>3, Order, Zenon DEF StopDestroys, StopStates
  <2>2. stop' \in [Stoppers -> StopStates] /\ destroyed' \in [Tasks -> BOOLEAN]
    BY <1>0, <1>3, <2>1, Zenon DEF StopDestroys
  <2>3. UNCHANGED <<confVars, client, sessVars, dropped, due, armed, run, taken>>
    BY <1>3, Zenon DEF StopDestroys, timerVars
  <2> QED
    BY <2>2, <2>3, Zenon DEF ControlType, confVars, sessVars
<1>4. ASSUME NEW a \in Stoppers, StopExchange(a) PROVE ControlType'
  <2>1. stop' \in [Stoppers -> StopStates] /\ status' = "Stopped"
    BY <1>0, <1>4, Zenon DEF StopExchange, StopEnd, StopStates
  <2>2. UNCHANGED <<conf, starting, client, sessVars, dropped, taskVars, taken>>
    BY <1>4, Zenon DEF StopExchange
  <2> QED
    BY <2>1, <2>2, Zenon DEF ControlType, sessVars, taskVars
<1>5. ASSUME NEW a \in Stoppers, StopClient(a) \/ StopUnsubscribe(a) \/ StopJoined(a) PROVE ControlType'
  <2>1. stop' \in [Stoppers -> StopStates]
    BY <1>0, <1>5, Zenon DEF StopClient, StopUnsubscribe, StopJoined, StopEnd, StopStates
  <2>2. taken' \in [Takers -> Sessions \cup {NoClient}] /\ client' \in {client, NoClient}
    BY <1>0, <1>5, Zenon DEF StopClient, StopUnsubscribe, StopJoined, Takers
  <2>3. UNCHANGED <<confVars, sessVars, dropped, taskVars>>
    BY <1>5, Zenon DEF StopClient, StopUnsubscribe, StopJoined
  <2> QED
    BY <2>1, <2>2, <2>3, Zenon DEF ControlType, confVars, sessVars, taskVars
<1>6. ASSUME NEW a \in Stoppers, StopStore(a) PROVE ControlType'
  <2>1. stop' \in [Stoppers -> StopStates]
    BY <1>0, <1>6, Zenon DEF StopStore, StopStates
  <2>2. sess' \in [Sessions -> SessionStates]
    BY <1>6, ClosingType, Zenon DEF StopStore
  <2>3. UNCHANGED <<confVars, client, nsess, faults, dropped, taskVars, taken>>
    BY <1>6, Zenon DEF StopStore
  <2> QED
    BY <2>1, <2>2, <2>3, Zenon DEF ControlType, confVars, taskVars
<1> QED
  BY <1>1, <1>2, <1>3, <1>4, <1>5, <1>6, Zenon DEF Stop

-----------------------------------------------------------------------------
(* OptionalsAreSet and what is stored                                      *)


dataVars == <<conf, offsetVars, subVars, storeVars, handled>>

\* Steps that touch no offset, no chunk and no message.
LEMMA DataUnchanged ==
    ASSUME DataInv, UNCHANGED dataVars,
           status' = "Started" => starting' = "done",
           starting' \in Starting => starting \in Starting
    PROVE  DataInv'
<1>1. UNCHANGED <<initial_offset, last_seen, since_persist, position, credit, inbox, frame, wire, stored, handled, conf>>
  BY Zenon DEF dataVars, offsetVars, subVars, storeVars
<1>2. DataType'
  BY <1>1, Zenon DEF DataInv, DataType
<1>3. StartInv'
  BY <1>1, Zenon DEF DataInv, StartInv, AllUnused, Unused, Starting
<1>4. OffsetInv'
  BY <1>1, GivenSame, Zenon DEF DataInv, OffsetInv, OptionalsAreSet, StoredWasGiven
<1> QED
  BY <1>2, <1>3, <1>4, Zenon DEF DataInv

\* The values a frame thread steps to.
LEMMA FrameValues ==
    /\ NoFrame \in Frames /\ NoFrame.step = "none"
    /\ \A o \in Nat : AfterMessage(o) \in Frames /\ AfterMessage(o).step \in {"none", "message"}
    /\ \A f \in Frames : /\ AfterHandler(f) \in Frames
                         /\ AfterHandler(f).step \in {"none", "message", "store"}
                         /\ AfterHandler(f).step = "store" => AfterHandler(f).offset = f.offset
<1>1. NoFrame \in Frames /\ NoFrame.step = "none"
  BY Zenon DEF NoFrame, Frames
<1>2. ASSUME NEW o \in Nat PROVE AfterMessage(o) \in Frames /\ AfterMessage(o).step \in {"none", "message"}
  <2>1. o + 1 \in Nat
    OBVIOUS
  <2>2. CASE LastOfChunk(o)
    BY <1>1, <2>2, Zenon DEF AfterMessage
  <2>3. CASE ~LastOfChunk(o)
    BY <2>1, <2>3, Zenon DEF AfterMessage, Frames
  <2> QED
    BY <2>2, <2>3, Zenon
<1>3. ASSUME NEW f \in Frames
      PROVE  /\ AfterHandler(f) \in Frames
             /\ AfterHandler(f).step \in {"none", "message", "store"}
             /\ AfterHandler(f).step = "store" => AfterHandler(f).offset = f.offset
  <2>1. CASE f.store
    <3>1. AfterHandler(f) = [f EXCEPT !.step = "store"]
      BY <2>1, Zenon DEF AfterHandler
    <3> QED
      BY <3>1, Zenon DEF Frames
  <2>2. CASE ~f.store
    <3>1. f.offset \in Nat
      BY Zenon DEF Frames
    <3> QED
      BY <1>2, <2>2, <3>1, Zenon DEF AfterHandler
  <2> QED
    BY <2>1, <2>2, Zenon
<1> QED
  BY <1>1, <1>2, <1>3, Zenon

\* store_offset() of a client sends what it is given, or nothing.
LEMMA SentWasGiven ==
    ASSUME DataInv, NEW s, NEW o \in Given, SendStore(s, o)
    PROVE  /\ wire' \in [Sessions -> Seq(Nat)]
           /\ \A r \in Sessions : \A i \in DOMAIN wire'[r] : wire'[r][i] \in Given
<1>0. wire \in [Sessions -> Seq(Nat)] /\ o \in Nat /\ \A r \in Sessions : \A i \in DOMAIN wire[r] : wire[r][i] \in Given
  <2>1. Given \in SUBSET Nat
    BY GivenType, Zenon DEF DataInv, DataType
  <2> QED
    BY <2>1, Zenon DEF DataInv, DataType, OffsetInv, StoredWasGiven
<1>1. CASE wire' = wire
  BY <1>0, <1>1, Zenon
<1>2. CASE wire' = [wire EXCEPT ![s] = Append(@, o)] /\ s \in Sessions
  <2>1. wire[s] \in Seq(Nat)
    BY <1>0, <1>2, Zenon
  <2>2. Append(wire[s], o) \in Seq(Nat) /\ \A i \in DOMAIN Append(wire[s], o) : Append(wire[s], o)[i] \in Given
    BY <1>0, <1>2, <2>1
  <2>3. wire' \in [Sessions -> Seq(Nat)]
    BY <1>0, <1>2, <2>2, Zenon
  <2>4. \A r \in Sessions : wire'[r] = IF r = s THEN Append(wire[s], o) ELSE wire[r]
    BY <1>0, <1>2, Zenon
  <2> QED
    BY Zenon, <1>0, <2>2, <2>3, <2>4
<1> QED
  BY <1>0, <1>1, <1>2, Zenon DEF SendStore

\* internal_store_offset, of an offset that was given to the handler.
LEMMA StoreKeeps ==
    ASSUME DataInv, NEW o \in Given, internal_store_offset(o)
    PROVE  /\ wire' \in [Sessions -> Seq(Nat)] /\ since_persist' \in {since_persist, 0}
           /\ \A r \in Sessions : \A i \in DOMAIN wire'[r] : wire'[r][i] \in Given
<1>1. CASE SendStore(client, o) /\ since_persist' = 0
  BY <1>1, SentWasGiven, Zenon
<1>2. CASE UNCHANGED <<wire, since_persist>>
  BY <1>2, Zenon DEF DataInv, DataType, OffsetInv, StoredWasGiven
<1> QED
  BY <1>1, <1>2, Zenon DEF internal_store_offset

\* The chunk a subscription starts with.
LEMMA SubscribeType ==
    ASSUME ControlType, DataType, NEW s, NEW o \in Nat \cup {NoOffset}, subscribe(s, o)
    PROVE  position' \in [Sessions -> Nat \cup {None}] /\ credit' \in [Sessions -> Nat]
<1>1. FirstChunk(o) \subseteq Nat
  <2>1. CASE o = NoOffset
    BY <2>1, ConfTypes DEF FirstChunk, ControlType
  <2>2. CASE o # NoOffset
    <3>1. o \in Nat /\ ChunkSize \in Nat \ {0}
      BY <2>2, StreamAssumption, Zenon
    <3>2. o \div ChunkSize \in Nat
      BY <3>1
    <3>3. (o \div ChunkSize) * ChunkSize \in Nat
      BY <3>1, <3>2
    <3> QED
      BY <2>2, <3>3, Zenon DEF FirstChunk
  <2> QED
    BY <2>1, <2>2, Zenon
<1>2. InitialCredit \in Nat
  BY BoundsAssumption, Zenon
<1> QED
  BY <1>1, <1>2, Zenon DEF subscribe, DataType

\* start() subscribes before anything was delivered.
LEMMA StartData ==
    ASSUME ControlType, DataInv, Start
    PROVE  DataInv'
<1>1. CASE StartBegin \/ StartConnect \/ StartFinish
  <2>1. UNCHANGED dataVars
    BY <1>1, Zenon DEF StartBegin, StartConnect, StartFinish, dataVars, history
  <2>2. status' = "Started" => starting' = "done"
    BY <1>1, Zenon DEF StartBegin, StartConnect, StartFinish, DataInv, StartInv
  <2>3. starting' \in Starting => starting \in Starting
    BY <1>1, Zenon DEF StartBegin, StartConnect, StartFinish, Starting
  <2> QED
    BY <2>1, <2>2, <2>3, DataUnchanged, Zenon
<1>2. CASE StartSubscribe
  <2>1. starting = "subscribe" /\ starting' \in {"finish", "failed"}
    BY <1>2, Zenon DEF StartSubscribe
  <2>2. UNCHANGED <<conf, status, last_seen, since_persist, inbox, frame, wire, stored, handled>>
    BY <1>2, Zenon DEF StartSubscribe, storeVars, history
  <2>3. initial_offset' \in Nat \cup {NoOffset}
    <3>1. initial_offset \in Nat \cup {NoOffset}
      BY <2>1, Zenon DEF DataInv, DataType, StartInv, AllUnused, Unused, Starting, OffsetInv, OptionalsAreSet
    <3>2. StoredOffset \in Nat \cup {NoOffset}
      BY <3>1 DEF StoredOffset, DataInv, DataType
    <3> QED
      BY <1>2, <3>1, <3>2, Zenon DEF StartSubscribe
  <2>4. position' \in [Sessions -> Nat \cup {None}] /\ credit' \in [Sessions -> Nat]
    <3>1. subscribe(1, initial_offset') \/ UNCHANGED <<position, credit>>
      BY <1>2, Zenon DEF StartSubscribe
    <3> QED
      BY <2>3, <3>1, SubscribeType, Zenon DEF DataInv, DataType
  <2>5. DataType'
    BY <2>2, <2>3, <2>4, Zenon DEF DataInv, DataType
  <2>6. StartInv'
    BY <2>1, <2>2, Zenon DEF DataInv, StartInv, Starting
  <2>7. OffsetInv'
    BY <2>2, <2>3, GivenSame DEF DataInv, OffsetInv, OptionalsAreSet, StoredWasGiven, None, NoOffset
  <2> QED
    BY <2>5, <2>6, <2>7, Zenon DEF DataInv
<1> QED
  BY <1>1, <1>2, Zenon DEF Start

\* Chunks come from the subscription, and go to the frame handling thread.
LEMMA ChunkData ==
    ASSUME ControlType, DataInv, NEW s \in Sessions,
           \/ Deliver(s) \/ BrokerStores(s) \/ handle_deliver(s) \/ NoticeDisconnect(s) \/ FrameThreadEnds(s)
           \/ Disconnect(s) \/ HeartbeatTimeout(s)
    PROVE  DataInv'
<1>0. /\ position \in [Sessions -> Nat \cup {None}] /\ credit \in [Sessions -> Nat]
      /\ inbox \in [Sessions -> Seq(Nat)] /\ frame \in [Sessions -> Frames]
      /\ wire \in [Sessions -> Seq(Nat)]
      /\ \A r \in Sessions : \A i \in DOMAIN wire[r] : wire[r][i] \in Given
  BY Zenon DEF DataInv, DataType, OffsetInv, StoredWasGiven
<1>1. CASE Deliver(s)
  <2>1. /\ UNCHANGED <<conf, status, starting, initial_offset, last_seen, since_persist, frame, wire, stored, handled>>
        /\ position[s] \in Nat /\ credit[s] \in Nat \ {0}
        /\ inbox' = [inbox EXCEPT ![s] = Append(@, position[s])]
        /\ position' = [position EXCEPT ![s] = @ + ChunkSize]
        /\ credit' = [credit EXCEPT ![s] = @ - 1]
    BY <1>0, <1>1, ConfTypes DEF Deliver, confVars, offsetVars, storeVars, history, ControlType
  <2>2. starting \notin Starting
    BY <2>1 DEF DataInv, StartInv, AllUnused, Unused, Starting, None
  <2>3. /\ inbox' \in [Sessions -> Seq(Nat)] /\ position' \in [Sessions -> Nat \cup {None}]
        /\ credit' \in [Sessions -> Nat]
    <3>1. Append(inbox[s], position[s]) \in Seq(Nat)
      BY <1>0, <2>1
    <3>2. position[s] + ChunkSize \in Nat /\ credit[s] - 1 \in Nat
      BY <2>1, StreamAssumption
    <3> QED
      BY <1>0, <2>1, <3>1, <3>2, Zenon
  <2>4. DataType' /\ StartInv' /\ OffsetInv'
    BY <2>1, <2>2, <2>3, GivenSame, Zenon
       DEF DataInv, DataType, StartInv, Starting, OffsetInv, OptionalsAreSet, StoredWasGiven
  <2> QED
    BY <2>4, Zenon DEF DataInv
<1>2. CASE BrokerStores(s)
  <2>1. /\ UNCHANGED <<conf, status, starting, initial_offset, last_seen, since_persist, position, credit, inbox,
                       frame, handled>>
        /\ wire[s] # <<>> /\ stored' = Head(wire[s]) /\ wire' = [wire EXCEPT ![s] = Tail(@)]
    BY <1>2, Zenon DEF BrokerStores, confVars, offsetVars, subVars, history
  <2>2. wire[s] \in Seq(Nat) /\ \A i \in DOMAIN wire[s] : wire[s][i] \in Given
    BY <1>0, Zenon
  <2>3. Head(wire[s]) \in Given /\ Head(wire[s]) \in Nat /\ Tail(wire[s]) \in Seq(Nat)
    BY <2>1, <2>2
  <2>4. \A i \in DOMAIN Tail(wire[s]) : Tail(wire[s])[i] \in Given
    BY <2>1, <2>2
  <2>5. wire' \in [Sessions -> Seq(Nat)] /\ \A r \in Sessions : wire'[r] = IF r = s THEN Tail(wire[s]) ELSE wire[r]
    BY <1>0, <2>1, <2>3, Zenon
  <2>6. \A r \in Sessions : \A i \in DOMAIN wire'[r] : wire'[r][i] \in Given
    BY Zenon, <1>0, <2>4, <2>5
  <2>7. DataType' /\ StartInv'
    BY <2>1, <2>3, <2>5, Zenon DEF DataInv, DataType, StartInv, AllUnused, Unused
  <2>8. OffsetInv'
    BY <2>1, <2>3, <2>6, GivenSame, Zenon DEF DataInv, OffsetInv, OptionalsAreSet, StoredWasGiven
  <2> QED
    BY <2>7, <2>8, Zenon DEF DataInv
<1>3. CASE handle_deliver(s)
  <2>1. /\ UNCHANGED <<conf, status, starting, initial_offset, last_seen, since_persist, position, wire, stored, handled>>
        /\ inbox[s] # <<>> /\ inbox' = [inbox EXCEPT ![s] = Tail(@)]
        /\ frame' = [frame EXCEPT ![s] = [step |-> "message", offset |-> Head(inbox[s]), store |-> FALSE]]
        /\ credit' \in {credit, [credit EXCEPT ![s] = @ + 1]}
    BY <1>3, Zenon DEF handle_deliver, Granted, confVars, offsetVars, storeVars, history
  <2>2. Head(inbox[s]) \in Nat /\ Tail(inbox[s]) \in Seq(Nat)
    BY <1>0, <2>1
  <2>3. [step |-> "message", offset |-> Head(inbox[s]), store |-> FALSE] \in Frames
    BY <2>2, Zenon DEF Frames
  <2>4. starting \notin Starting
    BY <2>1, Zenon DEF DataInv, StartInv, AllUnused, Unused, Starting
  <2>5. frame' \in [Sessions -> Frames] /\ inbox' \in [Sessions -> Seq(Nat)] /\ credit' \in [Sessions -> Nat]
    <3>1. frame' \in [Sessions -> Frames]
      BY <1>0, <2>1, <2>3, Zenon
    <3>2. inbox' \in [Sessions -> Seq(Nat)]
      BY <1>0, <2>1, <2>2, Zenon
    <3>3. [credit EXCEPT ![s] = @ + 1] \in [Sessions -> Nat]
      BY <1>0
    <3>4. credit' \in [Sessions -> Nat]
      BY <1>0, <2>1, <3>3, Zenon
    <3> QED
      BY <3>1, <3>2, <3>4, Zenon
  <2>6. \A r \in Sessions : frame'[r].step \in {"handler", "store"} => r # s /\ frame'[r] = frame[r]
    BY <1>0, <2>1, Zenon
  <2>7. DataType' /\ StartInv'
    BY <2>1, <2>4, <2>5, Zenon DEF DataInv, DataType, StartInv, Starting
  <2>8. OffsetInv'
    <3>1. frame[s].step # "call" /\ handled \subseteq handled'
      BY <1>3, <2>1, FrameValues, Zenon DEF handle_deliver
    <3>2. Given \subseteq Given'
      BY <1>0, <2>1, <3>1, GivenGrows, Zenon
    <3>3. OptionalsAreSet' /\ StoredWasGiven' /\ last_seen' \in Given' \cup {None}
      BY <2>1, <3>2, Zenon DEF DataInv, OffsetInv, OptionalsAreSet, StoredWasGiven
    <3> QED
      BY <2>1, <2>6, <3>3 DEF DataInv, OffsetInv
  <2> QED
    BY <2>7, <2>8, Zenon DEF DataInv
<1>4. CASE NoticeDisconnect(s) \/ FrameThreadEnds(s)
  <2>1. /\ UNCHANGED <<conf, status, starting, initial_offset, last_seen, since_persist, position, credit, frame, wire,
                       stored, handled>>
        /\ inbox' = [inbox EXCEPT ![s] = <<>>]
    BY <1>4, Zenon DEF NoticeDisconnect, FrameThreadEnds, confVars, offsetVars, storeVars, history
  <2>2. inbox' \in [Sessions -> Seq(Nat)] /\ \A r \in Sessions : inbox[r] = <<>> => inbox'[r] = <<>>
    BY <1>0, <2>1
  <2>3. DataType' /\ StartInv'
    BY <2>1, <2>2, Zenon DEF DataInv, DataType, StartInv, AllUnused, Unused
  <2>4. OffsetInv'
    BY <2>1, GivenSame, Zenon DEF DataInv, OffsetInv, OptionalsAreSet, StoredWasGiven
  <2> QED
    BY <2>3, <2>4, Zenon DEF DataInv
<1>5. CASE Disconnect(s) \/ HeartbeatTimeout(s)
  <2>1. /\ UNCHANGED <<conf, status, starting, initial_offset, last_seen, since_persist, position, credit, inbox, frame,
                       stored, handled>>
        /\ wire' = [wire EXCEPT ![s] = <<>>]
    BY <1>5, Zenon DEF Disconnect, HeartbeatTimeout, confVars, offsetVars, subVars, history
  <2>2. wire' \in [Sessions -> Seq(Nat)] /\ \A r \in Sessions : wire'[r] \in {wire[r], <<>>}
    BY <1>0, <2>1
  <2>3. \A r \in Sessions : \A i \in DOMAIN wire'[r] : wire'[r][i] \in Given
    BY <1>0, <2>2
  <2>4. DataType' /\ StartInv'
    BY <2>1, <2>2, Zenon DEF DataInv, DataType, StartInv, AllUnused, Unused
  <2>5. OffsetInv'
    BY <2>1, <2>3, GivenSame, Zenon DEF DataInv, OffsetInv, OptionalsAreSet, StoredWasGiven
  <2> QED
    BY <2>4, <2>5, Zenon DEF DataInv
<1> QED
  BY <1>1, <1>2, <1>3, <1>4, <1>5, Zenon

\* A frame handling thread goes on with a value f of its frame.
LEMMA FrameMoves ==
    ASSUME DataInv, NEW s \in Sessions, NEW f \in Frames, NEW seen,
           handled \subseteq seen, f.step \in {"handler", "store"} => f.offset \in seen,
           frame' = [frame EXCEPT ![s] = f]
    PROVE  /\ frame' \in [Sessions -> Frames]
           /\ \A r \in Sessions : frame'[r].step \in {"handler", "store"} => frame'[r].offset \in seen
<1>1. frame \in [Sessions -> Frames]
  BY Zenon DEF DataInv, DataType
<1>2. \A r \in Sessions : frame'[r] = IF r = s THEN f ELSE frame[r]
  BY <1>1, Zenon
<1>3. frame' \in [Sessions -> Frames]
  BY <1>1, Zenon
<1> QED
  BY <1>2, <1>3, Zenon DEF DataInv, OffsetInv

\* There are no messages before start() has subscribed.
LEMMA AtMessage ==
    ASSUME DataInv, NEW s \in Sessions, frame[s].step # "none"
    PROVE  starting \notin Starting
PROOF BY FrameValues, Zenon DEF DataInv, StartInv, AllUnused, Unused, Starting

\* handle_message
LEMMA HandleMessageData ==
    ASSUME ControlType, DataInv, NEW s \in Sessions, HandleMessage(s)
    PROVE  DataInv'
<1> DEFINE o == frame[s].offset
<1>0. frame \in [Sessions -> Frames] /\ frame[s] \in Frames /\ o \in Nat /\ since_persist \in Nat
      /\ initial_offset \in Nat \cup {None, NoOffset} /\ last_seen \in Nat \cup {None} /\ handled \in SUBSET Nat
  BY Zenon DEF DataInv, DataType, Frames
<1>1. frame[s].step = "message" /\ starting \notin Starting
  BY AtMessage, Zenon DEF HandleMessage
<1>2. UNCHANGED <<conf, status, starting, position, credit, inbox, wire, stored, handled>>
  BY Zenon DEF HandleMessage, confVars, storeVars, history
<1>3. CASE Skipped(o)
  <2>1. /\ initial_offset' = initial_offset /\ UNCHANGED <<last_seen, since_persist>>
        /\ frame' = [frame EXCEPT ![s] = AfterMessage(o)]
    BY <1>3, Zenon DEF HandleMessage, InitialAfter
  <2>2. /\ frame' \in [Sessions -> Frames]
        /\ \A r \in Sessions : frame'[r].step \in {"handler", "store"} => frame'[r].offset \in handled
    BY Zenon, <1>0, <2>1, FrameValues, FrameMoves
  <2>3. DataType' /\ StartInv'
    BY <1>1, <1>2, <2>1, <2>2, Zenon DEF DataInv, DataType, StartInv, Starting
  <2>4. OffsetInv'
    <3>1. Given \subseteq Given'
      BY <1>0, <1>1, <1>2, <2>1, GivenGrows, Zenon
    <3> QED
      BY <1>2, <2>1, <2>2, <3>1, Zenon DEF DataInv, OffsetInv, OptionalsAreSet, StoredWasGiven
  <2> QED
    BY <2>3, <2>4, Zenon DEF DataInv
<1>4. CASE ~Skipped(o)
  <2> DEFINE f == [step |-> "call", offset |-> o, store |-> Frequent(since_persist + 1)]
  <2>1. /\ initial_offset' = None /\ last_seen' = o /\ since_persist' = since_persist + 1
        /\ frame' = [frame EXCEPT ![s] = f]
    BY <1>4, Zenon DEF HandleMessage, InitialAfter
  <2>2. Frequent(since_persist + 1) \in BOOLEAN
    BY Zenon DEF Frequent
  <2>3. f \in Frames /\ f.step = "call" /\ f.offset = o
    BY <1>0, <2>2, Zenon DEF Frames
  <2>4. /\ frame' \in [Sessions -> Frames]
        /\ \A r \in Sessions : frame'[r].step \in {"handler", "store"} => frame'[r].offset \in handled'
    <3>1. handled \subseteq handled' /\ f.step \notin {"handler", "store"}
      BY <1>2, <2>3
    <3> HIDE DEF f
    <3> QED
      BY ZenonT(60), <2>1, <2>3, <3>1, FrameMoves
  <2>5. DataType' /\ StartInv'
    <3>1. /\ initial_offset' \in Nat \cup {None, NoOffset} /\ last_seen' \in Nat \cup {None} /\ since_persist' \in Nat
      BY <1>0, <2>1
    <3>2. DataType'
      BY <1>2, <2>4, <3>1, Zenon DEF DataInv, DataType
    <3> QED
      BY <1>1, <1>2, <3>2, Zenon DEF DataInv, StartInv, Starting
  <2>6. Given \subseteq Given' /\ o \in Given'
    <3>1. handled \subseteq handled' /\ frame[s].step # "call"
      BY <1>1, <1>2
    <3> HIDE DEF f
    <3> QED
      BY <1>0, <2>1, <2>3, <3>1, GivenGrows, Zenon
  <2>7. OptionalsAreSet'
    BY <1>0, <2>1 DEF OptionalsAreSet, None
  <2>8. StoredWasGiven' /\ last_seen' \in Given' \cup {None}
    BY <1>2, <2>1, <2>6, Zenon DEF DataInv, OffsetInv, StoredWasGiven
  <2> QED
    BY <2>4, <2>5, <2>7, <2>8, Zenon DEF DataInv, OffsetInv
<1> QED
  BY <1>3, <1>4, Zenon

\* The handler is called.
LEMMA CallHandlerData ==
    ASSUME ControlType, DataInv, NEW s \in Sessions, CallHandler(s)
    PROVE  DataInv'
<1> DEFINE f == [frame[s] EXCEPT !.step = "handler"]
<1>0. /\ frame \in [Sessions -> Frames] /\ frame[s] \in Frames /\ frame[s].offset \in Nat /\ handled \in SUBSET Nat
      /\ frame[s].step = "call"
  BY Zenon DEF DataInv, DataType, Frames, CallHandler
<1>1. /\ UNCHANGED <<conf, status, starting, initial_offset, last_seen, since_persist, position, credit, inbox, wire, stored>>
      /\ frame' = [frame EXCEPT ![s] = f] /\ handled' = handled \cup {frame[s].offset}
  BY Zenon DEF CallHandler, confVars, offsetVars, storeVars
<1>2. starting \notin Starting
  BY <1>0, AtMessage
<1>3. f \in Frames /\ f.offset = frame[s].offset
  BY <1>0 DEF Frames
<1>4. handled \subseteq handled' /\ frame[s].offset \in handled' /\ handled' \in SUBSET Nat
  BY <1>0, <1>1
<1> HIDE DEF f
<1>5. /\ frame' \in [Sessions -> Frames]
      /\ \A r \in Sessions : frame'[r].step \in {"handler", "store"} => frame'[r].offset \in handled'
  BY <1>1, <1>3, <1>4, FrameMoves, ZenonT(60)
<1>6. Given \subseteq Given'
  BY <1>0, <1>1, <1>4, GivenGrows, Zenon
<1>7. DataType' /\ StartInv'
  BY <1>1, <1>2, <1>4, <1>5, Zenon DEF DataInv, DataType, StartInv, Starting
<1>8. OffsetInv'
  BY <1>1, <1>5, <1>6, Zenon DEF DataInv, OffsetInv, OptionalsAreSet, StoredWasGiven
<1> QED
  BY <1>7, <1>8, Zenon DEF DataInv

\* The handler returns, throws, stores an offset or grants a credit.
LEMMA HandlerData ==
    ASSUME ControlType, DataInv, NEW s \in Sessions, Handler(s) \/ StoreByCount(s)
    PROVE  DataInv'
<1> DEFINE f == frame[s]
<1>0. /\ f \in Frames /\ f.offset \in Nat /\ f.step \in {"handler", "store"} /\ f.offset \in handled /\ f.offset \in Given
      /\ credit \in [Sessions -> Nat] /\ since_persist \in Nat
  BY Zenon DEF DataInv, DataType, OffsetInv, Frames, Given, Handler, HandlerReturns, store_offset, grant_credit,
         HandlerThrows, StoreByCount
<1>1. starting \notin Starting
  BY <1>0, AtMessage, Zenon
<1>2. UNCHANGED <<conf, status, starting, initial_offset, last_seen, position, inbox, stored, handled>>
  BY Zenon DEF Handler, HandlerReturns, store_offset, grant_credit, HandlerThrows, StoreByCount, confVars, offsetVars,
         storeVars, history
<1>3. PICK g \in {NoFrame, AfterHandler(f), AfterMessage(f.offset)} : frame' = [frame EXCEPT ![s] = g]
  BY Zenon DEF Handler, HandlerReturns, store_offset, grant_credit, HandlerThrows, StoreByCount
<1>4. /\ frame' \in [Sessions -> Frames]
      /\ \A r \in Sessions : frame'[r].step \in {"handler", "store"} => frame'[r].offset \in handled
  <2>1. g \in Frames /\ (g.step \in {"handler", "store"} => g.offset \in handled)
    BY <1>0, <1>3, FrameValues, Zenon
  <2> QED
    BY Zenon, <1>3, <2>1, FrameMoves
<1>5. /\ wire' \in [Sessions -> Seq(Nat)] /\ since_persist' \in {since_persist, 0}
      /\ \A r \in Sessions : \A i \in DOMAIN wire'[r] : wire'[r][i] \in Given
  <2>1. internal_store_offset(f.offset) \/ UNCHANGED <<wire, since_persist>>
    BY Zenon DEF Handler, HandlerReturns, store_offset, grant_credit, HandlerThrows, StoreByCount, offsetVars, storeVars
  <2>2. CASE internal_store_offset(f.offset)
    BY Zenon, <1>0, <2>2, StoreKeeps
  <2>3. CASE UNCHANGED <<wire, since_persist>>
    BY <2>3, Zenon DEF DataInv, DataType, OffsetInv, StoredWasGiven
  <2> QED
    BY <2>1, <2>2, <2>3, Zenon
<1>6. credit' \in [Sessions -> Nat]
  <2>1. credit' \in {credit, Granted(client)}
    BY Zenon DEF Handler, HandlerReturns, store_offset, grant_credit, HandlerThrows, StoreByCount
  <2>2. Granted(client) \in [Sessions -> Nat]
    <3>1. CASE client \in Sessions
      <4>1. [credit EXCEPT ![client] = @ + 1] \in [Sessions -> Nat]
        BY <1>0, <3>1
      <4> QED
        BY <1>0, <4>1, Zenon DEF Granted
    <3>2. CASE client \notin Sessions
      <4>1. [credit EXCEPT ![client] = @ + 1] = credit
        BY <1>0, <3>2, Zenon
      <4> QED
        BY <1>0, <4>1, Zenon DEF Granted
    <3> QED
      BY <3>1, <3>2, Zenon
  <2> QED
    BY <1>0, <2>1, <2>2, Zenon
<1>7. DataType' /\ StartInv'
  BY <1>0, <1>1, <1>2, <1>4, <1>5, <1>6 DEF DataInv, DataType, StartInv, Starting
<1>8. OffsetInv'
  <2>0. Given \subseteq Given'
    <3>1. frame \in [Sessions -> Frames] /\ handled \subseteq handled' /\ frame[s].step # "call"
      BY <1>0, <1>2 DEF DataInv, DataType
    <3> QED
      BY <1>3, <3>1, GivenGrows, Zenon
  <2>1. OptionalsAreSet'
    BY <1>0, <1>2, <1>5 DEF DataInv, OffsetInv, OptionalsAreSet
  <2>2. StoredWasGiven' /\ last_seen' \in Given' \cup {None}
    BY <1>2, <1>5, <2>0, Zenon DEF DataInv, OffsetInv, StoredWasGiven
  <2> QED
    BY <1>2, <1>4, <2>1, <2>2, Zenon DEF DataInv, OffsetInv
<1> QED
  BY <1>7, <1>8, Zenon DEF DataInv

\* The tasks: the persist task stores what was seen, a recovery goes on after it.
LEMMA TaskData ==
    ASSUME ControlType, DataInv,
           store_current_offset \/ DelayedTask \/ ReconnectTask \/ \E t \in Tasks : TimerExpires(t)
    PROVE  DataInv'
<1>0. UNCHANGED <<status, starting>>
  BY Zenon DEF store_current_offset, DelayedTask, DelayedBegin, DelayedEnd, ReconnectTask, ReconnectBegin, ReconnectConnect,
         ReconnectRefused, ReconnectSubscribe, ReconnectUnsubscribed, ReconnectEnd, TimerExpires, confVars
<1>1. CASE UNCHANGED dataVars
  BY <1>0, <1>1, DataUnchanged, Zenon DEF DataInv, StartInv
<1>2. CASE store_current_offset
  <2>1. UNCHANGED <<conf, initial_offset, last_seen, position, credit, inbox, frame, stored, handled>>
    BY <1>2, Zenon DEF store_current_offset, confVars, subVars, history
  <2>2. /\ wire' \in [Sessions -> Seq(Nat)] /\ since_persist' \in {since_persist, 0}
        /\ \A r \in Sessions : \A i \in DOMAIN wire'[r] : wire'[r][i] \in Given
    <3>1. CASE since_persist > 0
      <4>1. last_seen \in Given
        BY <3>1, Zenon DEF DataInv, OffsetInv, OptionalsAreSet
      <4> QED
        BY <1>2, <3>1, <4>1, StoreKeeps, Zenon DEF store_current_offset
    <3>2. CASE ~(since_persist > 0)
      BY <1>2, <3>2, Zenon DEF store_current_offset, DataInv, DataType, OffsetInv, StoredWasGiven
    <3> QED
      BY <3>1, <3>2, Zenon
  <2>3. DataType' /\ StartInv'
    BY <1>0, <2>1, <2>2 DEF DataInv, DataType, StartInv, AllUnused, Unused
  <2>4. OffsetInv'
    BY <2>1, <2>2, GivenSame DEF DataInv, DataType, OffsetInv, OptionalsAreSet, StoredWasGiven
  <2> QED
    BY <2>3, <2>4, Zenon DEF DataInv
<1>3. CASE (ReconnectSubscribe /\ status = "Started") \/ ReconnectUnsubscribed
  <2>1. UNCHANGED <<conf, last_seen, since_persist, inbox, frame, wire, stored, handled>> /\ initial_offset' = ResumeOffset
    BY <1>3, Zenon DEF ReconnectSubscribe, ReconnectUnsubscribed, confVars, subVars, storeVars, history
  <2>2. ResumeOffset \in Nat \cup {NoOffset}
    BY DEF ResumeOffset, DataInv, DataType, OffsetInv, OptionalsAreSet
  <2>3. position' \in [Sessions -> Nat \cup {None}] /\ credit' \in [Sessions -> Nat]
    <3>1. subscribe(taken["Reconnect"], initial_offset') \/ UNCHANGED <<position, credit>>
      BY <1>3, Zenon DEF ReconnectSubscribe, ReconnectUnsubscribed, subVars
    <3>2. CASE subscribe(taken["Reconnect"], initial_offset')
      BY <2>1, <2>2, <3>2, SubscribeType, Zenon DEF DataInv
    <3>3. CASE UNCHANGED <<position, credit>>
      BY <3>3, Zenon DEF DataInv, DataType
    <3> QED
      BY <3>1, <3>2, <3>3, Zenon
  <2>4. starting = "done"
    BY <1>3, Zenon DEF ReconnectUnsubscribed, DataInv, StartInv
  <2>5. DataType'
    BY <2>1, <2>2, <2>3, Zenon DEF DataInv, DataType
  <2>6. StartInv' /\ OffsetInv'
    <3>1. initial_offset' # None /\ starting \notin Starting
      BY <2>1, <2>2, <2>4 DEF None, NoOffset, Starting
    <3> QED
      BY <1>0, <2>1, <2>4, <3>1, GivenSame, Zenon DEF DataInv, StartInv, OffsetInv, OptionalsAreSet, StoredWasGiven
  <2> QED
    BY <2>5, <2>6, Zenon DEF DataInv
<1>4. CASE ReconnectSubscribe /\ status # "Started"
  BY <1>1, <1>4, Zenon DEF ReconnectSubscribe, dataVars, offsetVars, subVars, storeVars, confVars
<1>5. CASE \/ DelayedTask \/ ReconnectBegin \/ ReconnectConnect \/ ReconnectRefused \/ ReconnectEnd
           \/ \E t \in Tasks : TimerExpires(t)
  <2>1. UNCHANGED dataVars
    BY <1>5, Zenon DEF DelayedTask, DelayedBegin, DelayedEnd, ReconnectBegin, ReconnectConnect, ReconnectRefused,
                ReconnectEnd, TimerExpires, dataVars, confVars, history
  <2> QED
    BY <1>1, <2>1, Zenon
<1> QED
  BY <1>2, <1>3, <1>4, <1>5, Zenon DEF ReconnectTask

\* stop() stores the last offset seen.
LEMMA StopData ==
    ASSUME ControlType, DataInv, StopCall \/ DeletedBegin \/ \E a \in Stoppers : Stop(a)
    PROVE  DataInv'
<1>0. status' \in {status, "Stopped"} /\ UNCHANGED starting
  BY Zenon DEF StopCall, DeletedBegin, Stop, StopDestroys, StopExchange, StopClient, StopUnsubscribe, StopStore, StopJoined,
         confVars
<1>1. CASE UNCHANGED dataVars
  BY <1>0, <1>1, DataUnchanged, Zenon DEF DataInv, StartInv
<1>2. ASSUME NEW a \in Stoppers, StopUnsubscribe(a) PROVE DataInv'
  <2>1. UNCHANGED <<conf, initial_offset, last_seen, since_persist, credit, inbox, frame, wire, stored, handled>>
    BY <1>2, Zenon DEF StopUnsubscribe, confVars, offsetVars, storeVars, history
  <2>2. position' = [position EXCEPT ![taken["stop"]] = None]
    BY <1>2, Zenon DEF StopUnsubscribe
  <2>3. /\ position' \in [Sessions -> Nat \cup {None}]
        /\ \A s \in Sessions : position[s] = None => position'[s] = None
    BY <2>2, Zenon DEF DataInv, DataType
  <2>4. DataType' /\ StartInv'
    BY <1>0, <2>1, <2>3, Zenon DEF DataInv, DataType, StartInv, AllUnused, Unused
  <2>5. OffsetInv'
    BY <2>1, GivenSame, Zenon DEF DataInv, OffsetInv, OptionalsAreSet, StoredWasGiven
  <2> QED
    BY <2>4, <2>5, Zenon DEF DataInv
<1>3. ASSUME NEW a \in Stoppers, StopStore(a) PROVE DataInv'
  <2>1. UNCHANGED <<conf, initial_offset, last_seen, since_persist, position, credit, inbox, frame, stored, handled>>
    BY <1>3, Zenon DEF StopStore, confVars, offsetVars, subVars, history
  <2>2. /\ wire' \in [Sessions -> Seq(Nat)]
        /\ \A r \in Sessions : \A i \in DOMAIN wire'[r] : wire'[r][i] \in Given
    <3>1. CASE SendStore(taken["stop"], last_seen) /\ since_persist > 0
      <4>1. last_seen \in Given
        BY <3>1, Zenon DEF DataInv, OffsetInv, OptionalsAreSet
      <4> QED
        BY <3>1, <4>1, SentWasGiven, Zenon
    <3>2. CASE UNCHANGED wire
      BY <3>2, Zenon DEF DataInv, DataType, OffsetInv, StoredWasGiven
    <3> QED
      BY <1>3, <3>1, <3>2, Zenon DEF StopStore
  <2>3. DataType' /\ StartInv'
    BY <1>0, <2>1, <2>2, Zenon DEF DataInv, DataType, StartInv, AllUnused, Unused
  <2>4. OffsetInv'
    BY <2>1, <2>2, GivenSame, Zenon DEF DataInv, OffsetInv, OptionalsAreSet, StoredWasGiven
  <2> QED
    BY <2>3, <2>4, Zenon DEF DataInv
<1>4. CASE StopCall \/ DeletedBegin
  BY <1>1, <1>4, Zenon DEF StopCall, DeletedBegin, dataVars, confVars, history
<1>5. ASSUME NEW a \in Stoppers, StopDestroys(a) \/ StopExchange(a) \/ StopClient(a) \/ StopJoined(a) PROVE DataInv'
  <2>1. UNCHANGED dataVars
    BY <1>5, Zenon DEF StopDestroys, StopExchange, StopClient, StopJoined, dataVars, confVars, history
  <2> QED
    BY <1>1, <2>1, Zenon
<1> QED
  BY <1>2, <1>3, <1>4, <1>5, Zenon DEF Stop

\* The types, and what was stored and seen, before anything happens ...
LEMMA InitData == Init => ControlType /\ DataInv
<1> SUFFICES ASSUME Init PROVE ControlType /\ DataInv
  OBVIOUS
<1>1. ControlType
  <2>1. 0 \in 0 .. MaxFaults
    BY BoundsAssumption
  <2>2. armed \in [Tasks -> BOOLEAN] /\ destroyed \in [Tasks -> BOOLEAN]
    BY Zenon DEF Init
  <2> QED
    BY <2>1, <2>2, Zenon DEF Init, ControlType, SessionStates, ReconnectSteps, StopStates, Tasks, Takers
<1>2. DataType
  <2>1. frame \in [Sessions -> Frames]
    BY FrameValues, Zenon DEF Init
  <2>2. /\ inbox \in [Sessions -> Seq(Nat)] /\ wire \in [Sessions -> Seq(Nat)]
        /\ position \in [Sessions -> Nat \cup {None}] /\ credit \in [Sessions -> Nat]
    BY DEF Init
  <2>3. initial_offset \in Nat \cup {None, NoOffset} /\ stored \in Nat \cup {None}
    BY ConfTypes, Zenon DEF Init
  <2> QED
    BY <2>1, <2>2, <2>3, Zenon DEF Init, DataType
<1>3. StartInv
  BY Zenon DEF Init, StartInv, AllUnused, Unused
<1>4. OffsetInv
  <2>1. initial_offset # None
    BY ConfTypes DEF Init, None, NoOffset
  <2>2. \A s \in Sessions : frame[s] = NoFrame /\ wire[s] = <<>>
    BY Zenon DEF Init
  <2>3. OptionalsAreSet /\ StoredWasGiven
    BY <2>1, <2>2 DEF Init, OptionalsAreSet, StoredWasGiven
  <2> QED
    BY <2>2, <2>3, FrameValues, Zenon DEF Init, OffsetInv
<1> QED
  BY <1>1, <1>2, <1>3, <1>4, Zenon DEF DataInv

\* ... and after every step.
LEMMA DataStep == ControlType /\ DataInv /\ [Next]_vars => ControlType' /\ DataInv'
<1> SUFFICES ASSUME ControlType, DataInv, [Next]_vars PROVE ControlType' /\ DataInv'
  OBVIOUS
<1>1. ASSUME NEW s \in Sessions,
             handle_metadata_update(s) \/ handle_shutdown(s) \/ ShutdownDropped(s)
      PROVE  DataInv'
  <2>1. UNCHANGED dataVars /\ UNCHANGED <<status, starting>>
    BY <1>1, Zenon DEF handle_metadata_update, handle_shutdown, ShutdownDropped, dataVars, confVars, history
  <2> QED
    BY <2>1, DataUnchanged, Zenon DEF DataInv, StartInv
<1>2. CASE UNCHANGED vars
  <2>1. UNCHANGED controlVars /\ UNCHANGED dataVars /\ UNCHANGED <<status, starting>>
    BY <1>2, Zenon DEF vars, controlVars, dataVars, confVars, history
  <2> QED
    BY <2>1, ControlUnchanged, DataUnchanged, Zenon DEF DataInv, StartInv
<1>3. ASSUME NEW s \in Sessions,
             FrameThread(s) \/ Broker(s) \/ handle_metadata_update(s) \/ Disconnect(s) \/ HeartbeatTimeout(s)
      PROVE  ControlType' /\ DataInv'
  BY <1>1, <1>3, FrameControl, ChunkData, HandleMessageData, CallHandlerData, HandlerData, Zenon DEF FrameThread, Broker
<1> QED
  BY <1>2, <1>3, StartControl, TaskControl, StopControl, StartData, TaskData, StopData, Zenon DEF Next

\* The two hold in every behaviour.
LEMMA DataHolds == Spec => [](ControlType /\ DataInv)
PROOF BY InitData, DataStep, PTL DEF Spec

\* Neither store_current_offset nor reconnect_to_server takes the value of an
\* empty optional, for any configuration and any number of faults.
THEOREM OptionalsHold == Spec => []OptionalsAreSet
<1>1. DataInv => OptionalsAreSet
  BY Zenon DEF DataInv, OffsetInv
<1> QED
  BY <1>1, DataHolds, PTL

\* Every variable of the consumer keeps its type; an offset that is subscribed
\* to is never an empty optional.
THEOREM ConsumerTypes == Spec => []TypeOK
<1>1. ControlType /\ DataInv => TypeOK
  BY Zenon DEF ControlType, DataInv, DataType, TypeOK, Takers
<1> QED
  BY <1>1, DataHolds, PTL

-----------------------------------------------------------------------------
(* stop()                                                                  *)

\* Every session that has not ended is in somebody's hands, ...
Holders == {client, dropped, taken["Delayed"], taken["Reconnect"], taken["stop"]}
Owned   == \A s \in Sessions : sess[s] \notin {"none", "closed"} => s \in Holders

\* ... one that has ended, or waits to say so, is at no message, ...
AtNoMessage == \A s \in Sessions : sess[s] \in {"none", "closed", "locking"} => frame[s] = NoFrame

\* ... and nobody takes a client while it still has another.
Hands ==
    /\ run["Delayed"] = "idle" => taken["Delayed"] = NoClient
    /\ run["Reconnect"] \in {"idle", "connect"} => taken["Reconnect"] = NoClient
    /\ run["Reconnect"] # "idle" => client = NoClient /\ starting = "done"
    /\ starting \in {"init", "connect"} => client = NoClient

SessionInv == Owned /\ AtNoMessage /\ Hands

\* stop() has won the exchange of m_status; it has a client to get rid of.
Finishing == {"client", "unsubscribe", "store", "join"}
Holding   == {"unsubscribe", "store", "join"}

\* A deleted stream stops a consumer that was started; stop() waits for that.
DeletedFirst ==
    /\ ~armed["Deleted"]
    /\ due["Deleted"] > 0 \/ stop["Deleted"] # "idle" => starting # "init"
    /\ stop["user"] # "idle" => starting # "init" /\ destroyed["Deleted"]
    /\ stop["user"] \notin {"idle", "Deleted"} => stop["Deleted"] = "idle"

\* The tasks are destroyed one by one before m_status changes ...
InOrder ==
    \A a \in Stoppers :
        /\ stop[a] = "Delayed" => destroyed["Delayed"]
        /\ stop[a] = "Reconnect" => destroyed["Delayed"] /\ run["Delayed"] = "idle" /\ destroyed["Reconnect"]
        /\ stop[a] \in Finishing \cup {"done"} => status = "Stopped"

\* ... and are gone from then on.
TasksGone ==
    status = "Stopped" =>
        destroyed["Delayed"] /\ destroyed["Reconnect"] /\ run["Delayed"] = "idle" /\ run["Reconnect"] = "idle"

\* One of the two gets rid of the client, and there is no other afterwards.
ClientGone ==
    /\ \A a, b \in Stoppers : stop[a] \in Finishing /\ stop[b] \in Finishing => a = b
    /\ (\A a \in Stoppers : stop[a] \notin Holding) => taken["stop"] = NoClient
    /\ status = "Stopped" /\ (\A a \in Stoppers : stop[a] # "client") =>
           client = NoClient /\ dropped = NoClient /\ starting \in {"done", "failed"}

StopInv == DeletedFirst /\ InOrder /\ TasksGone /\ ClientGone

ConsumerInv == ControlType /\ DataInv /\ SessionInv /\ StopInv

-----------------------------------------------------------------------------
(* Stopping                                                                *)

\* Every step that is not one of stop() keeps how far the stops are: a task
\* that is destroyed and idle stays idle, and m_client is only set by start()
\* and by a recovery that runs.
LEMMA StopKept ==
    ASSUME ControlType, StopInv,
           UNCHANGED <<destroyed, stop>>, taken'["stop"] = taken["stop"],
           status' = "Stopped" <=> status = "Stopped",
           ~armed'["Deleted"],
           due'["Deleted"] > 0 => due["Deleted"] > 0 \/ starting # "init",
           starting # "init" => starting' # "init",
           \A t \in {"Delayed", "Reconnect"} : destroyed[t] /\ run[t] = "idle" => run'[t] = "idle",
           starting \in {"done", "failed"} /\ run["Reconnect"] = "idle" =>
               starting' = starting /\ client' \in {client, NoClient},
           client = NoClient /\ dropped = NoClient => dropped' = NoClient
    PROVE  StopInv'
<1>1. DeletedFirst'
  BY Zenon DEF StopInv, DeletedFirst
<1>2. InOrder'
  BY Zenon DEF StopInv, InOrder
<1>3. TasksGone'
  BY Zenon DEF StopInv, TasksGone
<1>4. ClientGone'
  BY Zenon DEF StopInv, ClientGone, TasksGone
<1> QED
  BY <1>1, <1>2, <1>3, <1>4, Zenon DEF StopInv

\* start()
LEMMA StartStop == ControlType /\ StopInv /\ Start => StopInv'
<1> SUFFICES ASSUME ControlType, StopInv, Start PROVE StopInv'
  OBVIOUS
<1>1. /\ UNCHANGED <<due, destroyed, run, taken, stop, dropped>>
      /\ starting \notin {"done", "failed"} /\ starting' # "init"
      /\ status' = "Stopped" <=> status = "Stopped"
  BY Zenon DEF Start, StartBegin, StartConnect, StartSubscribe, StartFinish, taskVars
<1>2. ~armed'["Deleted"]
  <2>1. armed' = armed \/ armed' = ArmedAfter("Persist")
    BY Zenon DEF Start, StartBegin, StartConnect, StartSubscribe, StartFinish, taskVars
  <2> QED
    BY <2>1, Zenon DEF ArmedAfter, StopInv, DeletedFirst, ControlType, Tasks
<1> QED
  BY <1>1, <1>2, StopKept, Zenon

\* The timer that stop() looks at is never set by the others.
LEMMA DeletedTimer ==
    ASSUME ControlType, ~armed["Deleted"], NEW t \in Tasks \ {"Deleted"}
    PROVE  /\ ~ArmedAfter(t)["Deleted"]
           /\ schedule_now(t) => ~armed'["Deleted"] /\ due'["Deleted"] = due["Deleted"]
<1>1. ~ArmedAfter(t)["Deleted"]
  BY Zenon DEF ArmedAfter, ControlType, Tasks
<1>2. schedule_now(t) => ~armed'["Deleted"] /\ due'["Deleted"] = due["Deleted"]
  <2>1. CASE destroyed[t]
    BY <2>1, Zenon DEF schedule_now, timerVars
  <2>2. CASE ~destroyed[t]
    BY <2>2, Zenon DEF schedule_now, ControlType, Tasks
  <2> QED
    BY <2>1, <2>2, Zenon
<1> QED
  BY <1>1, <1>2, Zenon

\* The frame threads and the broker.
LEMMA FrameStop ==
    ASSUME ControlType, StopInv, NEW s \in Sessions,
           FrameThread(s) \/ Broker(s) \/ handle_metadata_update(s) \/ Disconnect(s) \/ HeartbeatTimeout(s)
    PROVE  StopInv'
<1>0. UNCHANGED <<status, starting, destroyed, run, taken, stop>>
  BY Zenon DEF FrameThread, Broker, Handler, Deliver, BrokerStores, handle_deliver, HandleMessage, CallHandler, HandlerReturns,
         store_offset, grant_credit, HandlerThrows, StoreByCount, handle_metadata_update, Disconnect,
         NoticeDisconnect, HeartbeatTimeout, handle_shutdown, ShutdownDropped, FrameThreadEnds, confVars, taskVars
<1>1. ~armed["Deleted"]
  BY Zenon DEF StopInv, DeletedFirst
<1>2. ~armed'["Deleted"] /\ due'["Deleted"] = due["Deleted"]
  <2>1. CASE handle_metadata_update(s) \/ handle_shutdown(s) \/ ShutdownDropped(s)
    <3>1. schedule_now("Delayed") \/ schedule_now("Reconnect") \/ UNCHANGED timerVars
      BY <2>1, Zenon DEF handle_metadata_update, handle_shutdown, ShutdownDropped
    <3> QED
      BY <1>1, <3>1, DeletedTimer, Zenon DEF timerVars, Tasks
  <2>2. CASE store_offset(s) \/ StoreByCount(s)
    <3>1. (armed' = armed \/ armed' = ArmedAfter("Persist")) /\ UNCHANGED due
      BY <2>2, Zenon DEF store_offset, StoreByCount, internal_store_offset
    <3> QED
      BY <1>1, <3>1, DeletedTimer, Zenon DEF Tasks
  <2>3. CASE \/ Deliver(s) \/ BrokerStores(s) \/ handle_deliver(s) \/ HandleMessage(s) \/ CallHandler(s)
             \/ HandlerReturns(s) \/ grant_credit(s) \/ HandlerThrows(s) \/ Disconnect(s) \/ NoticeDisconnect(s) \/ HeartbeatTimeout(s)
             \/ FrameThreadEnds(s)
    BY <1>1, <2>3, Zenon DEF Deliver, BrokerStores, handle_deliver, HandleMessage, CallHandler, HandlerReturns,
                      grant_credit, HandlerThrows, Disconnect, NoticeDisconnect, HeartbeatTimeout, FrameThreadEnds, taskVars
  <2> QED
    BY <2>1, <2>2, <2>3, Zenon DEF FrameThread, Broker, Handler
<1>3. client' \in {client, NoClient} /\ (client = NoClient /\ dropped = NoClient => dropped' = NoClient)
  BY Zenon DEF FrameThread, Broker, Handler, Deliver, BrokerStores, handle_deliver, HandleMessage, CallHandler, HandlerReturns,
         store_offset, grant_credit, HandlerThrows, StoreByCount, handle_metadata_update, Disconnect,
         NoticeDisconnect, HeartbeatTimeout, handle_shutdown, Detaches, ShutdownDropped, FrameThreadEnds
<1> QED
  BY <1>0, <1>2, <1>3, StopKept, Zenon

\* The tasks.
LEMMA TaskStop ==
    ASSUME ControlType, SessionInv, StopInv,
           store_current_offset \/ DelayedTask \/ ReconnectTask \/ \E t \in Tasks : TimerExpires(t)
    PROVE  StopInv'
<1>0. UNCHANGED <<status, starting, destroyed, stop, dropped>>
  BY Zenon DEF store_current_offset, DelayedTask, DelayedBegin, DelayedEnd, ReconnectTask, ReconnectBegin, ReconnectConnect,
         ReconnectRefused, ReconnectSubscribe, ReconnectUnsubscribed, ReconnectEnd, TimerExpires, confVars
<1>1. ~armed["Deleted"]
  BY Zenon DEF StopInv, DeletedFirst
<1>2. CASE store_current_offset
  <2>1. /\ due' = [due EXCEPT !["Persist"] = @ - 1] /\ UNCHANGED <<client, run, taken>>
        /\ armed' = armed \/ armed' = ArmedAfter("Persist")
    BY <1>2, Zenon DEF store_current_offset, internal_store_offset
  <2>2. due'["Deleted"] = due["Deleted"] /\ ~armed'["Deleted"]
    BY <1>1, <2>1, DeletedTimer, ZenonT(60) DEF ControlType, Tasks
  <2> QED
    BY <1>0, <2>1, <2>2, StopKept, Zenon
<1>3. CASE \E t \in Tasks : TimerExpires(t)
  <2>1. PICK t \in Tasks : TimerExpires(t)
    BY <1>3, Zenon
  <2>2. t # "Deleted" /\ due' = [due EXCEPT ![t] = @ + 1] /\ armed' = [armed EXCEPT ![t] = FALSE]
        /\ UNCHANGED <<client, run, taken>>
    BY <1>1, <2>1, Zenon DEF TimerExpires
  <2>3. due'["Deleted"] = due["Deleted"] /\ ~armed'["Deleted"]
    BY <1>1, <2>2, Zenon DEF ControlType, Tasks
  <2> QED
    BY <1>0, <2>2, <2>3, StopKept, Zenon
<1>4. CASE DelayedTask
  <2>1. /\ due' = due \/ due' = [due EXCEPT !["Delayed"] = @ - 1]
        /\ armed' = armed \/ armed' = ArmedAfter("Reconnect")
        /\ client' \in {client, NoClient}
        /\ taken' = taken \/ \E c : taken' = [taken EXCEPT !["Delayed"] = c]
        /\ run' = run \/ \E r : run' = [run EXCEPT !["Delayed"] = r] /\ (destroyed["Delayed"] /\ run["Delayed"] = "idle" => r = "idle")
    BY <1>4, Zenon DEF DelayedTask, DelayedBegin, DelayedEnd, Ready
  <2>2. due'["Deleted"] = due["Deleted"] /\ ~armed'["Deleted"]
    BY <1>1, <2>1, DeletedTimer DEF ControlType, Tasks
  <2>3. /\ taken'["stop"] = taken["stop"]
        /\ \A t \in {"Delayed", "Reconnect"} : destroyed[t] /\ run[t] = "idle" => run'[t] = "idle"
    BY <2>1, Zenon DEF ControlType, Tasks, Takers
  <2> QED
    BY <1>0, <2>1, <2>2, <2>3, StopKept, Zenon
<1>5. CASE ReconnectTask
  <2>1. /\ due' = due \/ due' = [due EXCEPT !["Reconnect"] = @ - 1] \/ (schedule_now("Deleted") /\ run["Reconnect"] # "idle")
        /\ armed' = armed \/ armed' = ArmedAfter("Reconnect") \/ schedule_now("Deleted")
    BY <1>5, Zenon DEF ReconnectTask, ReconnectBegin, ReconnectConnect, ReconnectRefused, ReconnectSubscribe,
                ReconnectUnsubscribed, ReconnectEnd, timerVars
  <2>2. /\ run["Reconnect"] = "idle" => client' = client
        /\ taken' = taken \/ \E c : taken' = [taken EXCEPT !["Reconnect"] = c]
        /\ run' = run \/ \E r : run' = [run EXCEPT !["Reconnect"] = r]
        /\ destroyed["Reconnect"] => run["Reconnect"] # "idle"
    BY <1>5, Zenon DEF ReconnectTask, ReconnectBegin, ReconnectConnect, ReconnectRefused, ReconnectSubscribe,
                ReconnectUnsubscribed, ReconnectEnd, Ready
  <2>3. due'["Deleted"] > 0 => due["Deleted"] > 0 \/ starting # "init"
    <3>1. CASE run["Reconnect"] # "idle"
      BY <3>1, Zenon DEF SessionInv, Hands
    <3>2. CASE run["Reconnect"] = "idle"
      BY <2>1, <3>2, Zenon DEF ControlType, Tasks
    <3> QED
      BY <3>1, <3>2, Zenon
  <2>4. ~armed'["Deleted"]
    <3>1. CASE schedule_now("Deleted")
      BY <1>1, <3>1, Zenon DEF schedule_now, timerVars, ControlType, Tasks
    <3>2. CASE armed' = armed \/ armed' = ArmedAfter("Reconnect")
      BY <1>1, <3>2, DeletedTimer, Zenon DEF Tasks
    <3> QED
      BY <2>1, <3>1, <3>2, Zenon
  <2>5. /\ taken'["stop"] = taken["stop"]
        /\ \A t \in {"Delayed", "Reconnect"} : destroyed[t] /\ run[t] = "idle" => run'[t] = "idle"
    BY <2>2, Zenon DEF ControlType, Tasks, Takers
  <2> QED
    BY <1>0, <2>2, <2>3, <2>4, <2>5, StopKept, Zenon
<1> QED
  BY <1>2, <1>3, <1>4, <1>5, Zenon

\* stop() itself: the first to exchange m_status has destroyed the tasks before,
\* and takes the client when start() and handle_shutdown have let go of m_mutex.
LEMMA StopStop ==
    ASSUME ControlType, SessionInv, StopInv, StopCall \/ DeletedBegin \/ \E a \in Stoppers : Stop(a)
    PROVE  StopInv'
<1>0. stop \in [Stoppers -> StopStates] /\ destroyed \in [Tasks -> BOOLEAN] /\ due \in [Tasks -> Nat]
      /\ taken \in [Takers -> Sessions \cup {NoClient}]
  BY Zenon DEF ControlType
<1>1. CASE StopCall
  <2>1. /\ stop' = [stop EXCEPT !["user"] = "Deleted"] /\ destroyed' = [destroyed EXCEPT !["Deleted"] = TRUE]
        /\ stop["user"] = "idle" /\ starting # "init"
        /\ UNCHANGED <<status, starting, client, dropped, due, armed, run, taken>>
    BY <1>1, Zenon DEF StopCall, confVars, timerVars
  <2>2. /\ stop'["user"] = "Deleted" /\ stop'["Deleted"] = stop["Deleted"]
        /\ destroyed'["Deleted"] = TRUE
        /\ destroyed'["Delayed"] = destroyed["Delayed"] /\ destroyed'["Reconnect"] = destroyed["Reconnect"]
    BY <1>0, <2>1, Zenon DEF Stoppers, Tasks
  <2>6. DeletedFirst'
    BY <2>1, <2>2, Zenon DEF StopInv, DeletedFirst, Stoppers
  <2>7. InOrder'
    BY <2>1, <2>2, Zenon DEF StopInv, InOrder, Stoppers, Tasks, Finishing
  <2>8. TasksGone'
    BY <2>1, <2>2, Zenon DEF StopInv, TasksGone, InOrder, Tasks, Stoppers
  <2>9. ClientGone'
    BY <2>1, <2>2, Zenon DEF StopInv, ClientGone, DeletedFirst, InOrder, Stoppers, Finishing, Holding
  <2> QED
    BY <2>6, <2>7, <2>8, <2>9, Zenon DEF StopInv
<1>2. CASE DeletedBegin
  <2>1. /\ stop' = [stop EXCEPT !["Deleted"] = "Persist"] /\ destroyed' = [destroyed EXCEPT !["Persist"] = TRUE]
        /\ due' = [due EXCEPT !["Deleted"] = @ - 1] /\ due["Deleted"] > 0 /\ ~destroyed["Deleted"]
        /\ stop["Deleted"] = "idle"
        /\ UNCHANGED <<status, starting, client, dropped, armed, run, taken>>
    BY <1>2, Zenon DEF DeletedBegin, Ready, confVars
  <2>2. /\ stop'["Deleted"] = "Persist" /\ stop'["user"] = stop["user"]
        /\ destroyed'["Deleted"] = destroyed["Deleted"]
        /\ destroyed'["Delayed"] = destroyed["Delayed"] /\ destroyed'["Reconnect"] = destroyed["Reconnect"]
    BY <1>0, <2>1, Zenon DEF Stoppers, Tasks
  <2>6. DeletedFirst'
    BY <2>1, <2>2, Zenon DEF StopInv, DeletedFirst, Stoppers
  <2>7. InOrder'
    BY <2>1, <2>2, Zenon DEF StopInv, InOrder, Stoppers, Tasks, Finishing
  <2>8. TasksGone'
    BY <2>1, <2>2, Zenon DEF StopInv, TasksGone, InOrder, Tasks, Stoppers
  <2>9. ClientGone'
    BY <2>1, <2>2, Zenon DEF StopInv, ClientGone, DeletedFirst, InOrder, Stoppers, Finishing, Holding
  <2> QED
    BY <2>6, <2>7, <2>8, <2>9, Zenon DEF StopInv
<1>3. ASSUME NEW a \in Stoppers, StopDestroys(a) PROVE StopInv'
  <2>1. /\ stop[a] \in {"Deleted", "Persist", "Delayed"} /\ ~Running(stop[a])
        /\ stop' = [stop EXCEPT ![a] = DestroyOrder[stop[a]]]
        /\ destroyed' = [destroyed EXCEPT ![DestroyOrder[stop[a]]] = TRUE]
        /\ UNCHANGED <<status, starting, client, dropped, due, armed, run, taken>>
    BY <1>3, Order, Zenon DEF StopDestroys, confVars, timerVars
  <2>2. /\ \A b \in Stoppers \ {a} : stop'[b] = stop[b]
        /\ stop[a] = "Deleted" => stop'[a] = "Persist" /\ stop["Deleted"] = "idle"
        /\ stop[a] = "Persist" => stop'[a] = "Delayed" /\ destroyed'["Delayed"]
        /\ stop[a] = "Delayed" => stop'[a] = "Reconnect" /\ destroyed'["Reconnect"] /\ run["Delayed"] = "idle"
        /\ \A t \in Tasks : destroyed[t] => destroyed'[t]
    BY <1>0, <2>1 DEF DestroyOrder, Running, Stoppers, Tasks
  <2>6. DeletedFirst'
    BY <2>1, <2>2 DEF StopInv, DeletedFirst, Stoppers
  <2>7. InOrder'
    BY <2>1, <2>2, Zenon DEF StopInv, InOrder, Stoppers, Tasks, Finishing
  <2>8. TasksGone'
    BY <2>1, <2>2, Zenon DEF StopInv, TasksGone, InOrder, Tasks, Stoppers
  <2>9. ClientGone'
    BY <2>1, <2>2, ZenonT(60) DEF StopInv, ClientGone, DeletedFirst, InOrder, Stoppers, Finishing, Holding
  <2> QED
    BY <2>6, <2>7, <2>8, <2>9, Zenon DEF StopInv
<1>4. ASSUME NEW a \in Stoppers, StopExchange(a) PROVE StopInv'
  <2>1. /\ stop[a] = "Reconnect" /\ run["Reconnect"] = "idle" /\ status' = "Stopped"
        /\ stop' = [stop EXCEPT ![a] = IF status = "Stopped" THEN StopEnd(a) ELSE "client"]
        /\ UNCHANGED <<starting, client, dropped, due, armed, destroyed, run, taken>>
    BY <1>4, Zenon DEF StopExchange, Running, taskVars
  <2>2. /\ \A b \in Stoppers \ {a} : stop'[b] = stop[b]
        /\ stop'[a] \in {"client", "idle", "done"} /\ (stop'[a] = "client" <=> status # "Stopped")
        /\ a = "user" => stop'[a] # "idle"
        /\ a = "Deleted" => stop'[a] # "done"
    BY <1>0, <2>1, Zenon DEF StopEnd, Stoppers
  <2>6. DeletedFirst'
    BY <2>1, <2>2, Zenon DEF StopInv, DeletedFirst, Stoppers
  <2>7. InOrder'
    BY <2>1, <2>2, Zenon DEF StopInv, InOrder, Stoppers, Tasks, Finishing
  <2>8. TasksGone'
    BY <2>1, <2>2, Zenon DEF StopInv, TasksGone, InOrder, Tasks, Stoppers
  <2>3. \A b \in Stoppers : stop'[b] \in Finishing => stop[b] \in Finishing \/ (b = a /\ status # "Stopped")
    BY <2>1, <2>2, Zenon DEF Finishing
  <2>4. status # "Stopped" => \A b \in Stoppers : stop[b] \notin Finishing
    BY Zenon DEF StopInv, InOrder
  <2>5. /\ stop[a] \notin Holding /\ stop'[a] \notin Holding /\ stop[a] # "client"
        /\ status # "Stopped" => stop'[a] = "client"
    BY <2>1, <2>2 DEF Holding
  <2>9. ClientGone'
    <3>1. \A b, d \in Stoppers : stop'[b] \in Finishing /\ stop'[d] \in Finishing => b = d
      BY <2>3, <2>4, Zenon DEF StopInv, ClientGone
    <3>2. (\A b \in Stoppers : stop'[b] \notin Holding) => taken'["stop"] = NoClient
      BY <2>1, <2>2, <2>5, Zenon DEF StopInv, ClientGone
    <3>3. (\A b \in Stoppers : stop'[b] # "client") =>
              client' = NoClient /\ dropped' = NoClient /\ starting' \in {"done", "failed"}
      BY <2>1, <2>2, <2>5, Zenon DEF StopInv, ClientGone
    <3> QED
      BY <3>1, <3>2, <3>3, Zenon DEF ClientGone
  <2> QED
    BY <2>6, <2>7, <2>8, <2>9, Zenon DEF StopInv
<1>5. ASSUME NEW a \in Stoppers, StopClient(a) PROVE StopInv'
  <2>1. /\ stop[a] = "client" /\ Unlocked /\ taken' = [taken EXCEPT !["stop"] = client] /\ client' = NoClient
        /\ stop' = [stop EXCEPT ![a] = IF client = NoClient THEN StopEnd(a) ELSE "unsubscribe"]
        /\ UNCHANGED <<status, starting, dropped, due, armed, destroyed, run>>
    BY <1>5, Zenon DEF StopClient, confVars, taskVars
  <2>2. /\ \A b \in Stoppers \ {a} : stop'[b] = stop[b]
        /\ stop'[a] \in {"unsubscribe", "idle", "done"} /\ (stop'[a] = "unsubscribe" <=> client # NoClient)
        /\ a = "user" => stop'[a] # "idle"
        /\ a = "Deleted" => stop'[a] # "done"
        /\ taken'["stop"] = client
    BY <1>0, <2>1, Zenon DEF StopEnd, Stoppers, Takers
  <2>3. starting \in {"done", "failed"} /\ dropped = NoClient /\ status = "Stopped"
    BY <2>1, Zenon DEF Unlocked, StopInv, DeletedFirst, InOrder, ControlType, Stoppers, Finishing
  <2>6. DeletedFirst'
    BY <2>1, <2>2, <2>3, Zenon DEF StopInv, DeletedFirst, Stoppers
  <2>7. InOrder'
    BY <2>1, <2>2, <2>3, Zenon DEF StopInv, InOrder, Stoppers, Tasks, Finishing
  <2>8. TasksGone'
    BY <2>1, <2>2, <2>3, Zenon DEF StopInv, TasksGone, InOrder, Tasks, Stoppers
  <2>9. ClientGone'
    BY <2>1, <2>2, <2>3 DEF StopInv, ClientGone, DeletedFirst, InOrder, Stoppers, Finishing, Holding
  <2> QED
    BY <2>6, <2>7, <2>8, <2>9, Zenon DEF StopInv
<1>6. ASSUME NEW a \in Stoppers, StopUnsubscribe(a) \/ StopStore(a) PROVE StopInv'
  <2>1. /\ stop[a] \in {"unsubscribe", "store"}
        /\ stop' = [stop EXCEPT ![a] = IF stop[a] = "store" THEN "join" ELSE "store"]
        /\ UNCHANGED <<status, starting, client, dropped, due, armed, destroyed, run, taken>>
    BY <1>6, Zenon DEF StopUnsubscribe, StopStore, confVars, taskVars
  <2>2. (\A b \in Stoppers \ {a} : stop'[b] = stop[b]) /\ stop'[a] \in {"store", "join"}
    BY <1>0, <2>1, Zenon
  <2>6. DeletedFirst'
    BY <2>1, <2>2, Zenon DEF StopInv, DeletedFirst, Stoppers
  <2>7. InOrder'
    BY <2>1, <2>2, Zenon DEF StopInv, InOrder, Stoppers, Tasks, Finishing
  <2>8. TasksGone'
    BY <2>1, <2>2, Zenon DEF StopInv, TasksGone, InOrder, Tasks, Stoppers
  <2>9. ClientGone'
    BY <2>1, <2>2 DEF StopInv, ClientGone, DeletedFirst, InOrder, Stoppers, Finishing, Holding
  <2> QED
    BY <2>6, <2>7, <2>8, <2>9, Zenon DEF StopInv
<1>7. ASSUME NEW a \in Stoppers, StopJoined(a) PROVE StopInv'
  <2>1. /\ stop[a] = "join" /\ taken' = [taken EXCEPT !["stop"] = NoClient] /\ stop' = [stop EXCEPT ![a] = StopEnd(a)]
        /\ UNCHANGED <<status, starting, client, dropped, due, armed, destroyed, run>>
    BY <1>7, Zenon DEF StopJoined, confVars, taskVars
  <2>2. /\ \A b \in Stoppers \ {a} : stop'[b] = stop[b]
        /\ stop'[a] \in {"idle", "done"} /\ (a = "user" <=> stop'[a] = "done")
        /\ taken'["stop"] = NoClient
    BY <1>0, <2>1, Zenon DEF StopEnd, Stoppers, Takers
  <2>6. DeletedFirst'
    BY <2>1, <2>2, Zenon DEF StopInv, DeletedFirst, Stoppers
  <2>7. InOrder'
    BY <2>1, <2>2, Zenon DEF StopInv, InOrder, Stoppers, Tasks, Finishing
  <2>8. TasksGone'
    BY <2>1, <2>2, Zenon DEF StopInv, TasksGone, InOrder, Tasks, Stoppers
  <2>9. ClientGone'
    BY <2>1, <2>2, Zenon DEF StopInv, ClientGone, DeletedFirst, InOrder, Stoppers, Finishing, Holding
  <2> QED
    BY <2>6, <2>7, <2>8, <2>9, Zenon DEF StopInv
<1> QED
  BY <1>1, <1>2, <1>3, <1>4, <1>5, <1>6, <1>7, Zenon DEF Stop

-----------------------------------------------------------------------------
(* Who holds a session                                                     *)

\* ClientImpl::stop() of a session changes that one only, and not to its end.
LEMMA ClosingOne ==
    ASSUME ControlType, NEW c, NEW s \in Sessions
    PROVE  Closing(c)[s] = sess[s] \/ (s = c /\ sess[s] \in {"up", "dead"} /\ Closing(c)[s] = "closing")
PROOF BY Zenon DEF Closing, ControlType

\* Steps that give no session to another holder, start none and end none that
\* is at a message.
LEMMA SessionKept ==
    ASSUME ControlType, SessionInv,
           Holders' = Holders, Hands',
           \A s \in Sessions : sess'[s] = sess[s] \/ (sess[s] \notin {"none", "closed"} /\ sess'[s] # "none"),
           \A s \in Sessions : \/ sess'[s] \notin {"none", "closed", "locking"}
                               \/ frame'[s] = NoFrame
                               \/ sess'[s] = sess[s] /\ frame'[s] = frame[s]
    PROVE  SessionInv'
<1>1. Owned'
  BY Zenon DEF SessionInv, Owned
<1>2. AtNoMessage'
  BY Zenon DEF SessionInv, AtNoMessage
<1> QED
  BY <1>1, <1>2, Zenon DEF SessionInv

\* start()
LEMMA StartSession == ControlType /\ DataInv /\ SessionInv /\ Start => SessionInv'
<1> SUFFICES ASSUME ControlType, DataInv, SessionInv, Start PROVE SessionInv'
  OBVIOUS
<1>1. UNCHANGED <<frame, dropped, run, taken>> /\ starting # "done" /\ run["Reconnect"] = "idle"
  BY Zenon DEF Start, StartBegin, StartConnect, StartSubscribe, StartFinish, subVars, taskVars, SessionInv, Hands
<1>2. CASE StartConnect
  <2>1. starting = "connect" /\ starting' \in {"subscribe", "failed"} /\ client = NoClient /\ client' \in {NoClient, 1}
    BY <1>2, Zenon DEF StartConnect, SessionInv, Hands
  <2>2. \/ client' = 1 /\ sess' = [sess EXCEPT ![1] = "up"]
        \/ sess' = [sess EXCEPT ![1] = "closed"]
    BY <1>2, Zenon DEF StartConnect
  <2>3. frame[1] = NoFrame
    BY <2>1, SessionNumbers, Zenon DEF DataInv, StartInv, AllUnused, Unused, Starting
  <2>4. Owned'
    BY <1>1, <2>1, <2>2, SessionNumbers, Zenon DEF SessionInv, Owned, Holders, ControlType
  <2>5. AtNoMessage'
    BY <1>1, <2>2, <2>3, SessionNumbers, Zenon DEF SessionInv, AtNoMessage, ControlType
  <2>6. Hands'
    BY <1>1, <2>1, Zenon DEF SessionInv, Hands
  <2> QED
    BY <2>4, <2>5, <2>6, Zenon DEF SessionInv
<1>3. CASE StartBegin \/ StartSubscribe \/ StartFinish
  <2>1. /\ UNCHANGED <<sess, client>>
        /\ (starting = "init" /\ starting' = "connect") \/ starting' \in {"finish", "failed", "done"}
    BY <1>3, Zenon DEF StartBegin, StartSubscribe, StartFinish, sessVars
  <2>2. Hands' /\ Holders' = Holders
    BY <1>1, <2>1, Zenon DEF SessionInv, Hands, Holders
  <2> QED
    BY <1>1, <2>1, <2>2, SessionKept, Zenon
<1> QED
  BY <1>2, <1>3, Zenon DEF Start

\* A frame thread moves on at a message, and only a session that is up or dead
\* gets to one.
LEMMA MessageSession ==
    ASSUME ControlType, DataInv, SessionInv, NEW s \in Sessions,
           \/ handle_deliver(s) \/ HandleMessage(s) \/ CallHandler(s) \/ Handler(s) \/ StoreByCount(s) \/ Broker(s)
           \/ handle_metadata_update(s)
    PROVE  SessionInv'
<1>1. UNCHANGED <<starting, client, sess, dropped, run, taken>>
  BY Zenon DEF Broker, Handler, Deliver, BrokerStores, handle_deliver, HandleMessage, CallHandler, HandlerReturns, store_offset,
         grant_credit, HandlerThrows, StoreByCount, handle_metadata_update, confVars, sessVars, taskVars
<1>2. \/ UNCHANGED frame
      \/ /\ sess[s] \in {"up", "dead"} \/ frame[s].step \in {"message", "call", "handler", "store"}
         /\ \E f : frame' = [frame EXCEPT ![s] = f]
  BY Zenon DEF Broker, Handler, Deliver, BrokerStores, handle_deliver, HandleMessage, CallHandler, HandlerReturns, store_offset,
         grant_credit, HandlerThrows, StoreByCount, handle_metadata_update, subVars
<1>3. NoFrame.step = "none"
  BY Zenon DEF NoFrame
<1>4. UNCHANGED frame \/ (sess[s] \notin {"none", "closed", "locking"} /\ \E f : frame' = [frame EXCEPT ![s] = f])
  BY <1>2, <1>3, Zenon DEF SessionInv, AtNoMessage
<1>5. Hands' /\ Holders' = Holders
  BY <1>1, Zenon DEF SessionInv, Hands, Holders
<1>6. frame \in [Sessions -> Frames]
  BY Zenon DEF DataInv, DataType
<1> QED
  BY <1>1, <1>4, <1>5, <1>6, SessionKept, Zenon

\* A connection is lost; a frame thread notices, or ends.
LEMMA LostSession ==
    ASSUME ControlType, SessionInv, NEW s \in Sessions,
           Disconnect(s) \/ HeartbeatTimeout(s) \/ NoticeDisconnect(s) \/ FrameThreadEnds(s)
    PROVE  SessionInv'
<1>1. UNCHANGED <<starting, client, frame, dropped, run, taken>>
  BY Zenon DEF Disconnect, HeartbeatTimeout, NoticeDisconnect, FrameThreadEnds, confVars, subVars, taskVars
<1>2. \E v \in {"dead", "closing", "silent", "locking", "closed"} :
          /\ sess' = [sess EXCEPT ![s] = v] /\ sess[s] \in {"up", "closing", "dead"}
          /\ v \in {"locking", "closed"} => frame[s] = NoFrame
  <2>1. CASE Disconnect(s)
    <3>1. sess[s] \in {"up", "closing"} /\ sess' = [sess EXCEPT ![s] = IF sess[s] = "up" THEN "dead" ELSE sess[s]]
      BY <2>1, Zenon DEF Disconnect
    <3> QED
      BY Zenon, <3>1
  <2>2. CASE HeartbeatTimeout(s) \/ NoticeDisconnect(s) \/ FrameThreadEnds(s)
    BY <2>2, Zenon DEF HeartbeatTimeout, NoticeDisconnect, FrameThreadEnds
  <2> QED
    BY <2>1, <2>2, Zenon
<1>3. Hands' /\ Holders' = Holders
  BY <1>1, Zenon DEF SessionInv, Hands, Holders
<1> QED
  BY <1>1, <1>2, <1>3, SessionKept, Zenon DEF ControlType

\* handle_shutdown: the session that it forgets has just ended, and the one that
\* it destroys is in its hands.
LEMMA ShutdownSession ==
    ASSUME ControlType, SessionInv, NEW s \in Sessions, handle_shutdown(s) \/ ShutdownDropped(s)
    PROVE  SessionInv'
<1>1. UNCHANGED <<starting, frame, run, taken>>
  BY Zenon DEF handle_shutdown, ShutdownDropped, confVars, subVars
<1>2. CASE handle_shutdown(s)
  <2>1. sess[s] \in {"locking", "silent"} /\ dropped = NoClient /\ client' = NoClient
    BY <1>2, Zenon DEF handle_shutdown, Unlocked
  <2>2. Hands'
    BY <1>1, <2>1, Zenon DEF SessionInv, Hands
  <2>3. CASE /\ Detaches(s) /\ UNCHANGED dropped
             /\ sess' = [sess EXCEPT ![s] = IF sess[s] = "locking" THEN "closed" ELSE "closing"]
    <3>1. Owned'
      BY <1>1, <2>1, <2>3, Zenon DEF SessionInv, Owned, Holders, Detaches, ControlType
    <3>2. AtNoMessage'
      BY <1>1, <2>1, <2>3, Zenon DEF SessionInv, AtNoMessage, ControlType
    <3> QED
      BY <2>2, <3>1, <3>2, Zenon DEF SessionInv
  <2>4. CASE /\ dropped' = client
             /\ sess' = [Closing(client) EXCEPT ![s] = IF client = s THEN "joining" ELSE "dropping"]
    <3>1. Closing(client) \in [Sessions -> SessionStates]
      BY ClosingType, Zenon
    <3>2. sess'[s] \in {"joining", "dropping"} /\ \A r \in Sessions \ {s} : sess'[r] \in {sess[r], "closing"}
      BY <2>4, <3>1, ClosingOne, Zenon
    <3>3. \A r \in Sessions \ {s} : sess'[r] = sess[r] \/ r = client
      BY <2>4, <3>1, ClosingOne, Zenon
    <3>4. Owned'
      BY <1>1, <2>1, <2>4, <3>3, Zenon DEF SessionInv, Owned, Holders
    <3>5. AtNoMessage'
      BY <1>1, <3>2, Zenon DEF SessionInv, AtNoMessage
    <3> QED
      BY <2>2, <3>4, <3>5, Zenon DEF SessionInv
  <2> QED
    BY <1>2, <2>3, <2>4, Zenon DEF handle_shutdown
<1>3. CASE ShutdownDropped(s)
  <2>1. /\ sess[s] = "dropping" /\ sess' = [sess EXCEPT ![s] = "closing"] /\ client' = client
        /\ dropped # NoClient => sess[dropped] = "closed"
        /\ dropped' = NoClient
    BY <1>3, Zenon DEF ShutdownDropped, Joined
  <2>2. Hands'
    BY <1>1, <2>1, Zenon DEF SessionInv, Hands
  <2>3. Owned'
    BY <1>1, <2>1, SessionNumbers, Zenon DEF SessionInv, Owned, Holders, ControlType
  <2>4. AtNoMessage'
    BY <1>1, <2>1, Zenon DEF SessionInv, AtNoMessage, ControlType
  <2> QED
    BY <2>2, <2>3, <2>4, Zenon DEF SessionInv
<1> QED
  BY <1>2, <1>3, Zenon

\* The persist task and the timers leave the sessions alone.
LEMMA IdleSession ==
    ASSUME ControlType, SessionInv, store_current_offset \/ \E t \in Tasks : TimerExpires(t)
    PROVE  SessionInv'
<1>1. UNCHANGED <<starting, client, sess, frame, dropped, run, taken>>
  BY Zenon DEF store_current_offset, TimerExpires, confVars, sessVars, subVars
<1>2. Hands' /\ Holders' = Holders
  BY <1>1, Zenon DEF SessionInv, Hands, Holders
<1> QED
  BY <1>1, <1>2, SessionKept, Zenon

\* delayed_reconnect
LEMMA DelayedSession == ControlType /\ SessionInv /\ DelayedTask => SessionInv'
<1> SUFFICES ASSUME ControlType, SessionInv, DelayedTask PROVE SessionInv'
  OBVIOUS
<1>0. UNCHANGED <<starting, frame, dropped>>
  BY Zenon DEF DelayedTask, DelayedBegin, DelayedEnd, confVars, subVars
<1>1. CASE DelayedBegin /\ status = "Started"
  <2>1. /\ run["Delayed"] = "idle" /\ taken' = [taken EXCEPT !["Delayed"] = client] /\ client' = NoClient
        /\ sess' = Closing(client) /\ run' = [run EXCEPT !["Delayed"] = "join"]
    BY <1>1, Zenon DEF DelayedBegin, Ready
  <2>2. /\ taken["Delayed"] = NoClient /\ taken'["Delayed"] = client
        /\ taken'["Reconnect"] = taken["Reconnect"] /\ taken'["stop"] = taken["stop"]
        /\ run'["Delayed"] = "join" /\ run'["Reconnect"] = run["Reconnect"]
    BY <2>1, Zenon DEF SessionInv, Hands, ControlType, Takers, Tasks
  <2>3. \A s \in Sessions : sess'[s] = sess[s] \/ (s = client /\ sess'[s] = "closing")
    BY <2>1, ClosingOne, Zenon
  <2>4. Hands'
    BY <1>0, <2>1, <2>2, Zenon DEF SessionInv, Hands
  <2>5. Owned'
    BY <1>0, <2>1, <2>2, <2>3, SessionNumbers, Zenon DEF SessionInv, Owned, Holders
  <2>6. AtNoMessage'
    BY <1>0, <2>3, Zenon DEF SessionInv, AtNoMessage
  <2> QED
    BY <2>4, <2>5, <2>6, Zenon DEF SessionInv
<1>2. CASE DelayedBegin /\ status # "Started"
  <2>1. UNCHANGED <<taken, client, sess, run>>
    BY <1>2, Zenon DEF DelayedBegin
  <2>2. Hands' /\ Holders' = Holders
    BY <1>0, <2>1, Zenon DEF SessionInv, Hands, Holders
  <2> QED
    BY <1>0, <2>1, <2>2, SessionKept, Zenon
<1>3. CASE DelayedEnd
  <2>1. /\ Joined(taken["Delayed"]) /\ taken' = [taken EXCEPT !["Delayed"] = NoClient]
        /\ run' = [run EXCEPT !["Delayed"] = "idle"] /\ UNCHANGED <<client, sess>>
    BY <1>3, Zenon DEF DelayedEnd, sessVars
  <2>2. /\ taken'["Delayed"] = NoClient /\ taken'["Reconnect"] = taken["Reconnect"] /\ taken'["stop"] = taken["stop"]
        /\ run'["Reconnect"] = run["Reconnect"]
    BY <2>1, Zenon DEF ControlType, Takers, Tasks
  <2>3. Hands'
    BY <1>0, <2>1, <2>2, Zenon DEF SessionInv, Hands
  <2>4. Owned'
    BY <1>0, <2>1, <2>2, SessionNumbers, Zenon DEF SessionInv, Owned, Holders, Joined
  <2>5. AtNoMessage'
    BY <1>0, <2>1, Zenon DEF SessionInv, AtNoMessage
  <2> QED
    BY <2>3, <2>4, <2>5, Zenon DEF SessionInv
<1> QED
  BY <1>1, <1>2, <1>3, Zenon DEF DelayedTask

\* reconnect_to_server
LEMMA ReconnectSession == ControlType /\ DataInv /\ SessionInv /\ ReconnectTask => SessionInv'
<1> SUFFICES ASSUME ControlType, DataInv, SessionInv, ReconnectTask PROVE SessionInv'
  OBVIOUS
<1>0. UNCHANGED <<starting, frame, dropped>>
  BY Zenon DEF ReconnectTask, ReconnectBegin, ReconnectConnect, ReconnectRefused, ReconnectSubscribe,
         ReconnectUnsubscribed, ReconnectEnd, confVars, subVars
<1>1. ASSUME NEW r, run' = [run EXCEPT !["Reconnect"] = r]
      PROVE  run'["Reconnect"] = r /\ run'["Delayed"] = run["Delayed"]
  BY <1>1, Zenon DEF ControlType, Tasks
<1>2. ASSUME NEW c, taken' = [taken EXCEPT !["Reconnect"] = c]
      PROVE  taken'["Reconnect"] = c /\ taken'["Delayed"] = taken["Delayed"] /\ taken'["stop"] = taken["stop"]
  BY <1>2, Zenon DEF ControlType, Takers
<1>3. CASE ReconnectBegin
  <2>1. /\ run["Reconnect"] = "idle" /\ UNCHANGED <<client, sess, taken>>
        /\ run' = [run EXCEPT !["Reconnect"] = IF client # NoClient \/ status # "Started" THEN "idle" ELSE "connect"]
    BY <1>3, Zenon DEF ReconnectBegin, Ready, sessVars
  <2>2. /\ run'["Reconnect"] \in {"idle", "connect"} /\ run'["Delayed"] = run["Delayed"]
        /\ run'["Reconnect"] = "connect" => client = NoClient /\ status = "Started"
    BY <1>1, <2>1, Zenon
  <2>3. Hands' /\ Holders' = Holders
    BY <1>0, <2>1, <2>2, Zenon DEF SessionInv, Hands, Holders, DataInv, StartInv
  <2> QED
    BY <1>0, <2>1, <2>3, SessionKept, Zenon
<1>4. CASE ReconnectConnect
  <2>1. /\ run["Reconnect"] = "connect" /\ nsess' \in Sessions /\ client' = client
        /\ sess' = [sess EXCEPT ![nsess'] = "up"]
        /\ taken' = [taken EXCEPT !["Reconnect"] = nsess'] /\ run' = [run EXCEPT !["Reconnect"] = "subscribe"]
    BY <1>4, Zenon DEF ReconnectConnect
  <2>2. /\ run'["Reconnect"] = "subscribe" /\ run'["Delayed"] = run["Delayed"]
        /\ taken'["Reconnect"] = nsess' /\ taken'["Delayed"] = taken["Delayed"] /\ taken'["stop"] = taken["stop"]
    BY Zenon, <1>1, <1>2, <2>1
  <2>3. Hands'
    BY <1>0, <2>1, <2>2, Zenon DEF SessionInv, Hands
  <2>4. Owned'
    BY <1>0, <2>1, <2>2, SessionNumbers, Zenon DEF SessionInv, Owned, Holders, Hands, ControlType
  <2>5. AtNoMessage'
    BY <1>0, <2>1, Zenon DEF SessionInv, AtNoMessage, ControlType
  <2> QED
    BY <2>3, <2>4, <2>5, Zenon DEF SessionInv
<1>5. CASE ReconnectRefused \/ ReconnectUnsubscribed \/ (ReconnectSubscribe /\ status # "Started")
  <2>1. /\ run["Reconnect"] \in {"connect", "subscribe"} /\ UNCHANGED <<client, taken>>
        /\ sess' = sess \/ sess' = Closing(taken["Reconnect"])
        /\ \E r \in {"retry", "deleted", "bail"} : run' = [run EXCEPT !["Reconnect"] = r]
    BY <1>5, Zenon DEF ReconnectRefused, ReconnectUnsubscribed, ReconnectSubscribe, Caught, sessVars
  <2>2. run'["Reconnect"] \in {"retry", "deleted", "bail"} /\ run'["Delayed"] = run["Delayed"]
    BY Zenon, <1>1, <2>1
  <2>3. Hands' /\ Holders' = Holders
    BY <1>0, <2>1, <2>2, Zenon DEF SessionInv, Hands, Holders
  <2>4. \A s \in Sessions : sess'[s] = sess[s] \/ (sess[s] \in {"up", "dead"} /\ sess'[s] = "closing")
    BY <2>1, ClosingOne
  <2> QED
    BY <1>0, <2>3, <2>4, SessionKept, Zenon
<1>6. CASE ReconnectSubscribe /\ status = "Started"
  <2>1. /\ run["Reconnect"] = "subscribe" /\ client' = taken["Reconnect"] /\ UNCHANGED sess
        /\ taken' = [taken EXCEPT !["Reconnect"] = NoClient] /\ run' = [run EXCEPT !["Reconnect"] = "idle"]
    BY <1>6, Zenon DEF ReconnectSubscribe
  <2>2. /\ run'["Reconnect"] = "idle" /\ run'["Delayed"] = run["Delayed"]
        /\ taken'["Reconnect"] = NoClient /\ taken'["Delayed"] = taken["Delayed"] /\ taken'["stop"] = taken["stop"]
    BY Zenon, <1>1, <1>2, <2>1
  <2>3. Hands'
    BY <1>0, <2>1, <2>2, Zenon DEF SessionInv, Hands
  <2>4. Owned'
    BY <1>0, <2>1, <2>2, SessionNumbers, Zenon DEF SessionInv, Owned, Holders, Hands
  <2>5. AtNoMessage'
    BY <1>0, <2>1, Zenon DEF SessionInv, AtNoMessage
  <2> QED
    BY <2>3, <2>4, <2>5, Zenon DEF SessionInv
<1>7. CASE ReconnectEnd
  <2>1. /\ run["Reconnect"] \in {"retry", "deleted", "bail"} /\ Joined(taken["Reconnect"]) /\ UNCHANGED <<client, sess>>
        /\ taken' = [taken EXCEPT !["Reconnect"] = NoClient] /\ run' = [run EXCEPT !["Reconnect"] = "idle"]
    BY <1>7, Zenon DEF ReconnectEnd, sessVars
  <2>2. /\ run'["Reconnect"] = "idle" /\ run'["Delayed"] = run["Delayed"]
        /\ taken'["Reconnect"] = NoClient /\ taken'["Delayed"] = taken["Delayed"] /\ taken'["stop"] = taken["stop"]
    BY Zenon, <1>1, <1>2, <2>1
  <2>3. Hands'
    BY <1>0, <2>1, <2>2, Zenon DEF SessionInv, Hands
  <2>4. Owned'
    BY <1>0, <2>1, <2>2, SessionNumbers, Zenon DEF SessionInv, Owned, Holders, Joined
  <2>5. AtNoMessage'
    BY <1>0, <2>1, Zenon DEF SessionInv, AtNoMessage
  <2> QED
    BY <2>3, <2>4, <2>5, Zenon DEF SessionInv
<1> QED
  BY <1>3, <1>4, <1>5, <1>6, <1>7, Zenon DEF ReconnectTask

\* stop()
LEMMA StopSession ==
    ASSUME ControlType, SessionInv, StopInv, StopCall \/ DeletedBegin \/ \E a \in Stoppers : Stop(a)
    PROVE  SessionInv'
<1>0. UNCHANGED <<starting, frame, dropped, run>>
  BY Zenon DEF StopCall, DeletedBegin, Stop, StopDestroys, StopExchange, StopClient, StopUnsubscribe, StopStore, StopJoined,
         confVars, subVars, taskVars
<1>1. ASSUME UNCHANGED <<client, taken>>,
             \A s \in Sessions : sess'[s] = sess[s] \/ (sess[s] \in {"up", "dead"} /\ sess'[s] = "closing")
      PROVE  SessionInv'
  <2>1. Hands' /\ Holders' = Holders
    BY <1>0, <1>1, Zenon DEF SessionInv, Hands, Holders
  <2> QED
    BY Zenon, <1>0, <1>1, <2>1, SessionKept
<1>2. ASSUME NEW c, taken' = [taken EXCEPT !["stop"] = c]
      PROVE  taken'["stop"] = c /\ taken'["Delayed"] = taken["Delayed"] /\ taken'["Reconnect"] = taken["Reconnect"]
  BY <1>2, Zenon DEF ControlType, Takers
<1>3. ASSUME NEW a \in Stoppers, StopClient(a) PROVE SessionInv'
  <2>1. /\ stop[a] = "client" /\ taken' = [taken EXCEPT !["stop"] = client] /\ client' = NoClient /\ UNCHANGED sess
    BY <1>3, Zenon DEF StopClient, sessVars
  <2>2. taken["stop"] = NoClient
    BY <2>1, Zenon DEF StopInv, ClientGone, Stoppers, Finishing, Holding
  <2>3. Hands'
    BY <1>0, <1>2, <2>1, Zenon DEF SessionInv, Hands
  <2>4. Owned'
    BY <1>0, <1>2, <2>1, <2>2, SessionNumbers, Zenon DEF SessionInv, Owned, Holders
  <2>5. AtNoMessage'
    BY <1>0, <2>1, Zenon DEF SessionInv, AtNoMessage
  <2> QED
    BY <2>3, <2>4, <2>5, Zenon DEF SessionInv
<1>4. ASSUME NEW a \in Stoppers, StopJoined(a) PROVE SessionInv'
  <2>1. Joined(taken["stop"]) /\ taken' = [taken EXCEPT !["stop"] = NoClient] /\ UNCHANGED <<client, sess>>
    BY <1>4, Zenon DEF StopJoined, sessVars
  <2>2. Hands'
    BY <1>0, <1>2, <2>1, Zenon DEF SessionInv, Hands
  <2>3. Owned'
    BY <1>0, <1>2, <2>1, SessionNumbers, Zenon DEF SessionInv, Owned, Holders, Joined
  <2>4. AtNoMessage'
    BY <1>0, <2>1, Zenon DEF SessionInv, AtNoMessage
  <2> QED
    BY <2>2, <2>3, <2>4, Zenon DEF SessionInv
<1>5. ASSUME NEW a \in Stoppers, StopStore(a) PROVE SessionInv'
  <2>1. UNCHANGED <<client, taken>> /\ sess' = Closing(taken["stop"])
    BY <1>5, Zenon DEF StopStore
  <2> QED
    BY <1>1, <2>1, ClosingOne, Zenon
<1>6. CASE StopCall \/ DeletedBegin \/ \E a \in Stoppers : StopDestroys(a) \/ StopExchange(a) \/ StopUnsubscribe(a)
  <2>1. UNCHANGED <<client, taken, sess>>
    BY <1>6, Zenon DEF StopCall, DeletedBegin, StopDestroys, StopExchange, StopUnsubscribe, sessVars
  <2> QED
    BY <1>1, <2>1, Zenon
<1> QED
  BY <1>3, <1>4, <1>5, <1>6, Zenon DEF Stop

-----------------------------------------------------------------------------
(* The whole                                                               *)

\* The invariant holds when a consumer is made ...
LEMMA InitHolds == Init => ConsumerInv
<1> SUFFICES ASSUME Init PROVE ConsumerInv
  OBVIOUS
<1>1. SessionInv
  BY Zenon DEF Init, SessionInv, Owned, AtNoMessage, Hands, Tasks
<1>2. StopInv
  BY DEF Init, StopInv, DeletedFirst, InOrder, TasksGone, ClientGone, Tasks, Stoppers, Finishing, Holding
<1> QED
  BY <1>1, <1>2, InitData, Zenon DEF ConsumerInv

\* ... and is kept by every step of every thread.
LEMMA StepHolds == ConsumerInv /\ [Next]_vars => ConsumerInv'
<1> SUFFICES ASSUME ConsumerInv, [Next]_vars PROVE SessionInv' /\ StopInv'
  BY DataStep, Zenon DEF ConsumerInv
<1>0. ControlType /\ DataInv /\ SessionInv /\ StopInv
  BY Zenon DEF ConsumerInv
<1>1. CASE UNCHANGED vars
  <2>1. SessionInv'
    BY <1>0, <1>1, Zenon DEF SessionInv, Owned, AtNoMessage, Hands, Holders, vars, confVars, sessVars, subVars, taskVars
  <2>2. StopInv'
    BY <1>0, <1>1, Zenon DEF StopInv, DeletedFirst, InOrder, TasksGone, ClientGone, vars, confVars, taskVars
  <2> QED
    BY <2>1, <2>2, Zenon
<1>2. ASSUME NEW s \in Sessions,
             FrameThread(s) \/ Broker(s) \/ handle_metadata_update(s) \/ Disconnect(s) \/ HeartbeatTimeout(s)
      PROVE  SessionInv' /\ StopInv'
  BY <1>0, <1>2, MessageSession, LostSession, ShutdownSession, FrameStop, Zenon DEF FrameThread
<1>3. CASE Start
  BY <1>0, <1>3, StartSession, StartStop, Zenon
<1>4. CASE store_current_offset \/ DelayedTask \/ ReconnectTask \/ \E t \in Tasks : TimerExpires(t)
  BY <1>0, <1>4, IdleSession, DelayedSession, ReconnectSession, TaskStop, Zenon
<1>5. CASE StopCall \/ DeletedBegin \/ \E a \in Stoppers : Stop(a)
  BY <1>0, <1>5, StopSession, StopStop, Zenon
<1> QED
  BY <1>1, <1>2, <1>3, <1>4, <1>5, Zenon DEF Next

\* When stop() has returned, every session is closed and every handler has
\* returned: whatever recovery, deletion or shutdown it met on the way, no
\* client is left that nobody stopped.
THEOREM QuietOnceStopped == Spec => []QuietAfterStop
<1>1. ConsumerInv => QuietAfterStop
  <2> SUFFICES ASSUME ConsumerInv, stop["user"] = "done"
               PROVE  \A s \in Sessions : sess[s] \in {"none", "closed"} /\ frame[s] = NoFrame
    BY Zenon DEF QuietAfterStop
  <2>1. status = "Stopped" /\ stop["Deleted"] = "idle"
    BY Zenon DEF ConsumerInv, StopInv, DeletedFirst, InOrder, Stoppers
  <2>2. /\ client = NoClient /\ dropped = NoClient /\ taken["stop"] = NoClient
        /\ run["Delayed"] = "idle" /\ run["Reconnect"] = "idle"
    BY <2>1, Zenon DEF ConsumerInv, StopInv, TasksGone, ClientGone, Stoppers, Holding
  <2>3. Holders = {NoClient}
    BY <2>2, Zenon DEF Holders, ConsumerInv, SessionInv, Hands
  <2> QED
    BY <2>3, SessionNumbers, Zenon DEF ConsumerInv, SessionInv, Owned, AtNoMessage
<1> QED
  BY <1>1, InitHolds, StepHolds, PTL DEF Spec

-----------------------------------------------------------------------------
(* The order of delivery                                                   *)

\* The control gives the order of delivery what it needs.
LEMMA Disciplined == ConsumerInv => Discipline
<1> SUFFICES ASSUME ConsumerInv PROVE Discipline
  OBVIOUS
<1>0. ControlType /\ DataInv /\ Hands /\ InOrder /\ TasksGone /\ ClientGone
  BY Zenon DEF ConsumerInv, SessionInv, StopInv
<1>1. /\ starting \in Starting => AllUnused
      /\ status = "Started" => starting = "done"
      /\ StoredWasGiven
  BY <1>0, Zenon DEF DataInv, StartInv, OffsetInv
<1>2. /\ run["Reconnect"] \in {"idle", "connect"} => taken["Reconnect"] = NoClient
      /\ run["Reconnect"] # "idle" => client = NoClient /\ starting = "done"
      /\ starting \in {"init", "connect"} => client = NoClient
  BY <1>0, Zenon DEF Hands
<1>3. ASSUME taken["stop"] # NoClient PROVE client = NoClient /\ run["Reconnect"] = "idle"
  <2>1. PICK a \in Stoppers : stop[a] \in Holding
    BY <1>0, <1>3, Zenon DEF ClientGone
  <2>2. stop[a] \in Finishing /\ stop[a] # "client" /\ "client" \in Finishing
    BY <2>1 DEF Holding, Finishing
  <2>3. status = "Stopped" /\ \A b \in Stoppers : stop[b] # "client"
    BY <1>0, <2>2, Zenon DEF InOrder, ClientGone
  <2> QED
    BY <1>0, <2>3, Zenon DEF TasksGone, ClientGone
<1>4. ASSUME NEW a \in Stoppers, stop[a] = "client" PROVE taken["stop"] = NoClient
  <2>1. stop[a] \in Finishing /\ stop[a] \notin Holding /\ Holding \subseteq Finishing
    BY <1>4 DEF Holding, Finishing
  <2>2. \A b \in Stoppers : stop[b] \notin Holding
    BY <1>0, <2>1, Zenon DEF ClientGone
  <2> QED
    BY <1>0, <2>2, Zenon DEF ClientGone
<1> QED
  BY <1>1, <1>2, <1>3, <1>4, Zenon DEF Discipline

\* The types are those of the two parts of ConsumerInv.
LEMMA DeliveryTypesHold == ConsumerInv => DeliveryTypes
BY Zenon DEF ConsumerInv, ControlType, DataInv, DataType, Takers, DeliveryTypes

\* ConsumerInv, SequenceInv and GapInv together are inductive.
LEMMA SequenceHolds == Spec => [](ConsumerInv /\ SequenceInv /\ GapInv)
<1>1. Init => ConsumerInv /\ SequenceInv /\ GapInv
  BY InitHolds, InitDelivery, InitGap, Zenon
<1>2. ConsumerInv /\ SequenceInv /\ GapInv /\ [Next]_vars => (ConsumerInv /\ SequenceInv /\ GapInv)'
  <2> SUFFICES ASSUME ConsumerInv, SequenceInv, GapInv, [Next]_vars PROVE (ConsumerInv /\ SequenceInv /\ GapInv)'
    OBVIOUS
  <2>1. ConsumerInv'
    BY StepHolds, Zenon
  <2>2. DeliveryTypes /\ Discipline
    BY Disciplined, DeliveryTypesHold, Zenon
  <2>3. DeliveryTypes'
    BY <2>1, Zenon DEF ConsumerInv, ControlType, DataInv, DataType, Takers, DeliveryTypes
  <2>4. SequenceInv'
    BY <2>1, <2>2, <2>3, StepDelivery, Zenon
  <2>5. CursorTypes /\ OptionalsAreSet
    BY Zenon DEF ConsumerInv, DataInv, DataType, CursorTypes, OffsetInv
  <2>6. GapInv'
    BY <2>2, <2>3, <2>4, <2>5, StepGap, Zenon
  <2> QED
    BY <2>1, <2>4, <2>6, Zenon
<1> QED
  BY <1>1, <1>2, PTL DEF Spec

\* The offset the broker keeps under the name of the consumer, or is sent for
\* storing, is one that the handler was given or is about to be given, or the
\* one stored before; and every message from the first one asked for up to it
\* was given too, whatever connections were lost on the way: a consumer that
\* starts again after it misses nothing.
THEOREM CursorIsSafe == Spec => []CursorSkipsNothing
<1>1. ASSUME ConsumerInv, GapInv PROVE CursorSkipsNothing
  <2>1. StoredWasGiven /\ CursorTypes
    BY <1>1, Zenon DEF ConsumerInv, DataInv, DataType, OffsetInv, CursorTypes
  <2>2. ASSUME NEW o \in Persisted PROVE o \in Given \cup {conf.stored} /\ o \in Int
    <3>1. o = stored \/ \E s \in Sessions : \E i \in DOMAIN wire[s] : o = wire[s][i]
      BY <2>2, PersistedIs
    <3>2. ASSUME NEW s \in Sessions, NEW i \in DOMAIN wire[s] PROVE wire[s][i] \in Nat /\ wire[s][i] \in Given
      BY <2>1 DEF CursorTypes, StoredWasGiven
    <3>3. o \in Given \cup {conf.stored} /\ o \in Nat \cup {None}
      BY <2>1, <3>1, <3>2 DEF CursorTypes, StoredWasGiven
    <3> QED
      BY <3>3 DEF None
  <2>3. ASSUME NEW o \in Persisted, conf.named, Asked # NoOffset PROVE Asked .. o \subseteq Given
    <3>1. Reached(o + 1)
      BY <1>1, <2>3, Zenon DEF GapInv, CursorInv
    <3>2. (o + 1) - 1 = o
      BY <2>2, <2>3
    <3> QED
      BY <3>1, <3>2, Zenon DEF Reached
  <2> QED
    BY <2>2, <2>3, Zenon DEF CursorSkipsNothing
<1> QED
  BY <1>1, SequenceHolds, PTL

\* Each message given to the handler is the one after the last, or the one asked
\* for, through any number of lost connections, as long as a recovery does not
\* subscribe while an older session is still at a chunk; a handler that is told
\* that the consumer was stopped may skip the rest of its chunk, but nothing
\* comes twice or out of order then either.
THEOREM DeliveredInOrder == Spec => DeliveredInSequence
<1> DEFINE InTurn ==
             \A s \in Sessions :
                 frame[s].step = "message" /\ frame'[s].step = "call" /\ ~overlapped => InSequence(frame[s].offset)
<1>1. ASSUME ConsumerInv, SequenceInv, [Next]_vars PROVE [InTurn]_vars
  <2>1. DeliveryTypes /\ Discipline
    BY <1>1, Disciplined, DeliveryTypesHold, Zenon
  <2>2. ASSUME NEW s \in Sessions, frame[s].step = "message", frame'[s].step = "call", ~overlapped
        PROVE  InSequence(frame[s].offset)
    <3>1. ~Skipped(frame[s].offset)
      BY <1>1, <2>1, <2>2, CalledByMessage, Zenon
    <3> QED
      BY <1>1, <2>1, <2>2, <3>1, DueInSequence, Zenon
  <2> QED
    BY <2>2, Zenon
<1> QED
  BY <1>1, SequenceHolds, PTL DEF Spec, DeliveredInSequence
=============================================================================
