----------------------- MODULE ConsumerDeliveryProofs -----------------------
(***************************************************************************)
(* In which order the messages of a stream reach the handler, for any      *)
(* stream, configuration and number of faults: which session may deliver,  *)
(* which chunks it has at hand, and which message is due next; and that    *)
(* nothing is missing before a message that is handled or stored.          *)
(***************************************************************************)
EXTENDS Consumer, TLAPS

USE DEF confVars, offsetVars, sessVars, subVars, storeVars, timerVars, taskVars, history

\* A session can give the frame thread another chunk while its connection is
\* there or its loss unnoticed, once it has been subscribed.
Readable  == {"up", "dead"}
Source(s) == sess[s] \in Readable /\ s # taken["Reconnect"]

Unused(s) == position[s] = None /\ inbox[s] = <<>> /\ frame[s] = NoFrame
AllUnused == last_seen = None /\ \A s \in Sessions : Unused(s)
Starting  == {"init", "connect", "subscribe"}

\* Only what the handler was given, or is about to be, is stored.
StoredWasGiven ==
    /\ stored \in Given \cup {conf.stored}
    /\ \A s \in Sessions : \A i \in DOMAIN wire[s] : wire[s][i] \in Given

\* What the control of the consumer guarantees: a recovery runs while there is
\* no client, stop() takes the only client there is, and nothing is delivered
\* before start() has subscribed.
Discipline ==
    /\ run["Reconnect"] # "idle" => client = NoClient /\ taken["stop"] = NoClient /\ starting = "done"
    /\ run["Reconnect"] \in {"idle", "connect"} => taken["Reconnect"] = NoClient
    /\ taken["stop"] # NoClient => client = NoClient
    /\ \A a \in Stoppers : stop[a] = "client" => taken["stop"] = NoClient
    /\ starting \in {"init", "connect"} => client = NoClient
    /\ starting \in Starting => AllUnused
    /\ status = "Started" => starting = "done"
    /\ StoredWasGiven

\* Only m_client, the session of a recovery and the one stop() has taken are readable.
SourceInv == \A s \in Sessions : sess[s] \in Readable => s \in {client, taken["Reconnect"], taken["stop"]}

\* A recovery subscribes a session that nothing was delivered on.
UnusedInv ==
    /\ taken["Reconnect"] <= nsess /\ (starting = "subscribe" => nsess = 1)
    /\ \A s \in Sessions : s > nsess \/ s = taken["Reconnect"] => Unused(s)

\* The handler is called after start() has returned.
BegunInv ==
    /\ starting \in {"connect", "subscribe", "finish"} => status \in {"Starting", "Stopped"}
    /\ \A s \in Sessions : Unused(s) \/ starting = "finish" \/ status \in {"Started", "Stopped"}
    /\ \A s \in Sessions : frame[s].step \in {"call", "handler", "store"} => status \in {"Started", "Stopped"}

\* m_initial_offset is what was asked for until a message was seen, then it is
\* empty, or set by a recovery to the next message.
InitialInv ==
    /\ last_seen # None => initial_offset \in {None, last_seen + 1}
    /\ starting \in Starting => initial_offset = conf.offset /\ handled = {}
    /\ last_seen = None => starting \in Starting \/ initial_offset = Asked \/ (starting = "failed" /\ AllUnused)

\* The chunks that are read and the position of the broker follow each other.
ChunkStart(c) == c % ChunkSize = 0

Chained(q, p) ==
    /\ \A i \in DOMAIN q : ChunkStart(q[i])
    /\ \A i \in DOMAIN q : i > 1 => q[i] = q[i - 1] + ChunkSize
    /\ p # None => ChunkStart(p) /\ (q # <<>> => p = q[Len(q)] + ChunkSize)

ChunkInv == \A s \in Sessions : Chained(inbox[s], position[s])

\* The next message may be o: it is the one after the last, or it comes
\* before the one asked for and will be skipped.
Due(o) ==
    IF last_seen = None THEN Asked = NoOffset \/ o <= Asked
    ELSE IF initial_offset # None THEN o <= last_seen + 1
    ELSE o = last_seen + 1 \/ (status = "Stopped" /\ o > last_seen)

NextChunk(s)   == IF inbox[s] # <<>> THEN inbox[s][1] ELSE position[s]
Adjacent(o, c) == o < c /\ \A m \in o + 1 .. c - 1 : ~ChunkStart(m)

\* One frame thread is at a message, and no other session has more of them, ...
Alone == \A t, u \in Sessions : frame[t] # NoFrame /\ (frame[u] # NoFrame \/ Source(u)) => t = u

\* ... the message it is at is due, or the last that was seen, ...
AtDue(s) ==
    /\ frame[s].step = "message" => Due(frame[s].offset)
    /\ frame[s].step \in {"call", "handler", "store"} => last_seen = frame[s].offset /\ (Source(s) => initial_offset = None)

\* ... and the next chunk goes on from there.
NextDue(s) ==
    Source(s) /\ NextChunk(s) # None =>
        IF frame[s] = NoFrame THEN Due(NextChunk(s)) ELSE Adjacent(frame[s].offset, NextChunk(s))

OrderInv == ~overlapped => Alone /\ \A s \in Sessions : AtDue(s) /\ NextDue(s)

SequenceInv == SourceInv /\ UnusedInv /\ BegunInv /\ InitialInv /\ ChunkInv /\ OrderInv

\* The types this needs.
DeliveryTypes ==
    /\ conf \in Configs
    /\ initial_offset \in Nat \cup {None, NoOffset} /\ last_seen \in Nat \cup {None}
    /\ client \in Sessions \cup {NoClient} /\ dropped \in Sessions \cup {NoClient}
    /\ sess \in [Sessions -> SessionStates] /\ nsess \in Sessions \cup {0}
    /\ position \in [Sessions -> Nat \cup {None}]
    /\ inbox \in [Sessions -> Seq(Nat)] /\ frame \in [Sessions -> Frames]
    /\ run \in [Tasks -> ReconnectSteps \cup {"join"}]
    /\ taken \in [{"Delayed", "Reconnect", "stop"} -> Sessions \cup {NoClient}]
    /\ stop \in [Stoppers -> StopStates]

\* They are part of TypeOK.
LEMMA DeliveryTyped == TypeOK => DeliveryTypes
BY Zenon DEF TypeOK, DeliveryTypes

-----------------------------------------------------------------------------
(* What was given to the handler                                           *)

\* Steps that call no handler, and of which no frame thread is one.
LEMMA GivenSame ==
    ASSUME UNCHANGED <<handled, frame>>
    PROVE  UNCHANGED Given
BY DEF Given

\* A frame thread that goes on with a value f of its frame takes nothing back.
LEMMA GivenGrows ==
    ASSUME frame \in [Sessions -> Frames], NEW s \in Sessions, NEW f, frame' = [frame EXCEPT ![s] = f],
           handled \subseteq handled', frame[s].step = "call" => frame[s].offset \in handled'
    PROVE  /\ Given \subseteq Given'
           /\ f.step = "call" => f.offset \in Given'
<1>1. \A r \in Sessions : frame'[r] = IF r = s THEN f ELSE frame[r]
  BY Zenon
<1>2. ASSUME NEW o \in Given PROVE o \in Given'
  <2>1. CASE o \in handled
    BY <2>1, Zenon DEF Given
  <2>2. CASE o \notin handled
    <3>1. PICK r \in Sessions : frame[r].step = "call" /\ o = frame[r].offset
      BY <2>2, Zenon DEF Given
    <3> QED
      BY <1>1, <3>1, Zenon DEF Given
  <2> QED
    BY <2>1, <2>2
<1>3. f.step = "call" => f.offset \in Given'
  BY <1>1, Zenon DEF Given
<1> QED
  BY <1>2, <1>3

\* They are offsets.
LEMMA GivenType ==
    ASSUME frame \in [Sessions -> Frames], handled \in SUBSET Nat
    PROVE  Given \in SUBSET Nat
<1>1. \A s \in Sessions : frame[s].offset \in Nat
  BY DEF Frames
<1> QED
  BY <1>1, Zenon DEF Given

-----------------------------------------------------------------------------
(* Chunks                                                                  *)

\* Multiples of the chunk size, and what lies between two of them.
LEMMA Multiples ==
    /\ \A p \in Nat : (p * ChunkSize) % ChunkSize = 0
    /\ \A b \in Nat : b % ChunkSize = 0 => \E q \in Nat : b = q * ChunkSize
<1>0. ChunkSize \in Nat \ {0}
  BY StreamAssumption
<1>1. ASSUME NEW p \in Nat PROVE (p * ChunkSize) % ChunkSize = 0
  BY <1>0
<1>2. ASSUME NEW b \in Nat, b % ChunkSize = 0 PROVE \E q \in Nat : b = q * ChunkSize
  <2>1. b \div ChunkSize \in Nat /\ b = (b \div ChunkSize) * ChunkSize
    BY <1>0, <1>2
  <2> QED
    BY <2>1
<1> QED
  BY <1>1, <1>2, Zenon

\* A chunk starts where the one before it ends, and not in between.
LEMMA ChunkFollows ==
    ASSUME NEW c \in Nat, ChunkStart(c)
    PROVE  c + ChunkSize \in Nat /\ ChunkStart(c + ChunkSize) /\ Adjacent(c, c + ChunkSize)
<1>0. ChunkSize \in Nat \ {0}
  BY StreamAssumption
<1>1. PICK q \in Nat : c = q * ChunkSize
  BY Multiples DEF ChunkStart
<1>2. c + ChunkSize = (q + 1) * ChunkSize /\ q + 1 \in Nat
  BY <1>0, <1>1
<1>3. ChunkStart(c + ChunkSize)
  BY <1>2, Multiples DEF ChunkStart
<1>4. ASSUME NEW m \in c + 1 .. (c + ChunkSize) - 1, ChunkStart(m) PROVE FALSE
  <2>1. m \in Nat /\ c < m /\ m < c + ChunkSize
    BY <1>0
  <2>2. PICK p \in Nat : m = p * ChunkSize
    BY <1>4, <2>1, Multiples DEF ChunkStart
  <2>3. ASSUME p <= q PROVE p * ChunkSize <= q * ChunkSize
    BY <1>0, <2>3
  <2>4. ASSUME q + 1 <= p PROVE q * ChunkSize + ChunkSize <= p * ChunkSize
    BY <1>0, <2>4
  <2> QED
    BY <1>0, <1>1, <2>1, <2>2, <2>3, <2>4
<1>5. c < c + ChunkSize /\ c + ChunkSize \in Nat
  BY <1>0
<1> QED
  BY <1>3, <1>4, <1>5, Zenon DEF Adjacent

\* A subscription starts with a chunk, not after the offset it asks for.
LEMMA FirstChunkStarts ==
    ASSUME NEW o \in Nat \cup {NoOffset}, NEW c \in FirstChunk(o), conf \in Configs
    PROVE  c \in Nat /\ ChunkStart(c) /\ (o # NoOffset => c <= o)
<1>0. ChunkSize \in Nat \ {0}
  BY StreamAssumption
<1>1. CASE o = NoOffset
  <2>1. conf.last \in Nat
    BY ConfigsAssumption
  <2>2. c \in 0 .. conf.last + 1 /\ c % ChunkSize = 0
    BY <1>1, Zenon DEF FirstChunk
  <2> QED
    BY <1>1, <2>1, <2>2 DEF ChunkStart
<1>2. CASE o # NoOffset
  <2>1. o \in Nat /\ c = (o \div ChunkSize) * ChunkSize
    BY <1>2 DEF FirstChunk
  <2>2. o \div ChunkSize \in Nat /\ (o \div ChunkSize) * ChunkSize \in Nat
    BY <1>0, <2>1
  <2>3. (o \div ChunkSize) * ChunkSize <= o
    BY <1>0, <2>1
  <2>4. ChunkStart((o \div ChunkSize) * ChunkSize)
    BY <2>2, Multiples DEF ChunkStart
  <2> QED
    BY <2>1, <2>2, <2>3, <2>4
<1> QED
  BY <1>1, <1>2

\* After message o of a chunk comes the next message of the chunk, or the next
\* chunk.
LEMMA MessageDone ==
    ASSUME NEW o \in Nat, NEW c \in Nat, ChunkStart(c), Adjacent(o, c)
    PROVE  /\ AfterMessage(o) = NoFrame => c = o + 1
           /\ AfterMessage(o) # NoFrame =>
                 /\ AfterMessage(o) = [step |-> "message", offset |-> o + 1, store |-> FALSE]
                 /\ Adjacent(o + 1, c)
<1>1. CASE LastOfChunk(o)
  <2>1. AfterMessage(o) = NoFrame /\ ChunkStart(o + 1)
    BY <1>1 DEF AfterMessage, LastOfChunk, ChunkStart
  <2>2. o + 1 \notin o + 1 .. c - 1 /\ o < c
    BY <2>1, Zenon DEF Adjacent
  <2> QED
    BY <2>1, <2>2
<1>2. CASE ~LastOfChunk(o)
  <2>1. /\ AfterMessage(o) = [step |-> "message", offset |-> o + 1, store |-> FALSE]
        /\ AfterMessage(o) # NoFrame /\ ~ChunkStart(o + 1)
    BY <1>2 DEF AfterMessage, LastOfChunk, ChunkStart, NoFrame
  <2>2. o < c /\ o + 1 # c
    BY <2>1, Zenon DEF Adjacent
  <2>3. o + 1 < c /\ \A m \in o + 1 + 1 .. c - 1 : m \in o + 1 .. c - 1
    BY <2>2
  <2> QED
    BY <2>1, <2>3, Zenon DEF Adjacent
<1> QED
  BY <1>1, <1>2

-----------------------------------------------------------------------------
(* Steps that deliver nothing                                              *)

\* What the messages of the stream go through.
deliveryVars == <<conf, initial_offset, last_seen, position, inbox, frame, handled, overlapped>>

\* Nothing is due where nothing was subscribed.
LEMMA NothingYet ==
    ASSUME \A s \in Sessions : Unused(s)
    PROVE  ChunkInv /\ OrderInv
<1>1. ASSUME NEW s \in Sessions PROVE Chained(inbox[s], position[s])
  BY DEF Unused, Chained
<1>2. Alone
  BY Zenon DEF Unused, Alone
<1>3. ASSUME NEW s \in Sessions PROVE AtDue(s) /\ NextDue(s)
  BY DEF Unused, AtDue, NextDue, NextChunk, NoFrame
<1> QED
  BY <1>1, <1>2, <1>3, Zenon DEF ChunkInv, OrderInv

\* What is due stays due while no message is seen.
LEMMA DueKept ==
    ASSUME UNCHANGED <<conf, initial_offset, last_seen>>, status = "Stopped" => status' = "Stopped", NEW o, Due(o)
    PROVE  Due(o)'
BY Zenon DEF Due, Asked

\* Steps that leave the frame threads where they are, open no source and
\* give none another chunk to go on with.
LEMMA OrderKept ==
    ASSUME OrderInv, UNCHANGED <<conf, initial_offset, last_seen, frame, overlapped>>,
           status = "Stopped" => status' = "Stopped",
           \A s \in Sessions : Source(s)' => Source(s) /\ NextChunk(s)' \in {NextChunk(s), None}
    PROVE  OrderInv'
<1>1. ASSUME ~overlapped', NEW s \in Sessions PROVE AtDue(s)' /\ NextDue(s)'
  <2>1. AtDue(s) /\ NextDue(s) /\ (Source(s)' => Source(s) /\ NextChunk(s)' \in {NextChunk(s), None})
    BY <1>1, Zenon DEF OrderInv
  <2>2. AtDue(s)'
    BY <2>1, DueKept, Zenon DEF AtDue
  <2>3. NextDue(s)'
    BY <2>1, DueKept, Zenon DEF NextDue, Adjacent, ChunkStart
  <2> QED
    BY <2>2, <2>3
<1>2. ASSUME ~overlapped' PROVE Alone'
  BY <1>2, Zenon DEF OrderInv, Alone
<1> QED
  BY <1>1, <1>2, Zenon DEF OrderInv

\* Steps that leave the messages alone, and open no source of more.
LEMMA MessagesKept ==
    ASSUME ChunkInv, OrderInv, UNCHANGED deliveryVars,
           \A s \in Sessions : Source(s)' => Source(s),
           status = "Stopped" => status' = "Stopped"
    PROVE  ChunkInv' /\ OrderInv'
<1>1. ChunkInv'
  BY Zenon DEF deliveryVars, ChunkInv, Chained
<1>2. UNCHANGED <<conf, initial_offset, last_seen, frame, overlapped>> /\ \A s \in Sessions : UNCHANGED NextChunk(s)
  BY Zenon DEF deliveryVars, NextChunk
<1> QED
  BY <1>1, <1>2, OrderKept, Zenon

\* They leave m_initial_offset alone, as long as start() is where it was.
LEMMA OffsetsKept ==
    ASSUME UNCHANGED deliveryVars, UNCHANGED starting, InitialInv, BegunInv, UNCHANGED status \/ status' = "Stopped"
    PROVE  InitialInv' /\ BegunInv'
<1>1. InitialInv'
  BY Zenon DEF deliveryVars, InitialInv, Asked, AllUnused, Unused
<1>2. BegunInv'
  BY Zenon DEF deliveryVars, BegunInv, Unused
<1> QED
  BY <1>1, <1>2

\* Steps of the control that change no client, session or status.
LEMMA ControlKept ==
    ASSUME DeliveryTypes, SequenceInv, UNCHANGED deliveryVars, UNCHANGED <<starting, client, sess, nsess, taken>>,
           UNCHANGED status \/ status' = "Stopped"
    PROVE  SequenceInv'
<1>1. SourceInv'
  BY Zenon DEF SequenceInv, SourceInv
<1>2. UnusedInv'
  BY Zenon DEF SequenceInv, UnusedInv, Unused, deliveryVars
<1>3. ChunkInv' /\ OrderInv'
  BY MessagesKept, Zenon DEF SequenceInv, Source
<1>4. InitialInv' /\ BegunInv'
  BY OffsetsKept, Zenon DEF SequenceInv
<1> QED
  BY <1>1, <1>2, <1>3, <1>4, Zenon DEF SequenceInv

\* ... and those that end sessions or hand them on, and open none.
LEMMA SessionsKept ==
    ASSUME DeliveryTypes, SequenceInv, UNCHANGED deliveryVars, UNCHANGED <<starting, status, nsess>>,
           taken'["Reconnect"] \in {taken["Reconnect"], NoClient},
           \A s \in Sessions : sess'[s] \in Readable =>
               sess[s] \in Readable /\ s \in {client', taken'["Reconnect"], taken'["stop"]}
               /\ (s = taken["Reconnect"] => s = taken'["Reconnect"])
    PROVE  SequenceInv'
<1>1. SourceInv'
  BY Zenon DEF SourceInv
<1>2. UnusedInv'
  <2>1. NoClient \notin Sessions
    BY DEF NoClient, Sessions
  <2> QED
    <3>1. taken'["Reconnect"] <= nsess
      BY DEF SequenceInv, UnusedInv, DeliveryTypes, NoClient, Sessions
    <3> QED
      BY <2>1, <3>1, Zenon DEF SequenceInv, UnusedInv, Unused, deliveryVars
<1>3. ChunkInv' /\ OrderInv'
  <2>1. \A s \in Sessions : Source(s)' => Source(s)
    BY Zenon DEF Source
  <2> QED
    BY <2>1, MessagesKept, Zenon DEF SequenceInv
<1>4. InitialInv' /\ BegunInv'
  BY OffsetsKept, Zenon DEF SequenceInv
<1> QED
  BY <1>1, <1>2, <1>3, <1>4, Zenon DEF SequenceInv

\* ClientImpl::stop() of a session ends it as a source.
LEMMA ClosingEnds ==
    ASSUME DeliveryTypes, NEW c
    PROVE  \A s \in Sessions : Closing(c)[s] \in Readable => Closing(c)[s] = sess[s] /\ s # c
BY DEF DeliveryTypes, Closing, Readable, NoClient, Sessions

\* The tasks and stop(), where they touch no session.
LEMMA QuietDelivery ==
    ASSUME DeliveryTypes, SequenceInv,
           \/ StopCall \/ DeletedBegin \/ store_current_offset \/ ReconnectBegin \/ ReconnectRefused
           \/ \E t \in Tasks : TimerExpires(t)
           \/ \E a \in Stoppers : StopDestroys(a) \/ StopExchange(a)
           \/ \E s \in Sessions : BrokerStores(s) \/ handle_metadata_update(s)
           \/ UNCHANGED vars
    PROVE  SequenceInv'
<1>1. /\ UNCHANGED deliveryVars /\ UNCHANGED <<starting, client, sess, nsess, taken>>
      /\ UNCHANGED status \/ status' = "Stopped"
  BY Zenon DEF StopCall, DeletedBegin, store_current_offset, ReconnectBegin, ReconnectRefused, TimerExpires,
     StopDestroys, StopExchange, BrokerStores, handle_metadata_update, deliveryVars, vars
<1> QED
  BY <1>1, ControlKept

-----------------------------------------------------------------------------
(* start(), and the sessions as they come and go                           *)

\* start() up to the subscription, and after it.
LEMMA StartDelivery ==
    ASSUME DeliveryTypes, DeliveryTypes', Discipline, SequenceInv, StartBegin \/ StartConnect \/ StartFinish
    PROVE  SequenceInv'
<1>0. UNCHANGED deliveryVars /\ UNCHANGED taken
  BY Zenon DEF StartBegin, StartConnect, StartFinish, deliveryVars
<1>1. CASE StartBegin \/ StartConnect
  <2>1. AllUnused /\ starting \in {"init", "connect"} /\ starting' \in {"connect", "subscribe", "failed"} /\ AllUnused'
    BY <1>0, <1>1, Zenon DEF StartBegin, StartConnect, Discipline, Starting, AllUnused, Unused, deliveryVars
  <2>2. SourceInv'
    <3>1. CASE StartBegin
      BY <3>1, <1>0, Zenon DEF StartBegin, SequenceInv, SourceInv
    <3>2. CASE StartConnect
      <4>1. client = NoClient /\ NoClient \notin Sessions
        BY <3>2 DEF StartConnect, Discipline, NoClient, Sessions
      <4>2. \A s \in Sessions : sess'[s] \in Readable => (s = 1 /\ client' = 1) \/ sess'[s] = sess[s]
        BY <3>2 DEF StartConnect, Readable, DeliveryTypes
      <4> QED
        BY <1>0, <4>1, <4>2, Zenon DEF SequenceInv, SourceInv
    <3> QED
      BY <1>1, <3>1, <3>2
  <2>3. UnusedInv'
    <3>1. taken["Reconnect"] = NoClient
      BY <2>1, Zenon DEF Discipline
    <3>2. taken'["Reconnect"] <= nsess'
      BY <1>0, <3>1 DEF DeliveryTypes, NoClient, Sessions
    <3>3. starting' = "subscribe" => nsess' = 1
      BY <1>1, <2>1, Zenon DEF StartBegin, StartConnect
    <3> QED
      BY <2>1, <3>2, <3>3, Zenon DEF UnusedInv, AllUnused
  <2>4. BegunInv'
    <3>1. starting' \in {"connect", "subscribe", "finish"} => status' \in {"Starting", "Stopped"}
      BY <1>1, Zenon DEF StartBegin, StartConnect, SequenceInv, BegunInv
    <3>2. \A s \in Sessions : frame'[s].step \notin {"call", "handler", "store"}
      BY <2>1 DEF AllUnused, Unused, NoFrame
    <3> QED
      BY <2>1, <3>1, <3>2, Zenon DEF BegunInv, AllUnused
  <2>5. InitialInv'
    BY <1>0, <2>1, Zenon DEF SequenceInv, InitialInv, Starting, AllUnused, deliveryVars, Asked
  <2>6. ChunkInv' /\ OrderInv'
    <3>1. ChunkInv /\ \A s \in Sessions : Unused(s)'
      BY <2>1, Zenon DEF SequenceInv, AllUnused
    <3>2. ChunkInv'
      BY <1>0, <3>1, Zenon DEF deliveryVars, ChunkInv, Chained
    <3>3. Alone'
      BY <3>1, Zenon DEF Unused, Alone
    <3>4. ASSUME NEW s \in Sessions PROVE AtDue(s)' /\ NextDue(s)'
      BY <3>1 DEF Unused, AtDue, NextDue, NextChunk, NoFrame
    <3> QED
      BY <3>2, <3>3, <3>4, Zenon DEF OrderInv
  <2> QED
    BY <2>2, <2>3, <2>4, <2>5, <2>6, Zenon DEF SequenceInv
<1>2. CASE StartFinish
  <2>1. /\ starting = "finish" /\ UNCHANGED <<client, sess, nsess>>
        /\ status \in {"Starting", "Stopped"}
        /\ status' = IF status = "Starting" THEN "Started" ELSE status
        /\ starting' = IF status = "Starting" THEN "done" ELSE "failed"
    BY <1>2, Zenon DEF StartFinish, SequenceInv, BegunInv
  <2>2. SourceInv' /\ UnusedInv'
    BY <1>0, <2>1, Zenon DEF SequenceInv, SourceInv, UnusedInv, Unused, deliveryVars
  <2>3. BegunInv'
    BY <1>0, <2>1, Zenon DEF BegunInv
  <2>4. InitialInv'
    BY <1>0, <2>1, Zenon DEF SequenceInv, InitialInv, Starting, deliveryVars, Asked
  <2>5. ChunkInv' /\ OrderInv'
    <3>1. \A s \in Sessions : Source(s)' => Source(s)
      BY <1>0, <2>1, Zenon DEF Source
    <3> QED
      BY <1>0, <2>1, <3>1, MessagesKept, Zenon DEF SequenceInv
  <2> QED
    BY <2>2, <2>3, <2>4, <2>5, Zenon DEF SequenceInv
<1> QED
  BY <1>1, <1>2

\* A connection that is lost, and handle_shutdown.
LEMMA LostDelivery ==
    ASSUME DeliveryTypes, SequenceInv, NEW s \in Sessions,
           Disconnect(s) \/ HeartbeatTimeout(s) \/ handle_shutdown(s) \/ ShutdownDropped(s)
    PROVE  SequenceInv'
<1>1. UNCHANGED deliveryVars /\ UNCHANGED <<starting, status, nsess, taken>>
  BY Zenon DEF Disconnect, HeartbeatTimeout, handle_shutdown, ShutdownDropped, deliveryVars
<1>2. ASSUME NEW r \in Sessions, sess'[r] \in Readable
      PROVE  sess[r] \in Readable /\ r \in {client', taken["Reconnect"], taken["stop"]}
  <2>0. r \in {client, taken["Reconnect"], taken["stop"]} \/ sess[r] \notin Readable
    BY Zenon DEF SequenceInv, SourceInv
  <2>1. CASE Disconnect(s) \/ HeartbeatTimeout(s) \/ ShutdownDropped(s)
    <3>1. client' = client
      BY <2>1, Zenon DEF Disconnect, HeartbeatTimeout, ShutdownDropped
    <3>2. sess[r] \in Readable
      BY <1>2, <2>1 DEF Disconnect, HeartbeatTimeout, ShutdownDropped, Readable, DeliveryTypes
    <3> QED
      BY <2>0, <3>1, <3>2, Zenon
  <2>2. CASE handle_shutdown(s)
    <3>1. r # s
      <4>1. sess'[s] \in {"closed", "closing", "joining", "dropping"}
        <5>1. sess \in [Sessions -> SessionStates] /\ DOMAIN Closing(client) = Sessions
          BY DEF DeliveryTypes, Closing
        <5> QED
          BY <2>2, <5>1, Zenon DEF handle_shutdown
      <4> QED
        BY <1>2, <4>1 DEF Readable
    <3>2. CASE Detaches(s)
      <4>1. sess'[r] = sess[r] /\ client \in {NoClient, s} /\ NoClient \notin Sessions
        <5>1. sess' = [sess EXCEPT ![s] = IF @ = "locking" THEN "closed" ELSE "closing"]
          BY <2>2, <3>2, Zenon DEF handle_shutdown
        <5>2. client \in {NoClient, s}
          BY <3>2, Zenon DEF Detaches
        <5>3. NoClient \notin Sessions
          BY DEF NoClient, Sessions
        <5> QED
          BY <3>1, <5>1, <5>2, <5>3, Zenon DEF DeliveryTypes
      <4> QED
        BY <1>2, <2>0, <3>1, <4>1, Zenon
    <3>3. CASE ~Detaches(s)
      <4>1. sess'[r] = Closing(client)[r]
        BY <2>2, <3>1, <3>3 DEF handle_shutdown, DeliveryTypes, Closing
      <4> QED
        BY <1>2, <2>0, <4>1, ClosingEnds, Zenon
    <3> QED
      BY <3>2, <3>3
  <2> QED
    BY <2>1, <2>2
<1> QED
  BY <1>1, <1>2, SessionsKept, Zenon

\* The tasks, where they take, open or give back a session.
LEMMA TakenDelivery ==
    ASSUME DeliveryTypes, DeliveryTypes', Discipline, SequenceInv,
           DelayedTask \/ ReconnectConnect \/ ReconnectEnd
    PROVE  SequenceInv'
<1>1. UNCHANGED deliveryVars /\ UNCHANGED <<starting, status>>
  BY Zenon DEF DelayedTask, DelayedBegin, DelayedEnd, ReconnectConnect, ReconnectEnd, deliveryVars
<1>2. CASE DelayedTask
  <2>1. UNCHANGED <<nsess, taken["Reconnect"], taken["stop"]>>
    BY <1>2, Zenon DEF DelayedTask, DelayedBegin, DelayedEnd, DeliveryTypes
  <2>2. (client' = client /\ sess' = sess) \/ sess' = Closing(client)
    BY <1>2, Zenon DEF DelayedTask, DelayedBegin, DelayedEnd
  <2>3. \A r \in Sessions : sess'[r] \in Readable => sess[r] \in Readable /\ (client' = client \/ r # client)
    BY <2>2, ClosingEnds, Zenon
  <2>4. \A r \in Sessions : sess'[r] \in Readable => r \in {client', taken'["Reconnect"], taken'["stop"]}
    BY <2>1, <2>3, Zenon DEF SequenceInv, SourceInv
  <2> QED
    BY <1>1, <2>1, <2>3, <2>4, SessionsKept, Zenon
<1>3. CASE ReconnectEnd
  <2>1. UNCHANGED <<nsess, sess, client, taken["stop"]>> /\ taken'["Reconnect"] = NoClient
    BY <1>3, Zenon DEF ReconnectEnd, DeliveryTypes
  <2>2. taken["Reconnect"] \in Sessions => sess[taken["Reconnect"]] \notin Readable
    BY <1>3 DEF ReconnectEnd, Joined, Readable, NoClient, Sessions
  <2>3. \A r \in Sessions : sess'[r] \in Readable => r # taken["Reconnect"] /\ r \in {client, taken["stop"]}
    BY <2>1, <2>2, Zenon DEF SequenceInv, SourceInv
  <2> QED
    BY <1>1, <2>1, <2>3, SessionsKept, Zenon
<1>4. CASE ReconnectConnect
  <2> DEFINE n == nsess + 1
  <2>1. /\ UNCHANGED <<client, taken["stop"]>> /\ taken'["Reconnect"] = n /\ n \in Sessions /\ nsess' = n
        /\ \A r \in Sessions : r # n => sess'[r] = sess[r]
    BY <1>4, Zenon DEF ReconnectConnect, DeliveryTypes
  <2>2. taken["Reconnect"] = NoClient /\ NoClient \notin Sessions
    BY <1>4 DEF ReconnectConnect, Discipline, NoClient, Sessions
  <2>3. nsess \in Int /\ \A r \in Sessions : r \in Int
    BY DEF DeliveryTypes, Sessions
  <2>4. n > nsess /\ \A r \in Sessions : r > n => r > nsess
    BY <2>3
  <2> HIDE DEF n
  <2>5. SourceInv'
    BY <2>1, <2>2, Zenon DEF SequenceInv, SourceInv
  <2>6. UnusedInv'
    <3>1. taken'["Reconnect"] <= nsess' /\ starting' # "subscribe"
      BY <1>1, <1>4, <2>1, <2>3 DEF ReconnectConnect, Discipline, n
    <3> QED
      BY <1>1, <2>1, <2>4, <3>1, Zenon DEF SequenceInv, UnusedInv, Unused, deliveryVars
  <2>7. \A r \in Sessions : Source(r)' => Source(r)
    BY <2>1, <2>2, Zenon DEF Source
  <2>8. ChunkInv' /\ OrderInv'
    BY <1>1, <2>7, MessagesKept, Zenon DEF SequenceInv
  <2>9. InitialInv' /\ BegunInv'
    BY <1>1, OffsetsKept, Zenon DEF SequenceInv
  <2> QED
    BY <2>5, <2>6, <2>8, <2>9, Zenon DEF SequenceInv
<1> QED
  BY <1>2, <1>3, <1>4

\* stop(), where it takes the client and lets it go.
LEMMA StopDelivery ==
    ASSUME DeliveryTypes, Discipline, SequenceInv, NEW a \in Stoppers,
           StopClient(a) \/ StopStore(a) \/ StopJoined(a)
    PROVE  SequenceInv'
<1>1. UNCHANGED deliveryVars /\ UNCHANGED <<starting, status, nsess, taken["Reconnect"]>>
  BY Zenon DEF StopClient, StopStore, StopJoined, deliveryVars, DeliveryTypes
<1>2. CASE StopClient(a)
  <2>1. UNCHANGED sess /\ taken'["stop"] = client /\ taken["stop"] = NoClient /\ NoClient \notin Sessions
    BY <1>2 DEF StopClient, Discipline, DeliveryTypes, NoClient, Sessions
  <2>2. \A r \in Sessions : sess'[r] \in Readable => r \in {client', taken'["Reconnect"], taken'["stop"]}
    BY <1>1, <2>1, Zenon DEF SequenceInv, SourceInv
  <2> QED
    BY <1>1, <2>1, <2>2, SessionsKept, Zenon
<1>3. CASE StopStore(a)
  <2>1. UNCHANGED <<client, taken>> /\ sess' = Closing(taken["stop"])
    BY <1>3, Zenon DEF StopStore
  <2>2. \A r \in Sessions : sess'[r] \in Readable => sess[r] \in Readable
    BY <2>1, ClosingEnds, Zenon
  <2>3. \A r \in Sessions : sess'[r] \in Readable => r \in {client', taken'["Reconnect"], taken'["stop"]}
    BY <2>1, <2>2, Zenon DEF SequenceInv, SourceInv
  <2> QED
    BY <1>1, <2>1, <2>2, <2>3, SessionsKept, Zenon
<1>4. CASE StopJoined(a)
  <2>1. UNCHANGED <<client, sess>>
    BY <1>4, Zenon DEF StopJoined
  <2>2. taken["stop"] \in Sessions => sess[taken["stop"]] \notin Readable
    BY <1>4 DEF StopJoined, Joined, Readable, NoClient, Sessions
  <2>3. \A r \in Sessions : sess'[r] \in Readable => r \in {client', taken'["Reconnect"], taken'["stop"]}
    BY <1>1, <2>1, <2>2, Zenon DEF SequenceInv, SourceInv
  <2> QED
    BY <1>1, <2>1, <2>3, SessionsKept, Zenon
<1> QED
  BY <1>2, <1>3, <1>4

-----------------------------------------------------------------------------
(* Chunks and messages                                                     *)

\* What a subscription asks for.
LEMMA AskedType == conf \in Configs => Asked \in Nat \cup {NoOffset}
<1> SUFFICES ASSUME conf \in Configs PROVE Asked \in Nat \cup {NoOffset}
  OBVIOUS
<1>1. conf.offset \in Nat \cup {NoOffset} /\ conf.stored \in Nat \cup {None}
  BY ConfigsAssumption
<1> QED
  BY <1>1 DEF Asked, None

\* Chunks are taken from the front and added at the end.
LEMMA ChainedTail ==
    ASSUME NEW q \in Seq(Nat), q # <<>>, NEW p \in Nat \cup {None}, Chained(q, p)
    PROVE  Chained(Tail(q), p)
<1>1. /\ Tail(q) \in Seq(Nat) /\ Len(q) \in Nat \ {0} /\ DOMAIN q = 1 .. Len(q)
      /\ DOMAIN Tail(q) = 1 .. Len(q) - 1 /\ Len(Tail(q)) = Len(q) - 1
      /\ \A i \in 1 .. Len(q) - 1 : Tail(q)[i] = q[i + 1]
  OBVIOUS
<1>2. \A i \in DOMAIN Tail(q) : i + 1 \in DOMAIN q /\ i + 1 > 1 /\ (i + 1) - 1 = i
  BY <1>1
<1>3. \A i \in DOMAIN Tail(q) : ChunkStart(Tail(q)[i])
  BY <1>1, <1>2, Zenon DEF Chained
<1>4. ASSUME NEW i \in DOMAIN Tail(q), i > 1 PROVE Tail(q)[i] = Tail(q)[i - 1] + ChunkSize
  <2>1. i - 1 \in 1 .. Len(q) - 1 /\ (i - 1) + 1 = i
    BY <1>1, <1>4
  <2>2. Tail(q)[i - 1] = q[i]
    BY <1>1, <2>1
  <2>3. q[i + 1] = q[i] + ChunkSize
    BY <1>2, Zenon DEF Chained
  <2> QED
    BY <1>1, <2>2, <2>3, Zenon
<1>5. Tail(q) # <<>> => Tail(q)[Len(Tail(q))] = q[Len(q)]
  BY <1>1
<1> QED
  BY <1>3, <1>4, <1>5, Zenon DEF Chained

\* The broker sends the chunk at its position.
LEMMA ChainedAppend ==
    ASSUME NEW q \in Seq(Nat), NEW p \in Nat, Chained(q, p)
    PROVE  Chained(Append(q, p), p + ChunkSize)
<1> DEFINE r == Append(q, p)
<1>1. /\ Len(q) \in Nat /\ DOMAIN q = 1 .. Len(q) /\ DOMAIN r = 1 .. Len(q) + 1 /\ Len(r) = Len(q) + 1
      /\ \A i \in 1 .. Len(q) : r[i] = q[i]
      /\ r[Len(q) + 1] = p
  OBVIOUS
<1>0. p # None
  BY DEF None
<1>2. ChunkStart(p) /\ ChunkStart(p + ChunkSize)
  BY <1>0, ChunkFollows, Zenon DEF Chained
<1> HIDE DEF r
<1>3. ASSUME NEW i \in DOMAIN r PROVE ChunkStart(r[i])
  <2>1. i \in DOMAIN q \/ i = Len(q) + 1
    BY <1>1
  <2> QED
    BY <1>1, <1>2, <2>1, Zenon DEF Chained
<1>4. ASSUME NEW i \in DOMAIN r, i > 1 PROVE r[i] = r[i - 1] + ChunkSize
  <2>1. CASE i \in DOMAIN q
    <3>1. i - 1 \in 1 .. Len(q)
      BY <1>1, <1>4, <2>1
    <3> QED
      BY <1>1, <1>4, <2>1, <3>1, Zenon DEF Chained
  <2>2. CASE i = Len(q) + 1
    <3>1. i - 1 = Len(q) /\ Len(q) \in 1 .. Len(q) /\ q # <<>>
      BY <1>1, <1>4, <2>2
    <3> QED
      BY <1>0, <1>1, <2>2, <3>1, Zenon DEF Chained
  <2> QED
    BY <1>1, <2>1, <2>2
<1>5. r[Len(r)] = p
  BY <1>1, Zenon
<1>6. Chained(r, p + ChunkSize)
  BY <1>2, <1>3, <1>4, <1>5, Zenon DEF Chained
<1> QED
  BY <1>6 DEF r

\* The chunk that comes next starts one.
LEMMA NextChunkStarts ==
    ASSUME DeliveryTypes, ChunkInv, NEW s \in Sessions, NextChunk(s) # None
    PROVE  NextChunk(s) \in Nat /\ ChunkStart(NextChunk(s))
<1>0. inbox[s] \in Seq(Nat) /\ position[s] \in Nat \cup {None} /\ Chained(inbox[s], position[s])
  BY Zenon DEF DeliveryTypes, ChunkInv
<1>1. CASE inbox[s] # <<>>
  <2>1. 1 \in DOMAIN inbox[s] /\ inbox[s][1] \in Nat
    BY <1>0, <1>1
  <2> QED
    BY <1>0, <1>1, <2>1, Zenon DEF NextChunk, Chained
<1>2. CASE inbox[s] = <<>>
  BY <1>0, <1>2, Zenon DEF NextChunk, Chained
<1> QED
  BY <1>1, <1>2

\* m_client and the session of stop() are not both readable.
LEMMA OneSource ==
    ASSUME Discipline, SourceInv, NEW t \in Sessions, NEW u \in Sessions, Source(t), Source(u)
    PROVE  t = u
<1>1. NoClient \notin Sessions
  BY DEF NoClient, Sessions
<1>2. t \in {client, taken["stop"]} /\ u \in {client, taken["stop"]}
  BY Zenon DEF SourceInv, Source
<1>3. taken["stop"] # NoClient => client = NoClient
  BY Zenon DEF Discipline
<1> QED
  BY <1>1, <1>2, <1>3

\* A recovery has no competitor.
LEMMA NoSource ==
    ASSUME Discipline, SourceInv, run["Reconnect"] # "idle", NEW t \in Sessions
    PROVE  ~Source(t)
<1>1. NoClient \notin Sessions
  BY DEF NoClient, Sessions
<1> QED
  BY <1>1, Zenon DEF Discipline, SourceInv, Source

\* Steps of the frame threads that leave the control alone.
LEMMA FrameKept ==
    ASSUME SequenceInv, UNCHANGED <<conf, initial_offset, last_seen, starting, status, nsess, taken, client>>,
           UNCHANGED handled \/ starting \notin Starting,
           \A r \in Sessions : sess'[r] \in Readable => sess[r] \in Readable,
           \A r \in Sessions : Unused(r) => Unused(r)',
           \A r \in Sessions : frame'[r].step \in {"call", "handler", "store"} => frame[r].step \in {"call", "handler", "store"}
    PROVE  SourceInv' /\ UnusedInv' /\ BegunInv' /\ InitialInv'
<1>1. SourceInv'
  BY Zenon DEF SequenceInv, SourceInv
<1>2. UnusedInv'
  BY Zenon DEF SequenceInv, UnusedInv
<1>3. BegunInv'
  BY Zenon DEF SequenceInv, BegunInv
<1>4. InitialInv'
  BY Zenon DEF SequenceInv, InitialInv, Asked, AllUnused
<1> QED
  BY <1>1, <1>2, <1>3, <1>4

\* A step of the one session that may deliver.
LEMMA SessionOrder ==
    ASSUME OrderInv, NEW s \in Sessions,
           UNCHANGED <<overlapped, sess, taken>>,
           \A r \in Sessions : r # s => UNCHANGED <<position[r], inbox[r], frame[r]>>,
           UNCHANGED <<conf, initial_offset, last_seen, status>> \/ frame[s] # NoFrame,
           frame[s] # NoFrame \/ Source(s),
           ~overlapped => AtDue(s)' /\ NextDue(s)',
           \A t, u \in Sessions : Source(t) /\ Source(u) => t = u
    PROVE  OrderInv'
<1> SUFFICES ASSUME ~overlapped PROVE (Alone /\ \A r \in Sessions : AtDue(r) /\ NextDue(r))'
  BY Zenon DEF OrderInv
<1>0. Alone /\ \A r \in Sessions : AtDue(r) /\ NextDue(r)
  BY Zenon DEF OrderInv
<1>1. \A r \in Sessions : UNCHANGED Source(r)
  BY Zenon DEF Source
<1>2. \A r \in Sessions : r # s => frame[r] = NoFrame \/ (frame[s] = NoFrame /\ Source(s))
  BY <1>0, Zenon DEF Alone
<1>3. \A r \in Sessions : r # s => frame[r] = NoFrame
  BY <1>0, <1>2, Zenon DEF Alone
<1>4. \A r \in Sessions : r # s => ~Source(r)
  BY <1>0, Zenon DEF Alone
<1>5. Alone'
  BY <1>1, <1>3, <1>4, Zenon DEF Alone
<1>6. ASSUME NEW r \in Sessions, r # s PROVE AtDue(r)' /\ NextDue(r)'
  <2>1. frame'[r] = NoFrame /\ ~Source(r)'
    BY <1>1, <1>3, <1>4, <1>6, Zenon
  <2> QED
    BY <2>1 DEF AtDue, NextDue, NoFrame
<1> QED
  BY <1>5, <1>6, Zenon

\* After a message the next one is due.
LEMMA FrameAdvances ==
    ASSUME DeliveryTypes, ChunkInv, NEW s \in Sessions, frame[s] # NoFrame, NextDue(s),
           frame' = [frame EXCEPT ![s] = AfterMessage(frame[s].offset)],
           UNCHANGED <<sess, taken, inbox, position>>,
           NEW n, n = frame[s].offset + 1, Due(n)'
    PROVE  AtDue(s)' /\ NextDue(s)'
<1> DEFINE o == frame[s].offset
<1>1. o \in Nat /\ frame'[s] = AfterMessage(o)
  BY DEF DeliveryTypes, Frames
<1>2. \/ AfterMessage(o) = NoFrame
      \/ AfterMessage(o) = [step |-> "message", offset |-> o + 1, store |-> FALSE] /\ AfterMessage(o) # NoFrame
  BY <1>1 DEF AfterMessage, NoFrame
<1>3. AtDue(s)'
  <2>1. frame'[s].step \in {"none", "message"} /\ (frame'[s].step = "message" => frame'[s].offset = n)
    BY <1>1, <1>2 DEF NoFrame
  <2> QED
    BY <2>1, Zenon DEF AtDue
<1>4. ASSUME Source(s)', NextChunk(s)' # None
      PROVE  IF frame'[s] = NoFrame THEN Due(NextChunk(s))' ELSE Adjacent(frame'[s].offset, NextChunk(s)')
  <2>1. Source(s) /\ NextChunk(s)' = NextChunk(s)
    BY <1>4, Zenon DEF Source, NextChunk
  <2>2. NextChunk(s) \in Nat /\ ChunkStart(NextChunk(s))
    BY <1>4, <2>1, NextChunkStarts, Zenon
  <2>3. Adjacent(o, NextChunk(s))
    BY <1>4, <2>1, Zenon DEF NextDue
  <2>4. CASE AfterMessage(o) = NoFrame
    <3>1. NextChunk(s) = o + 1
      BY <1>1, <2>2, <2>3, <2>4, MessageDone, Zenon
    <3>2. Due(NextChunk(s))'
      BY <2>1, <3>1, Zenon
    <3> QED
      BY <1>1, <2>4, <3>2, Zenon
  <2>5. CASE AfterMessage(o) # NoFrame
    <3>1. AfterMessage(o) = [step |-> "message", offset |-> o + 1, store |-> FALSE] /\ Adjacent(o + 1, NextChunk(s))
      BY <1>1, <2>2, <2>3, <2>5, MessageDone, Zenon
    <3>2. frame'[s].offset = o + 1
      BY <1>1, <3>1
    <3> QED
      BY <1>1, <2>1, <2>5, <3>1, <3>2, Zenon
  <2> QED
    BY <2>4, <2>5
<1>5. NextDue(s)'
  BY <1>4, Zenon DEF NextDue, Adjacent, ChunkStart
<1> QED
  BY <1>3, <1>5

\* The first chunk stays the first when another is added.
LEMMA AppendFirst ==
    ASSUME NEW q \in Seq(Nat), NEW p \in Nat
    PROVE  Append(q, p) # <<>> /\ Append(q, p)[1] = IF q # <<>> THEN q[1] ELSE p
<1>1. Len(Append(q, p)) = Len(q) + 1 /\ Len(q) \in Nat /\ Len(<<>>) = 0
  OBVIOUS
<1>2. CASE q = <<>>
  BY <1>1, <1>2
<1>3. CASE q # <<>>
  <2>1. 1 \in 1 .. Len(q)
    BY <1>3
  <2> QED
    BY <1>1, <1>3, <2>1
<1> QED
  BY <1>2, <1>3

\* Nothing follows the last one.
LEMMA TailOfOne ==
    ASSUME NEW q \in Seq(Nat), q # <<>>, Tail(q) = <<>>
    PROVE  Len(q) = 1
<1>1. Len(Tail(q)) = Len(q) - 1 /\ Len(<<>>) = 0
  <2>1. \A r \in Seq(Nat) : r # <<>> => Len(Tail(r)) = Len(r) - 1
    OBVIOUS
  <2>2. Len(<<>>) = 0
    OBVIOUS
  <2> QED
    BY <2>1, <2>2, Zenon
<1>2. Len(q) - 1 = 0 /\ Len(q) \in Nat
  <2>1. Len(q) \in Nat
    OBVIOUS
  <2> QED
    BY <1>1, <2>1, Zenon
<1>3. \A n \in Nat : n - 1 = 0 => n = 1
  OBVIOUS
<1> QED
  BY <1>2, <1>3, Zenon

\* What was read or is on its way can be dropped.
LEMMA ChainedDropped ==
    ASSUME NEW q, NEW p, Chained(q, p)
    PROVE  Chained(<<>>, p) /\ Chained(q, None)
BY DEF Chained

\* The broker sends a chunk, a session ends, stop() unsubscribes.
LEMMA ReadDelivery ==
    ASSUME DeliveryTypes, SequenceInv,
           \/ \E s \in Sessions : Deliver(s) \/ NoticeDisconnect(s) \/ FrameThreadEnds(s)
           \/ \E a \in Stoppers : StopUnsubscribe(a)
    PROVE  SequenceInv'
<1>0. /\ UNCHANGED <<conf, initial_offset, last_seen, handled, starting, status, nsess, taken, client, frame, overlapped>>
      /\ UNCHANGED sess \/ \E s \in Sessions : sess' = [sess EXCEPT ![s] = "locking"] \/ sess' = [sess EXCEPT ![s] = "closed"]
  BY Zenon DEF Deliver, NoticeDisconnect, FrameThreadEnds, StopUnsubscribe
<1>1. \A r \in Sessions : sess'[r] \in Readable => sess[r] \in Readable
  BY <1>0 DEF Readable, DeliveryTypes
<1>2. ASSUME NEW r \in Sessions
      PROVE  /\ Unused(r) => Unused(r)'
             /\ Chained(inbox'[r], position'[r])
             /\ sess'[r] \in Readable => NextChunk(r)' \in {NextChunk(r), None}
  <2>0. inbox[r] \in Seq(Nat) /\ position[r] \in Nat \cup {None} /\ Chained(inbox[r], position[r])
    BY Zenon DEF SequenceInv, ChunkInv, DeliveryTypes
  <2>1. CASE inbox'[r] = inbox[r] /\ position'[r] \in {position[r], None}
    BY <1>0, <2>0, <2>1, ChainedDropped, Zenon DEF Unused, NextChunk
  <2>2. CASE inbox'[r] = <<>> /\ position'[r] = position[r] /\ sess'[r] \notin Readable
    BY <1>0, <2>0, <2>2, ChainedDropped, Zenon DEF Unused
  <2>3. CASE Deliver(r)
    <3>1. position[r] \in Nat /\ position[r] # None
      BY <2>0, <2>3 DEF Deliver, None
    <3>2. inbox'[r] = Append(inbox[r], position[r]) /\ position'[r] = position[r] + ChunkSize
      BY <2>3, Zenon DEF Deliver, DeliveryTypes
    <3>3. inbox'[r] # <<>> /\ inbox'[r][1] = NextChunk(r)
      <4>1. /\ Append(inbox[r], position[r]) # <<>>
            /\ Append(inbox[r], position[r])[1] = IF inbox[r] # <<>> THEN inbox[r][1] ELSE position[r]
        BY <2>0, <3>1, AppendFirst
      <4> QED
        BY <3>2, <4>1, Zenon DEF NextChunk
    <3>4. Chained(inbox'[r], position'[r])
      BY <2>0, <3>1, <3>2, ChainedAppend, Zenon
    <3> QED
      BY <3>1, <3>3, <3>4, Zenon DEF Unused, NextChunk
  <2>4. ASSUME NEW s \in Sessions, Deliver(s), s # r PROVE inbox'[r] = inbox[r] /\ position'[r] = position[r]
    BY <2>4, Zenon DEF Deliver, DeliveryTypes
  <2>5. ASSUME NEW s \in Sessions, NoticeDisconnect(s) \/ FrameThreadEnds(s)
        PROVE  /\ position'[r] = position[r]
               /\ inbox'[r] = inbox[r] \/ (inbox'[r] = <<>> /\ sess'[r] \in {"locking", "closed"})
    BY <2>5, Zenon DEF NoticeDisconnect, FrameThreadEnds, DeliveryTypes
  <2>6. {"locking", "closed"} \cap Readable = {}
    BY DEF Readable
  <2>7. ASSUME NEW a \in Stoppers, StopUnsubscribe(a) PROVE inbox'[r] = inbox[r] /\ position'[r] \in {position[r], None}
    BY <2>7, Zenon DEF StopUnsubscribe, DeliveryTypes
  <2>8. PICK s \in Sessions, a \in Stoppers : Deliver(s) \/ NoticeDisconnect(s) \/ FrameThreadEnds(s) \/ StopUnsubscribe(a)
    <3>1. "user" \in Stoppers /\ r \in Sessions
      BY DEF Stoppers
    <3> QED
      BY <3>1, Zenon
  <2> QED
    BY <2>1, <2>2, <2>3, <2>4, <2>5, <2>6, <2>7, <2>8, Zenon
<1>3. SourceInv' /\ UnusedInv' /\ BegunInv' /\ InitialInv'
  BY <1>0, <1>1, <1>2, FrameKept, Zenon
<1>4. ChunkInv'
  BY <1>2, Zenon DEF ChunkInv, Chained
<1>5. OrderInv'
  <2>1. \A r \in Sessions : Source(r)' => Source(r) /\ NextChunk(r)' \in {NextChunk(r), None}
    BY <1>0, <1>1, <1>2, Zenon DEF Source
  <2> QED
    BY <1>0, <2>1, OrderKept, Zenon DEF SequenceInv
<1> QED
  BY <1>3, <1>4, <1>5, Zenon DEF SequenceInv

\* handle_deliver takes the next chunk, and the one after it is the next then.
LEMMA ChunkTaken ==
    ASSUME DeliveryTypes, ChunkInv, NEW s \in Sessions, handle_deliver(s)
    PROVE  LET c == inbox[s][1] IN
           /\ sess[s] \in Readable /\ frame[s] = NoFrame /\ inbox[s] # <<>>
           /\ frame'[s] = [step |-> "message", offset |-> c, store |-> FALSE] /\ frame'[s] # NoFrame
           /\ inbox'[s] = Tail(inbox[s])
           /\ \A r \in Sessions : r # s => frame'[r] = frame[r] /\ inbox'[r] = inbox[r]
           /\ c \in Nat /\ c # None /\ ChunkStart(c) /\ NextChunk(s) = c /\ NextChunk(s)' \in {c + ChunkSize, None}
<1> DEFINE q == inbox[s]
           f == [step |-> "message", offset |-> Head(q), store |-> FALSE]
<1>0. /\ UNCHANGED position
      /\ sess[s] \in Readable /\ frame[s] = NoFrame /\ q # <<>>
      /\ frame'[s] = f /\ inbox'[s] = Tail(q)
      /\ \A r \in Sessions : r # s => frame'[r] = frame[r] /\ inbox'[r] = inbox[r]
  BY Zenon DEF handle_deliver, DeliveryTypes, Readable
<1>1. q \in Seq(Nat) /\ position[s] \in Nat \cup {None} /\ Chained(q, position[s])
  BY Zenon DEF ChunkInv, DeliveryTypes
<1>2. Head(q) = q[1] /\ q[1] \in Nat /\ f # NoFrame /\ 1 \in DOMAIN q
  BY <1>0, <1>1 DEF NoFrame
<1>3. NextChunk(s) = q[1] /\ ChunkStart(q[1])
  BY <1>0, <1>1, <1>2, Zenon DEF NextChunk, Chained
<1>4. q[1] # None
  BY <1>2 DEF None
<1>5. NextChunk(s)' \in {q[1] + ChunkSize, None}
  <2>1. CASE Tail(q) # <<>>
    <3>1. 2 \in DOMAIN q /\ 2 > 1 /\ 2 - 1 = 1 /\ Tail(q)[1] = q[2]
      BY <1>1, <1>0, <2>1
    <3>2. q[2] = q[1] + ChunkSize
      BY <1>1, <3>1, Zenon DEF Chained
    <3> QED
      BY <1>0, <2>1, <3>1, <3>2, Zenon DEF NextChunk
  <2>2. CASE Tail(q) = <<>>
    <3>1. Len(q) = 1
      BY <1>0, <1>1, <2>2, TailOfOne, Zenon
    <3>2. position[s] # None => position[s] = q[1] + ChunkSize
      BY <1>0, <1>1, <3>1, Zenon DEF Chained
    <3> QED
      BY <1>0, <2>2, <3>2, Zenon DEF NextChunk
  <2> QED
    BY <2>1, <2>2
<1> QED
  BY <1>0, <1>2, <1>3, <1>4, <1>5, Zenon

\* handle_deliver takes the chunk that is due.
LEMMA ChunkDelivery ==
    ASSUME DeliveryTypes, Discipline, SequenceInv, NEW s \in Sessions, handle_deliver(s)
    PROVE  SequenceInv'
<1> DEFINE q == inbox[s]
<1>0. UNCHANGED <<conf, initial_offset, last_seen, handled, starting, status, nsess, taken, client, overlapped, sess, position>>
  BY Zenon DEF handle_deliver
<1>1. /\ sess[s] \in Readable /\ frame[s] = NoFrame /\ q # <<>>
      /\ frame'[s] = [step |-> "message", offset |-> q[1], store |-> FALSE] /\ frame'[s] # NoFrame
      /\ inbox'[s] = Tail(q)
      /\ \A r \in Sessions : r # s => frame'[r] = frame[r] /\ inbox'[r] = inbox[r]
      /\ q[1] \in Nat /\ q[1] # None /\ ChunkStart(q[1]) /\ NextChunk(s) = q[1]
      /\ NextChunk(s)' \in {q[1] + ChunkSize, None}
  BY ChunkTaken, Zenon DEF SequenceInv
<1>2. frame'[s].step = "message" /\ frame'[s].offset = q[1]
  BY <1>1
<1>3. ~Unused(s) /\ Source(s)
  BY <1>1, Zenon DEF Unused, Source, SequenceInv, UnusedInv
<1>4. SourceInv' /\ UnusedInv' /\ BegunInv' /\ InitialInv'
  <2>1. \A r \in Sessions : Unused(r) => Unused(r)'
    BY <1>0, <1>1, <1>3, Zenon DEF Unused
  <2>2. frame'[s].step \notin {"call", "handler", "store"}
    BY <1>2
  <2> QED
    BY <1>0, <1>1, <2>1, <2>2, FrameKept, Zenon
<1>5. ChunkInv'
  <2>1. q \in Seq(Nat) /\ position[s] \in Nat \cup {None} /\ Chained(q, position[s])
    BY Zenon DEF SequenceInv, ChunkInv, DeliveryTypes
  <2>2. Chained(Tail(q), position[s])
    BY <1>1, <2>1, ChainedTail, Zenon
  <2>3. \A r \in Sessions : Chained(inbox'[r], position'[r])
    BY <1>0, <1>1, <2>2, Zenon DEF SequenceInv, ChunkInv
  <2> QED
    BY <2>3, Zenon DEF ChunkInv, Chained
<1>6. OrderInv'
  <2>1. ASSUME ~overlapped PROVE AtDue(s)' /\ NextDue(s)'
    <3>1. Due(q[1])
      BY <1>1, <1>3, <2>1, Zenon DEF SequenceInv, OrderInv, NextDue
    <3>2. AtDue(s)'
      <4>1. \A o : Due(o) => Due(o)'
        BY <1>0, DueKept, Zenon
      <4>2. Due(frame[s].offset)'
        BY <1>2, <3>1, <4>1, Zenon
      <4> QED
        BY <1>2, <4>2 DEF AtDue
    <3>3. Adjacent(q[1], q[1] + ChunkSize)
      BY <1>1, ChunkFollows, Zenon
    <3>4. NextDue(s)'
      BY <1>0, <1>1, <1>2, <3>3, Zenon DEF NextDue, Adjacent, ChunkStart
    <3> QED
      BY <3>2, <3>4
  <2>2. \A t, u \in Sessions : Source(t) /\ Source(u) => t = u
    BY OneSource, Zenon DEF SequenceInv
  <2> QED
    BY <1>0, <1>1, <1>3, <2>1, <2>2, SessionOrder, Zenon DEF SequenceInv
<1> QED
  BY <1>4, <1>5, <1>6, Zenon DEF SequenceInv

\* m_initial_offset is what was asked for once a session is in use.
LEMMA AskedFor ==
    ASSUME Discipline, InitialInv, NEW s \in Sessions, ~Unused(s)
    PROVE  starting \notin Starting /\ (last_seen = None => initial_offset = Asked)
BY Zenon DEF Discipline, InitialInv, AllUnused

\* handle_message up to the handler.
LEMMA MessageDelivery ==
    ASSUME DeliveryTypes, Discipline, SequenceInv, NEW s \in Sessions, HandleMessage(s)
    PROVE  SequenceInv'
<1> DEFINE o == frame[s].offset
<1>0. /\ UNCHANGED <<conf, starting, status, nsess, taken, client, overlapped, sess, position, inbox>>
      /\ frame[s].step = "message" /\ starting # "finish"
      /\ \A r \in Sessions : r # s => frame'[r] = frame[r]
  BY Zenon DEF HandleMessage, Unlocked, DeliveryTypes
<1>1. frame[s] # NoFrame /\ ~Unused(s)
  BY <1>0 DEF Unused, NoFrame
<1>2. starting \notin Starting /\ (last_seen = None => initial_offset = Asked)
  BY <1>1, AskedFor, Zenon DEF SequenceInv
<1>3. o \in Nat
  BY DEF DeliveryTypes, Frames
<1>4. \A r \in Sessions : Unused(r) => Unused(r)'
  BY <1>0, <1>1, Zenon DEF Unused
<1>5. ChunkInv'
  BY <1>0, Zenon DEF SequenceInv, ChunkInv, Chained
<1>6. \A t, u \in Sessions : Source(t) /\ Source(u) => t = u
  BY OneSource, Zenon DEF SequenceInv
<1>7. CASE Skipped(o)
  <2>1. /\ UNCHANGED <<initial_offset, last_seen, handled>>
        /\ frame' = [frame EXCEPT ![s] = AfterMessage(frame[s].offset)] /\ frame'[s] = AfterMessage(o)
    BY <1>7, Zenon DEF HandleMessage, InitialAfter, DeliveryTypes
  <2>2. AfterMessage(o).step \notin {"call", "handler", "store"}
    BY DEF AfterMessage, NoFrame
  <2>3. SourceInv' /\ UnusedInv' /\ BegunInv' /\ InitialInv'
    BY <1>0, <1>4, <2>1, <2>2, FrameKept, Zenon
  <2>4. Due(o + 1)
    <3>1. initial_offset > o /\ initial_offset \in Nat \cup {None, NoOffset} /\ last_seen \in Nat \cup {None}
      BY <1>7, Zenon DEF Skipped, DeliveryTypes
    <3>2. initial_offset \in Nat /\ o + 1 <= initial_offset
      BY <1>3, <3>1 DEF None, NoOffset
    <3>3. initial_offset # None
      BY <3>2 DEF None
    <3>4. last_seen # None => o + 1 <= last_seen + 1
      BY <3>2, <3>3, Zenon DEF SequenceInv, InitialInv
    <3> QED
      BY <1>2, <3>2, <3>3, <3>4, Zenon DEF Due
  <2>5. ASSUME ~overlapped PROVE AtDue(s)' /\ NextDue(s)'
    <3>1. NextDue(s)
      BY <2>5, Zenon DEF SequenceInv, OrderInv
    <3>2. \A n : Due(n) => Due(n)'
      BY <1>0, <2>1, DueKept, Zenon
    <3>3. PICK n : n = o + 1 /\ Due(n)'
      BY <2>4, <3>2, Zenon
    <3> QED
      BY <1>0, <1>1, <2>1, <3>1, <3>3, FrameAdvances, Zenon DEF SequenceInv
  <2>6. OrderInv'
    BY <1>0, <1>1, <1>6, <2>1, <2>5, SessionOrder, Zenon DEF SequenceInv
  <2> QED
    BY <1>5, <2>3, <2>6, Zenon DEF SequenceInv
<1>8. CASE ~Skipped(o)
  <2>1. /\ initial_offset' = None /\ last_seen' = o
        /\ frame'[s] = [step |-> "call", offset |-> o, store |-> Frequent(since_persist + 1)]
    BY <1>8, Zenon DEF HandleMessage, InitialAfter, DeliveryTypes
  <2>2. frame'[s].step = "call" /\ frame'[s].offset = o /\ o # None
    BY <1>3, <2>1 DEF None
  <2>3. frame'[s] # NoFrame
    BY <2>1 DEF NoFrame
  <2>4. SourceInv' /\ UnusedInv'
    BY <1>0, <1>4, Zenon DEF SequenceInv, SourceInv, UnusedInv
  <2>5. BegunInv'
    <3>1. status \in {"Started", "Stopped"}
      BY <1>0, <1>1, Zenon DEF SequenceInv, BegunInv
    <3> QED
      BY <1>0, <3>1, Zenon DEF SequenceInv, BegunInv
  <2>6. InitialInv'
    BY <1>0, <1>2, <2>1, <2>2, Zenon DEF InitialInv
  <2>7. ASSUME ~overlapped PROVE AtDue(s)' /\ NextDue(s)'
    <3>1. NextDue(s)
      BY <2>7, Zenon DEF SequenceInv, OrderInv
    <3>2. AtDue(s)'
      BY <2>1, <2>2 DEF AtDue
    <3>3. NextDue(s)'
      BY <1>0, <1>1, <2>2, <2>3, <3>1, Zenon DEF NextDue, NextChunk, Source, Adjacent, ChunkStart
    <3> QED
      BY <3>2, <3>3
  <2>8. OrderInv'
    BY <1>0, <1>1, <1>6, <2>7, SessionOrder, Zenon DEF SequenceInv
  <2> QED
    BY <1>5, <2>4, <2>5, <2>6, <2>8, Zenon DEF SequenceInv
<1> QED
  BY <1>7, <1>8

\* handle_message from the handler on.
LEMMA HandlerDelivery ==
    ASSUME DeliveryTypes, Discipline, SequenceInv, NEW s \in Sessions, CallHandler(s) \/ Handler(s) \/ StoreByCount(s)
    PROVE  SequenceInv'
<1> DEFINE o == frame[s].offset
<1>0. /\ UNCHANGED <<conf, initial_offset, last_seen, starting, status, nsess, taken, client, overlapped, sess,
                     position, inbox>>
      /\ frame[s].step \in {"call", "handler", "store"}
      /\ \A r \in Sessions : r # s => frame'[r] = frame[r]
  BY Zenon DEF CallHandler, Handler, HandlerReturns, store_offset, grant_credit, HandlerThrows, StoreByCount, DeliveryTypes
<1>1. frame[s] # NoFrame /\ ~Unused(s)
  BY <1>0 DEF Unused, NoFrame
<1>2. o \in Nat /\ frame[s] \in Frames
  BY DEF DeliveryTypes, Frames
<1>3. \/ frame' = [frame EXCEPT ![s] = AfterMessage(frame[s].offset)]
      \/ \E n \in {"handler", "store"} : frame' = [frame EXCEPT ![s] = [frame[s] EXCEPT !.step = n]]
      \/ frame' = [frame EXCEPT ![s] = NoFrame] /\ status # "Started"
  BY Zenon DEF CallHandler, Handler, HandlerReturns, store_offset, grant_credit, HandlerThrows, StoreByCount, AfterHandler
<1>4. \A r \in Sessions : Unused(r) => Unused(r)'
  BY <1>0, <1>1, Zenon DEF Unused
<1>5. SourceInv' /\ UnusedInv' /\ BegunInv' /\ InitialInv'
  <2>1. starting \notin Starting
    BY <1>1, AskedFor, Zenon DEF SequenceInv
  <2> QED
    BY <1>0, <1>4, <2>1, FrameKept, Zenon
<1>6. ChunkInv'
  BY <1>0, Zenon DEF SequenceInv, ChunkInv, Chained
<1>7. \A t, u \in Sessions : Source(t) /\ Source(u) => t = u
  BY OneSource, Zenon DEF SequenceInv
<1>8. ASSUME ~overlapped PROVE AtDue(s)' /\ NextDue(s)'
  <2>1. AtDue(s) /\ NextDue(s) /\ last_seen = o /\ (Source(s) => initial_offset = None) /\ o # None
    <3>1. o # None
      BY <1>2 DEF None
    <3> QED
      BY <1>0, <1>8, <3>1, Zenon DEF SequenceInv, OrderInv, AtDue
  <2>2. UNCHANGED <<Source(s), NextChunk(s)>>
    BY <1>0, Zenon DEF Source, NextChunk
  <2>3. CASE frame' = [frame EXCEPT ![s] = AfterMessage(frame[s].offset)]
    <3>1. initial_offset # None => o + 1 <= last_seen + 1
      BY <1>2, <2>1
    <3>2. Due(o + 1)
      BY <2>1, <3>1, Zenon DEF Due
    <3>3. \A n : Due(n) => Due(n)'
      BY <1>0, DueKept, Zenon
    <3>4. PICK n : n = o + 1 /\ Due(n)'
      BY <3>2, <3>3, Zenon
    <3> QED
      BY <1>0, <1>1, <2>1, <2>3, <3>4, FrameAdvances, Zenon DEF SequenceInv
  <2>4. ASSUME NEW n \in {"handler", "store"}, frame' = [frame EXCEPT ![s] = [frame[s] EXCEPT !.step = n]]
        PROVE  AtDue(s)' /\ NextDue(s)'
    <3>1. frame'[s].step \in {"handler", "store"} /\ frame'[s].offset = o /\ frame'[s] # NoFrame
      <4>1. frame'[s] = [frame[s] EXCEPT !.step = n]
        BY <2>4, ZenonT(60) DEF DeliveryTypes
      <4> QED
        BY <1>2, <4>1 DEF Frames, NoFrame
    <3>2. AtDue(s)'
      BY <1>0, <2>1, <2>2, <3>1 DEF AtDue
    <3>3. NextDue(s)'
      BY <1>1, <2>1, <2>2, <3>1, Zenon DEF NextDue, Adjacent, ChunkStart
    <3> QED
      BY <3>2, <3>3
  <2>5. CASE frame' = [frame EXCEPT ![s] = NoFrame] /\ status # "Started"
    <3>1. frame'[s] = NoFrame /\ status' = "Stopped"
      BY <1>0, <2>5, ZenonT(60) DEF SequenceInv, BegunInv, DeliveryTypes
    <3>2. AtDue(s)'
      <4>1. NoFrame.step \notin {"message", "call", "handler", "store"}
        BY DEF NoFrame
      <4> QED
        BY <3>1, <4>1, Zenon DEF AtDue
    <3>3. ASSUME Source(s)', NextChunk(s)' # None PROVE Due(NextChunk(s))'
      <4>1. Adjacent(o, NextChunk(s)) /\ initial_offset = None /\ NextChunk(s) \in Nat
        BY <1>1, <2>1, <2>2, <3>3, NextChunkStarts, Zenon DEF NextDue, SequenceInv
      <4>2. NextChunk(s) > last_seen
        BY <1>2, <2>1, <4>1 DEF Adjacent
      <4> QED
        BY <1>0, <2>1, <2>2, <3>1, <4>1, <4>2, Zenon DEF Due
    <3> QED
      BY <3>1, <3>2, <3>3, Zenon DEF NextDue
  <2> QED
    BY <1>3, <2>3, <2>4, <2>5, Zenon
<1>9. OrderInv'
  BY <1>0, <1>1, <1>7, <1>8, SessionOrder, Zenon DEF SequenceInv
<1> QED
  BY <1>5, <1>6, <1>9, Zenon DEF SequenceInv

-----------------------------------------------------------------------------
(* Subscriptions                                                           *)

\* What the broker sends on a new subscription chains.
LEMMA FirstChained ==
    ASSUME NEW c \in Nat, ChunkStart(c)
    PROVE  Chained(<<>>, c)
BY DEF Chained

\* start() subscribes, or fails to.
LEMMA SubscribeDelivery ==
    ASSUME DeliveryTypes, DeliveryTypes', Discipline, SequenceInv, StartSubscribe
    PROVE  SequenceInv'
<1>0. /\ UNCHANGED <<conf, status, last_seen, client, sess, nsess, inbox, frame, taken, handled, overlapped>>
      /\ starting = "subscribe" /\ AllUnused /\ starting' \in {"finish", "failed"}
  BY Zenon DEF StartSubscribe, Discipline, Starting
<1>1. last_seen = None /\ \A s \in Sessions : position[s] = None /\ inbox[s] = <<>> /\ frame[s] = NoFrame
  BY <1>0, Zenon DEF AllUnused, Unused
<1>2. taken["Reconnect"] = NoClient /\ NoClient \notin Sessions /\ nsess = 1 /\ NoClient <= nsess
  <2>1. taken["Reconnect"] = NoClient /\ nsess = 1
    BY <1>0, Zenon DEF Discipline, SequenceInv, UnusedInv
  <2> QED
    BY <2>1 DEF NoClient, Sessions
<1>3. starting' \notin Starting /\ starting' # "subscribe"
  BY <1>0 DEF Starting
<1>4. SourceInv'
  BY <1>0, Zenon DEF SequenceInv, SourceInv
<1>5. \A s \in Sessions : frame'[s].step = "none"
  BY <1>0, <1>1 DEF NoFrame
<1>6. status' \in {"Starting", "Stopped"}
  BY <1>0, Zenon DEF SequenceInv, BegunInv
<1>7. CASE starting' = "failed"
  <2>1. AllUnused' /\ UNCHANGED position
    BY <1>0, <1>1, <1>7, Zenon DEF StartSubscribe, AllUnused, Unused
  <2>2. UnusedInv' /\ InitialInv'
    BY <1>0, <1>2, <1>3, <1>7, <2>1, Zenon DEF UnusedInv, InitialInv, AllUnused
  <2>3. BegunInv'
    <3>1. starting' \notin {"connect", "subscribe", "finish"} /\ \A s \in Sessions : frame'[s].step \notin {"call", "handler", "store"}
      BY <1>5, <1>7
    <3> QED
      BY <2>1, <3>1, Zenon DEF BegunInv, AllUnused
  <2>4. ChunkInv'
    BY <1>0, <2>1, Zenon DEF SequenceInv, ChunkInv, Chained
  <2>5. OrderInv'
    <3>1. \A s \in Sessions : Unused(s)'
      BY <2>1, Zenon DEF AllUnused
    <3>2. Alone'
      BY <3>1, Zenon DEF Unused, Alone
    <3>3. ASSUME NEW s \in Sessions PROVE AtDue(s)' /\ NextDue(s)'
      BY <3>1 DEF Unused, AtDue, NextDue, NextChunk, NoFrame
    <3> QED
      BY <3>2, <3>3, Zenon DEF OrderInv
  <2> QED
    BY <1>4, <2>2, <2>3, <2>4, <2>5, Zenon DEF SequenceInv
<1>8. CASE starting' = "finish"
  <2>1. initial_offset' = StoredOffset /\ subscribe(1, initial_offset')
    BY <1>8, Zenon DEF StartSubscribe
  <2>2. initial_offset' = Asked
    <3>1. starting \in Starting /\ \A s \in Sessions : frame[s].step # "call"
      BY <1>0, <1>1 DEF Starting, NoFrame
    <3>2. Given = {} /\ initial_offset = conf.offset
      BY <3>1, Zenon DEF Given, SequenceInv, InitialInv
    <3>3. stored = conf.stored
      BY <3>2, Zenon DEF Discipline, StoredWasGiven
    <3> QED
      BY <2>1, <3>2, <3>3, Zenon DEF StoredOffset, Asked
  <2>3. PICK c \in FirstChunk(Asked) : position' = [position EXCEPT ![1] = c]
    BY <2>1, <2>2, Zenon DEF subscribe
  <2>4. Asked \in Nat \cup {NoOffset} /\ conf \in Configs
    BY AskedType, Zenon DEF DeliveryTypes
  <2>5. c \in Nat /\ ChunkStart(c) /\ (Asked # NoOffset => c <= Asked)
    BY <2>3, <2>4, FirstChunkStarts, Zenon
  <2>6. \A s \in Sessions : position'[s] = IF s = 1 THEN c ELSE None
    BY <1>1, <2>3, Zenon DEF DeliveryTypes
  <2>7. UnusedInv'
    <3>1. \A s \in Sessions : s > 1 => s # 1
      BY DEF Sessions
    <3> QED
      BY <1>0, <1>1, <1>2, <1>3, <2>6, <3>1, Zenon DEF UnusedInv, Unused
  <2>8. BegunInv'
    <3>1. \A s \in Sessions : frame'[s].step \notin {"call", "handler", "store"}
      BY <1>5
    <3> QED
      BY <1>6, <1>8, <3>1, Zenon DEF BegunInv
  <2>9. InitialInv'
    BY <1>0, <1>1, <1>3, <2>2, Zenon DEF InitialInv, Asked
  <2>10. ChunkInv'
    <3>1. \A s \in Sessions : Chained(inbox'[s], position'[s])
      BY <1>0, <1>1, <2>5, <2>6, FirstChained, Zenon DEF SequenceInv, ChunkInv
    <3> QED
      BY <3>1, Zenon DEF ChunkInv, Chained
  <2>11. OrderInv'
    <3>1. Alone'
      BY <1>0, <1>1, Zenon DEF Alone
    <3>2. ASSUME NEW s \in Sessions PROVE AtDue(s)'
      BY <1>5 DEF AtDue
    <3>3. ASSUME NEW s \in Sessions PROVE NextDue(s)'
      BY <1>0, <1>1, <2>5, <2>6, Zenon DEF NextDue, NextChunk, Due, Asked
    <3> QED
      BY <3>1, <3>2, <3>3, Zenon DEF OrderInv
  <2> QED
    BY <1>4, <2>7, <2>8, <2>9, <2>10, <2>11, Zenon DEF SequenceInv
<1> QED
  BY <1>0, <1>7, <1>8

\* m_initial_offset when a recovery has set it.
LEMMA ResumeDue ==
    ASSUME DeliveryTypes, Discipline, InitialInv, run["Reconnect"] # "idle", initial_offset' = ResumeOffset,
           UNCHANGED <<conf, last_seen, handled, starting>>
    PROVE  /\ InitialInv'
           /\ initial_offset' \in Nat \cup {NoOffset}
           /\ last_seen = None => initial_offset' = Asked
           /\ last_seen # None => initial_offset' = last_seen + 1 /\ initial_offset' # None
<1>1. starting = "done" /\ starting \notin Starting
  BY DEF Discipline, Starting
<1>2. last_seen = None => initial_offset' = Asked
  BY <1>1, Zenon DEF InitialInv, ResumeOffset
<1>3. last_seen # None => initial_offset' = last_seen + 1
  BY Zenon DEF ResumeOffset
<1>4. last_seen \in Nat \cup {None} /\ Asked \in Nat \cup {NoOffset}
  BY AskedType, Zenon DEF DeliveryTypes
<1>5. initial_offset' \in Nat \cup {NoOffset} /\ initial_offset' # None
  BY <1>2, <1>3, <1>4 DEF None, NoOffset
<1>6. InitialInv'
  BY <1>1, <1>2, <1>3, Zenon DEF InitialInv, Asked
<1> QED
  BY <1>2, <1>3, <1>5, <1>6

\* A recovery subscribes with the message after the last one.
LEMMA RecoveryDelivery ==
    ASSUME DeliveryTypes, DeliveryTypes', Discipline, SequenceInv, ReconnectSubscribe, status = "Started"
    PROVE  SequenceInv'
<1> DEFINE s == taken["Reconnect"]
<1>0. /\ UNCHANGED <<conf, status, starting, last_seen, nsess, inbox, frame, handled, sess>>
      /\ run["Reconnect"] # "idle" /\ initial_offset' = ResumeOffset /\ subscribe(s, initial_offset')
      /\ client' = s /\ overlapped' = (overlapped \/ \E t \in Sessions : frame[t] # NoFrame)
  BY Zenon DEF ReconnectSubscribe
<1>1. taken'["Reconnect"] = NoClient /\ taken'["stop"] = taken["stop"]
  BY Zenon DEF ReconnectSubscribe, DeliveryTypes
<1>2. NoClient \notin Sessions /\ client = NoClient /\ taken["stop"] = NoClient /\ starting = "done"
  BY <1>0 DEF Discipline, NoClient, Sessions
<1>3. /\ InitialInv' /\ initial_offset' \in Nat \cup {NoOffset}
      /\ last_seen = None => initial_offset' = Asked
      /\ last_seen # None => initial_offset' = last_seen + 1 /\ initial_offset' # None
  BY <1>0, ResumeDue, Zenon DEF SequenceInv
<1>4. PICK c \in FirstChunk(initial_offset') : position' = [position EXCEPT ![s] = c]
  BY <1>0, Zenon DEF subscribe
<1>5. c \in Nat /\ ChunkStart(c) /\ (initial_offset' # NoOffset => c <= initial_offset')
  BY <1>3, <1>4, FirstChunkStarts, Zenon DEF DeliveryTypes
<1>6. \A r \in Sessions : position'[r] = IF r = s THEN c ELSE position[r]
  BY <1>4, Zenon DEF DeliveryTypes
<1>7. SourceInv'
  BY <1>0, <1>2, Zenon DEF SequenceInv, SourceInv
<1>8. UnusedInv' /\ \A r \in Sessions : r = s => inbox[r] = <<>>
  <2>1. s <= nsess /\ \A r \in Sessions : r > nsess => r # s
    <3>1. s <= nsess
      BY Zenon DEF SequenceInv, UnusedInv
    <3> QED
      BY <3>1 DEF DeliveryTypes, Sessions
  <2>2. taken'["Reconnect"] <= nsess'
    BY <1>0, <1>1 DEF DeliveryTypes, NoClient, Sessions
  <2>3. starting' # "subscribe"
    BY <1>0, <1>2
  <2> QED
    BY <1>0, <1>1, <1>2, <1>6, <2>1, <2>2, <2>3, Zenon DEF SequenceInv, UnusedInv, Unused
<1>9. BegunInv'
  BY <1>0, <1>2, Zenon DEF SequenceInv, BegunInv
<1>10. ChunkInv'
  <2>1. \A r \in Sessions : Chained(inbox'[r], position'[r])
    BY <1>0, <1>5, <1>6, <1>8, FirstChained, Zenon DEF SequenceInv, ChunkInv
  <2> QED
    BY <2>1, Zenon DEF ChunkInv, Chained
<1>11. OrderInv'
  <2> SUFFICES ASSUME ~overlapped' PROVE (Alone /\ \A r \in Sessions : AtDue(r) /\ NextDue(r))'
    BY Zenon DEF OrderInv
  <2>1. \A r \in Sessions : frame'[r] = NoFrame
    BY <1>0, Zenon
  <2>2. Alone'
    BY <2>1, Zenon DEF Alone
  <2>3. ASSUME NEW r \in Sessions PROVE AtDue(r)'
    BY <2>1 DEF AtDue, NoFrame
  <2>4. ASSUME NEW r \in Sessions PROVE NextDue(r)'
    <3>1. Source(r)' => r = s
      BY <1>1, <1>2, <1>0, <1>7, Zenon DEF Source, SourceInv
    <3>2. r = s => NextChunk(r)' = c
      BY <1>0, <1>6, <1>8, Zenon DEF NextChunk
    <3>3. Asked' = Asked
      BY <1>0, Zenon DEF Asked
    <3>4. last_seen # None => c <= last_seen + 1
      <4>1. last_seen # None => initial_offset' = last_seen + 1 /\ last_seen \in Nat
        BY <1>3 DEF DeliveryTypes
      <4> QED
        BY <1>5, <4>1 DEF NoOffset
    <3>5. Due(c)'
      BY <1>0, <1>3, <1>5, <3>3, <3>4, Zenon DEF Due
    <3> QED
      BY <2>1, <3>1, <3>2, <3>5, Zenon DEF NextDue
  <2> QED
    BY <2>2, <2>3, <2>4, Zenon
<1> QED
  BY <1>3, <1>7, <1>8, <1>9, <1>10, <1>11, Zenon DEF SequenceInv

\* A recovery that fails to subscribe, or finds the consumer stopped.
LEMMA RecoveryFailed ==
    ASSUME DeliveryTypes, Discipline, SequenceInv,
           (ReconnectSubscribe /\ status # "Started") \/ ReconnectUnsubscribed
    PROVE  SequenceInv'
<1>0. /\ UNCHANGED <<conf, status, starting, last_seen, nsess, client, taken, position, inbox, frame, handled, overlapped>>
      /\ run["Reconnect"] # "idle" /\ sess' = Closing(taken["Reconnect"])
  BY Zenon DEF ReconnectSubscribe, ReconnectUnsubscribed
<1>1. \A r \in Sessions : sess'[r] \in Readable => sess[r] \in Readable
  BY <1>0, ClosingEnds, Zenon
<1>2. \A r \in Sessions : sess'[r] \in Readable => r \in {client', taken'["Reconnect"], taken'["stop"]}
  BY <1>0, <1>1, Zenon DEF SequenceInv, SourceInv
<1>3. CASE UNCHANGED initial_offset
  <2>1. UNCHANGED deliveryVars
    BY <1>0, <1>3, Zenon DEF deliveryVars
  <2> QED
    BY <1>0, <1>1, <1>2, <2>1, SessionsKept, Zenon
<1>4. CASE ReconnectUnsubscribed
  <2>1. status = "Started" /\ initial_offset' = ResumeOffset
    BY <1>4, Zenon DEF ReconnectUnsubscribed
  <2>2. /\ InitialInv' /\ initial_offset' \in Nat \cup {NoOffset}
        /\ last_seen # None => initial_offset' = last_seen + 1 /\ initial_offset' # None
    BY <1>0, <2>1, ResumeDue, Zenon DEF SequenceInv
  <2>3. SourceInv' /\ ChunkInv'
    BY <1>0, <1>2, Zenon DEF SequenceInv, SourceInv, ChunkInv, Chained
  <2>4. UnusedInv' /\ BegunInv'
    BY <1>0, Zenon DEF SequenceInv, UnusedInv, BegunInv, Unused
  <2>5. \A r \in Sessions : ~Source(r)'
    <3>1. \A r \in Sessions : ~Source(r)
      BY <1>0, NoSource, Zenon DEF SequenceInv
    <3> QED
      BY <1>0, <1>1, <3>1, Zenon DEF Source
  <2>6. OrderInv'
    <3> SUFFICES ASSUME ~overlapped' PROVE (Alone /\ \A r \in Sessions : AtDue(r) /\ NextDue(r))'
      BY Zenon DEF OrderInv
    <3>0. Alone /\ \A r \in Sessions : AtDue(r) /\ NextDue(r)
      BY <1>0, Zenon DEF SequenceInv, OrderInv
    <3>1. Alone'
      BY <1>0, <2>5, <3>0, Zenon DEF Alone
    <3>2. ASSUME NEW o, Due(o) PROVE Due(o)'
      <4>1. status # "Stopped" /\ Asked' = Asked
        BY <1>0, <2>1 DEF Asked
      <4>2. last_seen # None => o <= last_seen + 1
        <5>1. last_seen # None => last_seen + 1 <= last_seen + 1
          BY DEF DeliveryTypes
        <5> QED
          BY <3>2, <4>1, <5>1, Zenon DEF Due
      <4> QED
        BY <1>0, <2>2, <3>2, <4>1, <4>2, Zenon DEF Due
    <3>3. ASSUME NEW r \in Sessions PROVE AtDue(r)' /\ NextDue(r)'
      BY <1>0, <2>5, <3>0, <3>2, Zenon DEF AtDue, NextDue
    <3> QED
      BY <3>1, <3>3, Zenon
  <2> QED
    BY <2>2, <2>3, <2>4, <2>6, Zenon DEF SequenceInv
<1> QED
  BY <1>3, <1>4, Zenon DEF ReconnectSubscribe

-----------------------------------------------------------------------------
(* The sequence                                                            *)

\* Before start() nothing was asked for.
LEMMA InitDelivery == Init => SequenceInv
<1> SUFFICES ASSUME Init PROVE SequenceInv
  OBVIOUS
<1>1. /\ starting = "init" /\ status = "Initialized" /\ last_seen = None /\ initial_offset = conf.offset /\ handled = {}
      /\ sess = [s \in Sessions |-> "none"] /\ nsess = 0 /\ taken = [t \in {"Delayed", "Reconnect", "stop"} |-> NoClient]
      /\ frame = [s \in Sessions |-> NoFrame] /\ inbox = [s \in Sessions |-> <<>>] /\ position = [s \in Sessions |-> None]
  BY Zenon DEF Init
<1>2. \A s \in Sessions : Unused(s)
  BY <1>1, Zenon DEF Unused
<1>3. \A s \in Sessions : sess[s] \notin Readable /\ frame[s].step = "none"
  BY <1>1 DEF Readable, NoFrame
<1>4. SourceInv /\ InitialInv /\ BegunInv
  <2>1. starting \in Starting /\ starting \notin {"connect", "subscribe", "finish"}
    BY <1>1 DEF Starting
  <2>2. \A s \in Sessions : frame[s].step \notin {"call", "handler", "store"}
    BY <1>3
  <2> QED
    BY <1>1, <1>2, <1>3, <2>1, <2>2, Zenon DEF SourceInv, InitialInv, BegunInv
<1>5. UnusedInv
  BY <1>1, <1>2 DEF UnusedInv, NoClient
<1>6. ChunkInv /\ OrderInv
  BY <1>2, NothingYet, Zenon
<1> QED
  BY <1>4, <1>5, <1>6, Zenon DEF SequenceInv

\* Every step keeps the order.
LEMMA StepDelivery ==
    ASSUME DeliveryTypes, DeliveryTypes', Discipline, SequenceInv, [Next]_vars
    PROVE  SequenceInv'
<1>1. CASE Start
  BY <1>1, StartDelivery, SubscribeDelivery, Zenon DEF Start
<1>2. CASE StopCall \/ DeletedBegin \/ store_current_offset \/ (\E t \in Tasks : TimerExpires(t)) \/ UNCHANGED vars
  BY <1>2, QuietDelivery, Zenon
<1>3. CASE DelayedTask \/ ReconnectTask
  BY <1>3, QuietDelivery, TakenDelivery, RecoveryDelivery, RecoveryFailed, Zenon DEF ReconnectTask
<1>4. ASSUME NEW a \in Stoppers, Stop(a) PROVE SequenceInv'
  BY <1>4, QuietDelivery, StopDelivery, ReadDelivery, Zenon DEF Stop
<1>5. ASSUME NEW s \in Sessions, FrameThread(s) PROVE SequenceInv'
  BY <1>5, ChunkDelivery, MessageDelivery, HandlerDelivery, ReadDelivery, LostDelivery, Zenon DEF FrameThread
<1>6. ASSUME NEW s \in Sessions, Broker(s) \/ handle_metadata_update(s) \/ Disconnect(s) \/ HeartbeatTimeout(s)
      PROVE  SequenceInv'
  BY <1>6, QuietDelivery, ReadDelivery, LostDelivery, Zenon DEF Broker
<1> QED
  BY <1>1, <1>2, <1>3, <1>4, <1>5, <1>6, Zenon DEF Next

\* Only handle_message takes a message for the handler.
LEMMA CalledByMessage ==
    ASSUME DeliveryTypes, [Next]_vars, NEW s \in Sessions, frame[s].step = "message", frame'[s].step = "call"
    PROVE  ~Skipped(frame[s].offset)
<1>1. ASSUME NEW r \in Sessions, HandleMessage(r) PROVE ~Skipped(frame[s].offset)
  <2>1. frame'[s] = frame[s] \/ r = s
    BY <1>1, Zenon DEF HandleMessage, DeliveryTypes
  <2>2. r = s
    BY <2>1, Zenon
  <2>3. ASSUME Skipped(frame[s].offset) PROVE FALSE
    <3>1. frame'[s] = AfterMessage(frame[s].offset)
      BY <1>1, <2>2, <2>3, Zenon DEF HandleMessage, DeliveryTypes
    <3> QED
      BY <3>1 DEF AfterMessage, NoFrame
  <2> QED
    BY <2>3
<1>2. ASSUME NEW r \in Sessions, handle_deliver(r) \/ CallHandler(r) \/ Handler(r) \/ StoreByCount(r) PROVE FALSE
  <2>0. NoFrame.step = "none"
    BY DEF NoFrame
  <2>1. frame[r].step \in {"none", "call", "handler", "store"}
    BY <1>2, <2>0, Zenon DEF handle_deliver, CallHandler, Handler, HandlerReturns, store_offset, grant_credit,
       HandlerThrows, StoreByCount
  <2>2. r = s \/ frame'[s] = frame[s]
    BY <1>2, Zenon DEF handle_deliver, CallHandler, Handler, HandlerReturns, store_offset, grant_credit, HandlerThrows,
       StoreByCount, DeliveryTypes
  <2> QED
    BY <2>1, <2>2
<1>3. ASSUME UNCHANGED frame PROVE FALSE
  BY <1>3
<1>4. CASE UNCHANGED vars \/ Start \/ StopCall \/ DeletedBegin \/ store_current_offset \/ \E t \in Tasks : TimerExpires(t)
  <2>1. UNCHANGED frame
    BY <1>4, Zenon DEF vars, Start, StartBegin, StartConnect, StartSubscribe, StartFinish, StopCall, DeletedBegin,
       store_current_offset, TimerExpires
  <2> QED
    BY <1>3, <2>1
<1>5. CASE DelayedTask \/ ReconnectTask
  <2>1. UNCHANGED frame
    BY <1>5, Zenon DEF DelayedTask, DelayedBegin, DelayedEnd, ReconnectTask, ReconnectBegin, ReconnectConnect,
       ReconnectRefused, ReconnectSubscribe, ReconnectUnsubscribed, ReconnectEnd
  <2> QED
    BY <1>3, <2>1
<1>6. ASSUME NEW a \in Stoppers, Stop(a) PROVE FALSE
  <2>1. UNCHANGED frame
    BY <1>6, Zenon DEF Stop, StopDestroys, StopExchange, StopClient, StopUnsubscribe, StopStore, StopJoined
  <2> QED
    BY <1>3, <2>1
<1>7. ASSUME NEW r \in Sessions,
             \/ NoticeDisconnect(r) \/ handle_shutdown(r) \/ ShutdownDropped(r) \/ FrameThreadEnds(r)
             \/ Broker(r) \/ handle_metadata_update(r) \/ Disconnect(r) \/ HeartbeatTimeout(r)
      PROVE  FALSE
  <2>1. UNCHANGED frame
    BY <1>7, Zenon DEF NoticeDisconnect, handle_shutdown, ShutdownDropped, FrameThreadEnds, Broker, Deliver, BrokerStores,
       handle_metadata_update, Disconnect, HeartbeatTimeout
  <2> QED
    BY <1>3, <2>1
<1> QED
  BY <1>1, <1>2, <1>4, <1>5, <1>6, <1>7, Zenon DEF Next, FrameThread

\* A message that is due and not skipped is the next in sequence.
LEMMA DueInSequence ==
    ASSUME DeliveryTypes, Discipline, SequenceInv, ~overlapped,
           NEW s \in Sessions, frame[s].step = "message", ~Skipped(frame[s].offset)
    PROVE  InSequence(frame[s].offset)
<1> DEFINE o == frame[s].offset
<1>1. ~Unused(s)
  BY DEF Unused, NoFrame
<1>2. last_seen = None => initial_offset = Asked
  BY <1>1, AskedFor, Zenon DEF SequenceInv
<1>3. Due(o) /\ o \in Nat
  <2>1. o \in Nat
    BY DEF DeliveryTypes, Frames
  <2> QED
    BY <2>1, Zenon DEF SequenceInv, OrderInv, AtDue
<1>4. CASE last_seen = None
  <2>1. Asked \in Nat \cup {NoOffset} /\ (Asked = NoOffset \/ o <= Asked) /\ ~(Asked > o)
    BY <1>2, <1>3, <1>4, AskedType, Zenon DEF Due, Skipped, DeliveryTypes
  <2>2. Asked \in {o, NoOffset}
    BY <1>3, <2>1
  <2> QED
    BY <1>4, <2>2, Zenon DEF InSequence
<1>5. CASE last_seen # None
  <2>1. CASE initial_offset # None
    <3>1. initial_offset = last_seen + 1 /\ last_seen \in Nat \cup {None} /\ o <= last_seen + 1 /\ ~(initial_offset > o)
      BY <1>3, <1>5, <2>1, Zenon DEF SequenceInv, InitialInv, Due, Skipped, DeliveryTypes
    <3>2. o = last_seen + 1
      BY <1>3, <3>1 DEF None
    <3> QED
      BY <1>5, <3>2, Zenon DEF InSequence
  <2>2. CASE initial_offset = None
    BY <1>3, <1>5, <2>2, Zenon DEF Due, InSequence
  <2> QED
    BY <2>1, <2>2
<1> QED
  BY <1>4, <1>5

-----------------------------------------------------------------------------
(* No gap below the cursor                                                 *)

\* Every message from the one asked for up to n, without it, was given to the
\* handler.
Reached(n) == \A o \in Asked .. n - 1 : o \in Given

\* A handler that lets the exception of store_offset pass skips the rest of
\* its chunk; store_offset throws to one that keeps its own cursor, when the
\* consumer has been stopped.
Unbroken == status # "Stopped" \/ conf.auto_cursor

\* Whatever session a message comes from, everything before it was given, ...
AtReached(s) ==
    /\ frame[s].step = "message" => Reached(frame[s].offset)
    /\ frame[s].step \in {"call", "handler", "store"} => Reached(frame[s].offset + 1)

\* ... and so was everything before the next chunk, or it is in this one.
NextReached(s) ==
    sess[s] \in Readable /\ NextChunk(s) # None =>
        IF frame[s] = NoFrame THEN Reached(NextChunk(s)) ELSE Adjacent(frame[s].offset, NextChunk(s))

ReachInv ==
    Asked # NoOffset /\ Unbroken =>
        /\ last_seen # None => Reached(last_seen + 1)
        /\ \A s \in Sessions : AtReached(s) /\ NextReached(s)

\* What is stored, or sent to be, has no gap below it.
CursorInv == conf.named /\ Asked # NoOffset => \A x \in Persisted : Reached(x + 1)

GapInv == ReachInv /\ CursorInv

\* The types this needs besides.
CursorTypes == handled \in SUBSET Nat /\ wire \in [Sessions -> Seq(Nat)] /\ stored \in Nat \cup {None}

\* What was reached stays reached, ...
LEMMA ReachedKept ==
    ASSUME UNCHANGED conf, Given \subseteq Given', NEW n, Reached(n)
    PROVE  Reached(n)'
BY Zenon DEF Reached, Asked

\* ... goes on with the next message, ...
LEMMA ReachedNext ==
    ASSUME UNCHANGED conf, Given \subseteq Given', NEW n \in Nat, Reached(n), n \in Given', Asked \in Int
    PROVE  Reached(n + 1)'
<1>1. ASSUME NEW o \in Asked .. (n + 1) - 1 PROVE o \in Asked .. n - 1 \/ o = n
  BY <1>1
<1>2. UNCHANGED Asked
  BY Zenon DEF Asked
<1> QED
  BY <1>1, <1>2, Zenon DEF Reached

\* ... and includes what comes before, ...
LEMMA ReachedBefore ==
    ASSUME NEW n \in Int, NEW m \in Int, m <= n, Reached(n), Asked \in Int
    PROVE  Reached(m)
<1>1. Asked .. m - 1 \subseteq Asked .. n - 1
  OBVIOUS
<1> QED
  BY <1>1, Zenon DEF Reached

\* ... of which nothing was asked for at first.
LEMMA ReachedAtFirst ==
    ASSUME NEW n \in Int, n <= Asked, Asked \in Int
    PROVE  Reached(n)
<1>1. Asked .. n - 1 = {}
  OBVIOUS
<1> QED
  BY <1>1, Zenon DEF Reached

\* Steps that leave the frame threads where they are, open no source of messages
\* and give none another chunk to go on with.
LEMMA ReachKept ==
    ASSUME ReachInv, UNCHANGED <<conf, last_seen, frame, handled>>, UNCHANGED status \/ status # "Stopped",
           \A s \in Sessions : sess'[s] \in Readable /\ NextChunk(s)' # None =>
               sess[s] \in Readable /\ NextChunk(s)' = NextChunk(s)
    PROVE  ReachInv'
<1> SUFFICES ASSUME Asked' # NoOffset, Unbroken'
             PROVE  (last_seen # None => Reached(last_seen + 1))' /\ \A s \in Sessions : AtReached(s)' /\ NextReached(s)'
  BY Zenon DEF ReachInv
<1>0. Asked # NoOffset /\ Unbroken
  BY Zenon DEF Asked, Unbroken
<1>1. Given \subseteq Given'
  BY GivenSame, Zenon
<1>2. \A n : Reached(n) => Reached(n)'
  BY <1>1, ReachedKept, Zenon
<1>3. ASSUME last_seen' # None PROVE Reached(last_seen + 1)'
  <2>1. PICK n : n = last_seen + 1 /\ n = (last_seen + 1)' /\ Reached(n)
    BY <1>0, <1>3, Zenon DEF ReachInv
  <2> QED
    BY <1>2, <2>1, Zenon
<1>4. ASSUME NEW s \in Sessions PROVE AtReached(s)' /\ NextReached(s)'
  <2>0. AtReached(s) /\ NextReached(s) /\ frame'[s] = frame[s]
    BY <1>0, Zenon DEF ReachInv
  <2>1. AtReached(s)'
    <3>1. ASSUME NEW n, Reached(n) PROVE Reached(n)'
      BY <1>2, <3>1, Zenon
    <3> QED
      BY <2>0, <3>1, Zenon DEF AtReached
  <2>2. NextReached(s)'
    BY <1>2, <2>0, Zenon DEF NextReached, Adjacent, ChunkStart
  <2> QED
    BY <2>1, <2>2
<1> QED
  BY <1>3, <1>4, Zenon

\* The control: start() before and after the subscription, the tasks, stop(),
\* the broker and the sessions as they come and go.
LEMMA QuietReach ==
    ASSUME DeliveryTypes, Discipline, SequenceInv, ReachInv,
           \/ StartBegin \/ StartConnect \/ StartFinish \/ StopCall \/ DeletedBegin \/ store_current_offset
           \/ DelayedTask \/ ReconnectBegin \/ ReconnectConnect \/ ReconnectRefused \/ ReconnectUnsubscribed \/ ReconnectEnd
           \/ ReconnectSubscribe /\ status # "Started"
           \/ \E t \in Tasks : TimerExpires(t)
           \/ \E a \in Stoppers : StopDestroys(a) \/ StopExchange(a) \/ StopClient(a) \/ StopStore(a) \/ StopJoined(a)
           \/ \E s \in Sessions :
                 \/ BrokerStores(s) \/ handle_metadata_update(s) \/ Disconnect(s) \/ HeartbeatTimeout(s)
                 \/ handle_shutdown(s) \/ ShutdownDropped(s)
           \/ UNCHANGED vars
    PROVE  ReachInv'
<1>1. UNCHANGED <<conf, last_seen, frame, handled, position, inbox>> /\ (UNCHANGED status \/ status # "Stopped")
  BY Zenon DEF StartBegin, StartConnect, StartFinish, StopCall, DeletedBegin, store_current_offset, DelayedTask,
     DelayedBegin, DelayedEnd, ReconnectBegin, ReconnectConnect, ReconnectRefused, ReconnectUnsubscribed, ReconnectEnd,
     ReconnectSubscribe, TimerExpires, StopDestroys, StopExchange, StopClient, StopStore, StopJoined, BrokerStores,
     handle_metadata_update, Disconnect, HeartbeatTimeout, handle_shutdown, ShutdownDropped, vars
<1>2. \A r \in Sessions : UNCHANGED NextChunk(r)
  BY <1>1, Zenon DEF NextChunk
<1>3. ASSUME NEW r \in Sessions, sess'[r] \in Readable, NextChunk(r) # None PROVE sess[r] \in Readable
  <2>0. sess \in [Sessions -> SessionStates]
    BY Zenon DEF DeliveryTypes
  <2>1. CASE UNCHANGED sess
    BY <1>3, <2>1, Zenon
  <2>2. ASSUME NEW c, sess' = Closing(c) PROVE sess[r] \in Readable
    BY <1>3, <2>2, ClosingEnds, Zenon
  <2>3. ~Unused(r)
    BY <1>3, Zenon DEF Unused, NextChunk
  <2>4. CASE StartConnect
    BY <2>3, <2>4 DEF StartConnect, Discipline, Starting, AllUnused
  <2>5. CASE ReconnectConnect
    <3>1. r # nsess + 1
      <4>1. nsess + 1 > nsess
        <5>1. nsess \in Sessions \cup {0}
          BY Zenon DEF DeliveryTypes
        <5> QED
          BY <5>1 DEF Sessions
      <4> QED
        BY <2>3, <4>1, Zenon DEF SequenceInv, UnusedInv
    <3> QED
      BY <1>3, <2>0, <2>5, <3>1, Zenon DEF ReconnectConnect
  <2>6. ASSUME NEW s \in Sessions, Disconnect(s) \/ HeartbeatTimeout(s) \/ ShutdownDropped(s) PROVE sess[r] \in Readable
    BY <1>3, <2>0, <2>6 DEF Disconnect, HeartbeatTimeout, ShutdownDropped, Readable
  <2>7. ASSUME NEW s \in Sessions, handle_shutdown(s) PROVE sess[r] \in Readable
    <3>1. Closing(client) \in [Sessions -> SessionStates] /\ (Closing(client)[r] \in Readable => sess[r] \in Readable)
      <4>1. Closing(client) \in [Sessions -> SessionStates]
        BY <2>0, Zenon DEF Closing, SessionStates
      <4> QED
        BY <4>1, ClosingEnds, Zenon
    <3>2. PICK e \in {"closed", "closing", "joining", "dropping"} :
              sess' \in {[sess EXCEPT ![s] = e], [Closing(client) EXCEPT ![s] = e]}
      BY <2>7, Zenon DEF handle_shutdown
    <3>3. e \notin Readable
      BY <3>2 DEF Readable
    <3> QED
      BY <1>3, <2>0, <3>1, <3>2, <3>3, Zenon
  <2>8. \/ UNCHANGED sess \/ (\E c : sess' = Closing(c)) \/ StartConnect \/ ReconnectConnect
        \/ \E s \in Sessions : Disconnect(s) \/ HeartbeatTimeout(s) \/ ShutdownDropped(s) \/ handle_shutdown(s)
    BY Zenon DEF StartBegin, StartFinish, StopCall, DeletedBegin, store_current_offset, DelayedTask,
       DelayedBegin, DelayedEnd, ReconnectBegin, ReconnectRefused, ReconnectUnsubscribed, ReconnectEnd,
       ReconnectSubscribe, TimerExpires, StopDestroys, StopExchange, StopClient, StopStore, StopJoined, BrokerStores,
       handle_metadata_update, vars
  <2> QED
    BY <2>1, <2>2, <2>4, <2>5, <2>6, <2>7, <2>8, Zenon
<1> QED
  BY <1>1, <1>2, <1>3, ReachKept, Zenon

\* The broker sends a chunk, a session ends, stop() unsubscribes.
LEMMA ReadReach ==
    ASSUME DeliveryTypes, SequenceInv, ReachInv,
           \/ \E s \in Sessions : Deliver(s) \/ NoticeDisconnect(s) \/ FrameThreadEnds(s)
           \/ \E a \in Stoppers : StopUnsubscribe(a)
    PROVE  ReachInv'
<1>0. UNCHANGED <<conf, status, last_seen, handled, frame>>
  BY Zenon DEF Deliver, NoticeDisconnect, FrameThreadEnds, StopUnsubscribe
<1> SUFFICES ASSUME NEW r \in Sessions, sess'[r] \in Readable, NextChunk(r)' # None
             PROVE  sess[r] \in Readable /\ NextChunk(r)' = NextChunk(r)
  BY <1>0, ReachKept, Zenon
<1>1. inbox[r] \in Seq(Nat) /\ position[r] \in Nat \cup {None} /\ sess \in [Sessions -> SessionStates]
  BY Zenon DEF DeliveryTypes
<1>2. ASSUME NEW s \in Sessions, Deliver(s) PROVE sess[r] \in Readable /\ NextChunk(r)' = NextChunk(r)
  <2>1. UNCHANGED sess
    BY <1>2, Zenon DEF Deliver
  <2>2. CASE r # s
    <3>1. inbox'[r] = inbox[r] /\ position'[r] = position[r]
      BY <1>2, <2>2, Zenon DEF Deliver, DeliveryTypes
    <3> QED
      BY <2>1, <3>1, Zenon DEF NextChunk
  <2>3. CASE r = s
    <3>1. position[r] \in Nat
      BY <1>1, <1>2, <2>3 DEF Deliver
    <3>2. inbox'[r] = Append(inbox[r], position[r])
      BY <1>2, <2>3, Zenon DEF Deliver, DeliveryTypes
    <3>3. /\ Append(inbox[r], position[r]) # <<>>
          /\ Append(inbox[r], position[r])[1] = IF inbox[r] # <<>> THEN inbox[r][1] ELSE position[r]
      BY <1>1, <3>1, AppendFirst
    <3> QED
      BY <2>1, <3>2, <3>3, Zenon DEF NextChunk
  <2> QED
    BY <2>2, <2>3
<1>3. ASSUME NEW s \in Sessions, NoticeDisconnect(s) \/ FrameThreadEnds(s)
      PROVE  sess[r] \in Readable /\ NextChunk(r)' = NextChunk(r)
  <2>1. r # s
    <3>1. sess'[s] \in {"locking", "closed"}
      BY <1>1, <1>3, Zenon DEF NoticeDisconnect, FrameThreadEnds
    <3> QED
      BY <3>1 DEF Readable
  <2>2. sess'[r] = sess[r] /\ inbox'[r] = inbox[r] /\ position'[r] = position[r]
    BY <1>3, <2>1, Zenon DEF NoticeDisconnect, FrameThreadEnds, DeliveryTypes
  <2> QED
    BY <2>2, Zenon DEF NextChunk
<1>4. ASSUME NEW a \in Stoppers, StopUnsubscribe(a) PROVE sess[r] \in Readable /\ NextChunk(r)' = NextChunk(r)
  <2>1. UNCHANGED sess /\ inbox'[r] = inbox[r] /\ position'[r] \in {position[r], None}
    BY <1>4, Zenon DEF StopUnsubscribe, DeliveryTypes
  <2> QED
    BY <2>1, Zenon DEF NextChunk
<1> QED
  BY <1>2, <1>3, <1>4, Zenon

\* A step of one frame thread, of which no other has to know.
LEMMA FrameReach ==
    ASSUME ReachInv, NEW s \in Sessions, UNCHANGED <<conf, status, sess, position>>, Given \subseteq Given',
           \A r \in Sessions : r # s => UNCHANGED <<inbox[r], frame[r]>>,
           Asked # NoOffset /\ Unbroken =>
               (last_seen' # None => Reached(last_seen + 1)') /\ AtReached(s)' /\ NextReached(s)'
    PROVE  ReachInv'
<1> SUFFICES ASSUME Asked' # NoOffset, Unbroken'
             PROVE  (last_seen # None => Reached(last_seen + 1))' /\ \A r \in Sessions : AtReached(r)' /\ NextReached(r)'
  BY Zenon DEF ReachInv
<1>0. Asked # NoOffset /\ Unbroken
  BY Zenon DEF Asked, Unbroken
<1>1. ASSUME NEW n, Reached(n) PROVE Reached(n)'
  BY <1>1, ReachedKept, Zenon
<1>2. ASSUME NEW r \in Sessions, r # s PROVE AtReached(r)' /\ NextReached(r)'
  <2>0. AtReached(r) /\ NextReached(r) /\ frame'[r] = frame[r] /\ UNCHANGED NextChunk(r)
    BY <1>0, <1>2, Zenon DEF ReachInv, NextChunk
  <2>1. AtReached(r)'
    BY <1>1, <2>0, Zenon DEF AtReached
  <2>2. NextReached(r)'
    BY <1>1, <2>0, Zenon DEF NextReached, Adjacent, ChunkStart
  <2> QED
    BY <2>1, <2>2
<1> QED
  BY <1>0, <1>2, Zenon

\* After a message the next one is reached.
LEMMA ReachAdvances ==
    ASSUME DeliveryTypes, ChunkInv, NEW s \in Sessions, frame[s] # NoFrame, NextReached(s),
           frame' = [frame EXCEPT ![s] = AfterMessage(frame[s].offset)],
           UNCHANGED <<sess, inbox, position>>,
           NEW n, n = frame[s].offset + 1, Reached(n)'
    PROVE  AtReached(s)' /\ NextReached(s)'
<1> DEFINE o == frame[s].offset
<1>1. o \in Nat /\ frame'[s] = AfterMessage(o)
  BY DEF DeliveryTypes, Frames
<1>2. \/ AfterMessage(o) = NoFrame
      \/ AfterMessage(o) = [step |-> "message", offset |-> o + 1, store |-> FALSE] /\ AfterMessage(o) # NoFrame
  BY <1>1 DEF AfterMessage, NoFrame
<1>3. AtReached(s)'
  <2>1. frame'[s].step \in {"none", "message"} /\ (frame'[s].step = "message" => frame'[s].offset = n)
    BY <1>1, <1>2 DEF NoFrame
  <2> QED
    BY <2>1, Zenon DEF AtReached
<1>4. ASSUME sess'[s] \in Readable, NextChunk(s)' # None
      PROVE  IF frame'[s] = NoFrame THEN Reached(NextChunk(s))' ELSE Adjacent(frame'[s].offset, NextChunk(s)')
  <2>1. sess[s] \in Readable /\ NextChunk(s)' = NextChunk(s)
    BY <1>4, Zenon DEF NextChunk
  <2>2. NextChunk(s) \in Nat /\ ChunkStart(NextChunk(s))
    BY <1>4, <2>1, NextChunkStarts, Zenon
  <2>3. Adjacent(o, NextChunk(s))
    BY <1>4, <2>1, Zenon DEF NextReached
  <2>4. CASE AfterMessage(o) = NoFrame
    <3>1. NextChunk(s) = o + 1
      BY <1>1, <2>2, <2>3, <2>4, MessageDone, Zenon
    <3>2. Reached(NextChunk(s))'
      BY <2>1, <3>1, Zenon
    <3> QED
      BY <1>1, <2>4, <3>2, Zenon
  <2>5. CASE AfterMessage(o) # NoFrame
    <3>1. AfterMessage(o) = [step |-> "message", offset |-> o + 1, store |-> FALSE] /\ Adjacent(o + 1, NextChunk(s))
      BY <1>1, <2>2, <2>3, <2>5, MessageDone, Zenon
    <3>2. frame'[s].offset = o + 1
      BY <1>1, <3>1
    <3> QED
      BY <1>1, <2>1, <2>5, <3>1, <3>2, Zenon
  <2> QED
    BY <2>4, <2>5
<1>5. NextReached(s)'
  BY <1>4, Zenon DEF NextReached, Adjacent, ChunkStart
<1> QED
  BY <1>3, <1>5

\* handle_deliver
LEMMA ChunkReach ==
    ASSUME DeliveryTypes, SequenceInv, ReachInv, NEW s \in Sessions, handle_deliver(s)
    PROVE  ReachInv'
<1> DEFINE c == inbox[s][1]
<1>0. UNCHANGED <<conf, status, last_seen, handled, sess, position>>
  BY Zenon DEF handle_deliver
<1>1. /\ sess[s] \in Readable /\ frame[s] = NoFrame
      /\ frame'[s] = [step |-> "message", offset |-> c, store |-> FALSE] /\ frame'[s] # NoFrame
      /\ \A r \in Sessions : r # s => frame'[r] = frame[r] /\ inbox'[r] = inbox[r]
      /\ c \in Nat /\ c # None /\ ChunkStart(c) /\ NextChunk(s) = c /\ NextChunk(s)' \in {c + ChunkSize, None}
  BY ChunkTaken, Zenon DEF SequenceInv
<1>2. frame'[s].step = "message" /\ frame'[s].offset = c
  BY <1>1
<1>3. Given \subseteq Given'
  <2>1. frame[s].step # "call" /\ handled \subseteq handled'
    BY <1>0, <1>1 DEF NoFrame
  <2>2. PICK f : frame' = [frame EXCEPT ![s] = f]
    BY Zenon DEF handle_deliver
  <2> QED
    BY <2>1, <2>2, GivenGrows, Zenon DEF DeliveryTypes
<1>4. ASSUME Asked # NoOffset, Unbroken
      PROVE  (last_seen' # None => Reached(last_seen + 1)') /\ AtReached(s)' /\ NextReached(s)'
  <2>1. ASSUME NEW n, Reached(n) PROVE Reached(n)'
    BY <1>0, <1>3, <2>1, ReachedKept, Zenon
  <2>2. last_seen' # None => Reached(last_seen + 1)'
    BY <1>0, <1>4, <2>1, Zenon DEF ReachInv
  <2>3. Reached(c)
    BY <1>1, <1>4, Zenon DEF ReachInv, NextReached
  <2>4. AtReached(s)'
    <3>1. Reached(frame[s].offset)'
      BY <1>2, <2>1, <2>3, Zenon
    <3> QED
      BY <1>2, <3>1 DEF AtReached
  <2>5. Adjacent(c, c + ChunkSize)
    BY <1>1, ChunkFollows, Zenon
  <2>6. NextReached(s)'
    BY <1>1, <1>2, <2>5, Zenon DEF NextReached, Adjacent, ChunkStart
  <2> QED
    BY <2>2, <2>4, <2>6
<1> QED
  BY <1>0, <1>1, <1>3, <1>4, FrameReach, Zenon

\* handle_message up to the handler: a message that is skipped was given
\* before, or comes before the one asked for.
LEMMA MessageReach ==
    ASSUME DeliveryTypes, Discipline, SequenceInv, ReachInv, NEW s \in Sessions, HandleMessage(s)
    PROVE  ReachInv'
<1> DEFINE o == frame[s].offset
<1>0. /\ UNCHANGED <<conf, status, handled, sess, position, inbox>> /\ frame[s].step = "message"
      /\ \A r \in Sessions : r # s => frame'[r] = frame[r]
  BY Zenon DEF HandleMessage, DeliveryTypes
<1>1. frame[s] # NoFrame /\ ~Unused(s) /\ frame[s].step # "call" /\ handled \subseteq handled'
  BY <1>0 DEF Unused, NoFrame
<1>2. o \in Nat /\ frame \in [Sessions -> Frames]
  <2>1. frame \in [Sessions -> Frames]
    BY Zenon DEF DeliveryTypes
  <2> QED
    BY <2>1 DEF Frames
<1>3. Asked \in Nat \cup {NoOffset}
  BY AskedType, Zenon DEF DeliveryTypes
<1>4. CASE Skipped(o)
  <2>1. UNCHANGED last_seen /\ frame' = [frame EXCEPT ![s] = AfterMessage(frame[s].offset)]
    BY <1>4, Zenon DEF HandleMessage
  <2>2. Given \subseteq Given'
    BY <1>1, <1>2, <2>1, GivenGrows, Zenon
  <2>3. ASSUME Asked # NoOffset, Unbroken
        PROVE  (last_seen' # None => Reached(last_seen + 1)') /\ AtReached(s)' /\ NextReached(s)'
    <3>1. ASSUME NEW n, Reached(n) PROVE Reached(n)'
      BY <1>0, <2>2, <3>1, ReachedKept, Zenon
    <3>2. (last_seen # None => Reached(last_seen + 1)) /\ NextReached(s)
      BY <2>3, Zenon DEF ReachInv
    <3>3. initial_offset > o /\ initial_offset \in Nat \cup {None, NoOffset} /\ last_seen \in Nat \cup {None}
      BY <1>4, Zenon DEF Skipped, DeliveryTypes
    <3>4. initial_offset \in Nat /\ o + 1 <= initial_offset /\ initial_offset # None /\ o + 1 \in Int
      BY <1>2, <3>3 DEF None, NoOffset
    <3>5. Asked \in Int
      BY <1>3, <2>3
    <3>6. Reached(o + 1)
      <4>1. CASE last_seen = None
        <5>1. initial_offset = Asked
          BY <1>1, <4>1, AskedFor, Zenon DEF SequenceInv
        <5> QED
          BY <3>4, <3>5, <5>1, ReachedAtFirst, Zenon
      <4>2. CASE last_seen # None
        <5>1. initial_offset = last_seen + 1
          BY <3>4, <4>2, Zenon DEF SequenceInv, InitialInv
        <5>2. initial_offset \in Int /\ Reached(initial_offset)
          BY <3>2, <3>4, <4>2, <5>1
        <5> QED
          BY <3>4, <3>5, <5>2, ReachedBefore, Zenon
      <4> QED
        BY <4>1, <4>2
    <3>7. PICK n : n = o + 1 /\ Reached(n)'
      BY <3>1, <3>6, Zenon
    <3>8. AtReached(s)' /\ NextReached(s)'
      BY <1>0, <1>1, <2>1, <3>2, <3>7, ReachAdvances, Zenon DEF SequenceInv
    <3> QED
      BY <2>1, <3>1, <3>2, <3>8, Zenon
  <2> QED
    BY <1>0, <2>2, <2>3, FrameReach, Zenon
<1>5. CASE ~Skipped(o)
  <2>1. last_seen' = o /\ frame' = [frame EXCEPT ![s] = [step |-> "call", offset |-> o, store |-> Frequent(since_persist + 1)]]
    BY <1>5, Zenon DEF HandleMessage
  <2>2. PICK f : frame' = [frame EXCEPT ![s] = f] /\ f.step = "call" /\ f.offset = o /\ f # NoFrame
    <3> DEFINE g == [step |-> "call", offset |-> o, store |-> Frequent(since_persist + 1)]
    <3>1. g.step = "call" /\ g.offset = o
      OBVIOUS
    <3>2. NoFrame.step # "call"
      BY DEF NoFrame
    <3>3. frame' = [frame EXCEPT ![s] = g]
      BY <2>1, Zenon
    <3> HIDE DEF g
    <3> QED
      BY <3>1, <3>2, <3>3, Zenon
  <2>3. frame'[s] = f
    BY <1>2, <2>2, Zenon
  <2>4. Given \subseteq Given' /\ o \in Given'
    BY <1>1, <1>2, <2>2, GivenGrows, Zenon
  <2>5. ASSUME Asked # NoOffset, Unbroken
        PROVE  (last_seen' # None => Reached(last_seen + 1)') /\ AtReached(s)' /\ NextReached(s)'
    <3>1. Reached(o) /\ NextReached(s)
      BY <1>0, <2>5, Zenon DEF ReachInv, AtReached
    <3>2. Asked \in Int
      BY <1>3, <2>5
    <3>3. PICK n \in Nat : n = o
      BY <1>2
    <3>4. Reached(n + 1)'
      BY <1>0, <2>4, <3>1, <3>2, <3>3, ReachedNext, Zenon
    <3>5. last_seen' # None => Reached(last_seen + 1)'
      BY <2>1, <3>3, <3>4, Zenon
    <3>6. AtReached(s)'
      <4>1. frame'[s].step # "message" /\ frame'[s].offset = n
        BY <2>2, <2>3, <3>3
      <4> QED
        BY <3>4, <4>1, Zenon DEF AtReached
    <3>7. NextReached(s)'
      BY <1>0, <1>1, <2>2, <2>3, <3>1, Zenon DEF NextReached, NextChunk, Adjacent, ChunkStart
    <3> QED
      BY <3>5, <3>6, <3>7
  <2> QED
    BY <1>0, <2>4, <2>5, FrameReach, Zenon
<1> QED
  BY <1>4, <1>5

\* handle_message from the handler on.
LEMMA HandlerReach ==
    ASSUME DeliveryTypes, Discipline, SequenceInv, ReachInv, NEW s \in Sessions,
           CallHandler(s) \/ Handler(s) \/ StoreByCount(s)
    PROVE  ReachInv'
<1> DEFINE o == frame[s].offset
<1>0. /\ UNCHANGED <<conf, last_seen, status, sess, position, inbox>>
      /\ frame[s].step \in {"call", "handler", "store"} /\ handled \subseteq handled'
      /\ frame[s].step = "call" => frame[s].offset \in handled'
      /\ \A r \in Sessions : r # s => frame'[r] = frame[r]
  BY Zenon DEF CallHandler, Handler, HandlerReturns, store_offset, grant_credit, HandlerThrows, StoreByCount, DeliveryTypes
<1>1. frame[s] # NoFrame
  BY <1>0 DEF NoFrame
<1>2. o \in Nat /\ frame[s] \in Frames /\ frame \in [Sessions -> Frames]
  <2>1. frame[s] \in Frames /\ frame \in [Sessions -> Frames]
    BY Zenon DEF DeliveryTypes
  <2> QED
    BY <2>1 DEF Frames
<1>3. \/ frame' = [frame EXCEPT ![s] = AfterMessage(frame[s].offset)]
      \/ \E n \in {"handler", "store"} : frame' = [frame EXCEPT ![s] = [frame[s] EXCEPT !.step = n]]
      \/ frame' = [frame EXCEPT ![s] = NoFrame] /\ status # "Started" /\ (~conf.auto_cursor \/ LastOfChunk(o))
  BY Zenon DEF CallHandler, Handler, HandlerReturns, store_offset, grant_credit, HandlerThrows, StoreByCount, AfterHandler
<1>4. Given \subseteq Given'
  <2>1. PICK f : frame' = [frame EXCEPT ![s] = f]
    BY <1>3, Zenon
  <2> QED
    BY <1>0, <1>2, <2>1, GivenGrows, Zenon
<1>5. ASSUME Asked # NoOffset, Unbroken
      PROVE  (last_seen' # None => Reached(last_seen + 1)') /\ AtReached(s)' /\ NextReached(s)'
  <2>0. ASSUME NEW n, Reached(n) PROVE Reached(n)'
    BY <1>0, <1>4, <2>0, ReachedKept, Zenon
  <2>1. Reached(o + 1) /\ NextReached(s)
    BY <1>0, <1>5, Zenon DEF ReachInv, AtReached
  <2>2. last_seen' # None => Reached(last_seen + 1)'
    BY <1>0, <1>5, <2>0, Zenon DEF ReachInv
  <2>3. CASE frame' = [frame EXCEPT ![s] = AfterMessage(frame[s].offset)]
    <3>1. PICK n : n = o + 1 /\ Reached(n)'
      BY <2>0, <2>1, Zenon
    <3> QED
      BY <1>0, <1>1, <2>1, <2>2, <2>3, <3>1, ReachAdvances, Zenon DEF SequenceInv
  <2>4. ASSUME NEW n \in {"handler", "store"}, frame' = [frame EXCEPT ![s] = [frame[s] EXCEPT !.step = n]]
        PROVE  AtReached(s)' /\ NextReached(s)'
    <3>1. frame'[s].step # "message" /\ frame'[s].offset = o /\ frame'[s] # NoFrame
      <4>1. frame'[s] = [frame[s] EXCEPT !.step = n]
        BY <1>2, <2>4, ZenonT(60)
      <4> QED
        BY <1>2, <2>4, <4>1 DEF Frames, NoFrame
    <3>2. AtReached(s)'
      BY <2>0, <2>1, <3>1, Zenon DEF AtReached
    <3>3. NextReached(s)'
      BY <1>0, <1>1, <2>1, <3>1, Zenon DEF NextReached, NextChunk, Adjacent, ChunkStart
    <3> QED
      BY <3>2, <3>3
  <2>5. CASE frame' = [frame EXCEPT ![s] = NoFrame] /\ status # "Started" /\ (~conf.auto_cursor \/ LastOfChunk(o))
    <3>1. status = "Stopped"
      BY <1>0, <2>5, Zenon DEF SequenceInv, BegunInv
    <3>2. AfterMessage(o) = NoFrame
      BY <1>5, <2>5, <3>1, Zenon DEF Unbroken, AfterMessage
    <3> QED
      BY <2>3, <2>5, <3>2, Zenon
  <2> QED
    BY <1>3, <2>2, <2>3, <2>4, <2>5, Zenon
<1> QED
  BY <1>0, <1>4, <1>5, FrameReach, Zenon

\* start() subscribes not after the offset that is asked for.
LEMMA SubscribeReach ==
    ASSUME DeliveryTypes, DeliveryTypes', Discipline, SequenceInv, SequenceInv', StartSubscribe
    PROVE  ReachInv'
<1> SUFFICES ASSUME Asked' # NoOffset
             PROVE  (last_seen # None => Reached(last_seen + 1))' /\ \A s \in Sessions : AtReached(s)' /\ NextReached(s)'
  BY Zenon DEF ReachInv
<1>0. /\ UNCHANGED <<conf, last_seen, inbox, frame>> /\ starting = "subscribe"
  BY Zenon DEF StartSubscribe
<1>1. last_seen' = None /\ \A s \in Sessions : position[s] = None /\ inbox'[s] = <<>> /\ frame'[s] = NoFrame
  BY <1>0 DEF Discipline, Starting, AllUnused, Unused
<1>2. Asked' \in Int /\ Asked' \in Nat
  <2>1. Asked' \in Nat \cup {NoOffset}
    BY <1>0, AskedType, Zenon DEF DeliveryTypes, Asked
  <2> QED
    BY <2>1
<1>3. ASSUME NEW s \in Sessions PROVE AtReached(s)'
  <2>1. NoFrame.step \notin {"message", "call", "handler", "store"}
    BY DEF NoFrame
  <2> QED
    BY <1>1, <2>1, Zenon DEF AtReached
<1>4. ASSUME NEW s \in Sessions, NextChunk(s)' # None PROVE Reached(NextChunk(s))'
  <2>1. NextChunk(s)' = position'[s] /\ position'[s] # position[s]
    BY <1>1, <1>4, Zenon DEF NextChunk
  <2>2. starting' = "finish" /\ subscribe(1, initial_offset')
    BY <2>1, Zenon DEF StartSubscribe
  <2>3. initial_offset' = Asked'
    <3>1. ~AllUnused' /\ starting' \notin Starting /\ starting' # "failed"
      BY <1>4, <2>1, <2>2 DEF AllUnused, Unused, Starting
    <3> QED
      BY <1>1, <3>1, Zenon DEF SequenceInv, InitialInv
  <2>4. PICK c \in FirstChunk(initial_offset') : position' = [position EXCEPT ![1] = c]
    BY <2>2, Zenon DEF subscribe
  <2>5. c \in Nat /\ c <= Asked'
    <3>1. initial_offset' \in Nat \cup {NoOffset} /\ initial_offset' # NoOffset
      BY <1>2, <2>3
    <3> QED
      BY <2>3, <2>4, <3>1, FirstChunkStarts, Zenon DEF DeliveryTypes
  <2>6. position'[s] = c
    BY <2>1, <2>4, Zenon DEF DeliveryTypes
  <2>7. c \in Int
    BY <2>5
  <2>8. \A n \in Int : n <= Asked' => Reached(n)'
    <3>1. \A n \in Int : n <= Asked' => Asked' .. n - 1 = {}
      BY <1>2
    <3> QED
      BY <3>1, Zenon DEF Reached
  <2> QED
    BY <2>1, <2>5, <2>6, <2>7, <2>8, Zenon
<1>5. ASSUME NEW s \in Sessions PROVE NextReached(s)'
  BY <1>1, <1>4, Zenon DEF NextReached
<1> QED
  BY <1>1, <1>3, <1>5, Zenon

\* A recovery subscribes not after the message that follows the last one.
LEMMA RecoveryReach ==
    ASSUME DeliveryTypes, Discipline, SequenceInv, ReachInv, ReconnectSubscribe, status = "Started"
    PROVE  ReachInv'
<1> DEFINE s == taken["Reconnect"]
<1>0. /\ UNCHANGED <<conf, status, starting, last_seen, inbox, frame, handled, sess>>
      /\ run["Reconnect"] # "idle" /\ initial_offset' = ResumeOffset /\ subscribe(s, initial_offset')
  BY Zenon DEF ReconnectSubscribe
<1> SUFFICES ASSUME Asked # NoOffset, Unbroken
             PROVE  (last_seen' # None => Reached(last_seen + 1)') /\ \A r \in Sessions : AtReached(r)' /\ NextReached(r)'
  BY <1>0, Zenon DEF ReachInv, Asked, Unbroken
<1>1. ASSUME NEW n, Reached(n) PROVE Reached(n)'
  BY <1>0, <1>1, GivenSame, ReachedKept, Zenon
<1>2. (last_seen # None => Reached(last_seen + 1)) /\ \A r \in Sessions : AtReached(r) /\ NextReached(r)
  BY Zenon DEF ReachInv
<1>3. last_seen' # None => Reached(last_seen + 1)'
  BY <1>0, <1>1, <1>2, Zenon
<1>4. /\ initial_offset' \in Nat \cup {NoOffset}
      /\ last_seen = None => initial_offset' = Asked
      /\ last_seen # None => initial_offset' = last_seen + 1
  BY <1>0, ResumeDue, Zenon DEF SequenceInv
<1>5. PICK c \in FirstChunk(initial_offset') : position' = [position EXCEPT ![s] = c]
  BY <1>0, Zenon DEF subscribe
<1>6. c \in Nat /\ (initial_offset' # NoOffset => c <= initial_offset')
  BY <1>4, <1>5, FirstChunkStarts, Zenon DEF DeliveryTypes
<1>7. Asked \in Int
  <2>1. Asked \in Nat \cup {NoOffset}
    BY AskedType, Zenon DEF DeliveryTypes
  <2> QED
    BY <2>1
<1>8. Reached(c)
  <2>0. c \in Int /\ initial_offset' \in Int
    BY <1>4, <1>6 DEF NoOffset
  <2>1. CASE last_seen = None
    BY <1>4, <1>6, <1>7, <2>0, <2>1, ReachedAtFirst, Zenon
  <2>2. CASE last_seen # None
    <3>1. c <= last_seen + 1 /\ last_seen + 1 \in Int
      BY <1>4, <1>6, <2>2 DEF DeliveryTypes, NoOffset
    <3> QED
      BY <1>2, <1>7, <2>0, <2>2, <3>1, ReachedBefore, Zenon
  <2> QED
    BY <2>1, <2>2
<1>9. ASSUME NEW r \in Sessions PROVE AtReached(r)' /\ NextReached(r)'
  <2>1. AtReached(r)'
    BY <1>0, <1>1, <1>2, Zenon DEF AtReached
  <2>2. CASE r = s
    <3>1. frame'[r] = NoFrame /\ NextChunk(r)' = c
      BY <1>0, <1>5, <2>2, Zenon DEF SequenceInv, UnusedInv, Unused, NextChunk, DeliveryTypes
    <3> QED
      BY <1>1, <1>8, <2>1, <3>1, Zenon DEF NextReached
  <2>3. CASE r # s
    <3>1. UNCHANGED NextChunk(r)
      BY <1>0, <1>5, <2>3, Zenon DEF NextChunk, DeliveryTypes
    <3>2. NextReached(r)'
      BY <1>0, <1>1, <1>2, <3>1, Zenon DEF NextReached, Adjacent, ChunkStart
    <3> QED
      BY <2>1, <3>2
  <2> QED
    BY <2>2, <2>3
<1> QED
  BY <1>3, <1>9, Zenon

\* Whatever the threads do, nothing is left out on the way.
LEMMA StepReach ==
    ASSUME DeliveryTypes, DeliveryTypes', Discipline, SequenceInv, SequenceInv', ReachInv, [Next]_vars
    PROVE  ReachInv'
<1>1. CASE Start
  BY <1>1, QuietReach, SubscribeReach, Zenon DEF Start
<1>2. CASE StopCall \/ DeletedBegin \/ store_current_offset \/ (\E t \in Tasks : TimerExpires(t)) \/ UNCHANGED vars
  BY <1>2, QuietReach, Zenon
<1>3. CASE DelayedTask \/ ReconnectTask
  BY <1>3, QuietReach, RecoveryReach, Zenon DEF ReconnectTask
<1>4. ASSUME NEW a \in Stoppers, Stop(a) PROVE ReachInv'
  BY <1>4, QuietReach, ReadReach, Zenon DEF Stop
<1>5. ASSUME NEW s \in Sessions, FrameThread(s) PROVE ReachInv'
  BY <1>5, ChunkReach, MessageReach, HandlerReach, ReadReach, QuietReach, Zenon DEF FrameThread
<1>6. ASSUME NEW s \in Sessions, Broker(s) \/ handle_metadata_update(s) \/ Disconnect(s) \/ HeartbeatTimeout(s)
      PROVE  ReachInv'
  BY <1>6, QuietReach, ReadReach, Zenon DEF Broker
<1> QED
  BY <1>1, <1>2, <1>3, <1>4, <1>5, <1>6, Zenon DEF Next

\* What is kept or sent for storing, one by one, before and after a step.
LEMMA PersistedIs ==
    ASSUME NEW x
    PROVE  /\ x \in Persisted <=> x = stored \/ \E s \in Sessions : \E i \in DOMAIN wire[s] : x = wire[s][i]
           /\ x \in Persisted' <=> x = stored' \/ \E s \in Sessions : \E i \in DOMAIN wire'[s] : x = wire'[s][i]
<1> DEFINE Sent(s)  == {wire[s][i] : i \in DOMAIN wire[s]}
           After(s) == {wire'[s][i] : i \in DOMAIN wire'[s]}
<1>1. Persisted = {stored} \cup UNION {Sent(s) : s \in Sessions} /\ Persisted' = {stored'} \cup UNION {After(s) : s \in Sessions}
  BY DEF Persisted
<1>2. \A s : x \in Sent(s) <=> \E i \in DOMAIN wire[s] : x = wire[s][i]
  OBVIOUS
<1>3. \A s : x \in After(s) <=> \E i \in DOMAIN wire'[s] : x = wire'[s][i]
  OBVIOUS
<1> HIDE DEF Sent, After
<1>4. x \in UNION {Sent(s) : s \in Sessions} <=> \E s \in Sessions : x \in Sent(s)
  OBVIOUS
<1>5. x \in UNION {After(s) : s \in Sessions} <=> \E s \in Sessions : x \in After(s)
  OBVIOUS
<1>6. x \in Persisted <=> x = stored \/ \E s \in Sessions : x \in Sent(s)
  BY <1>1, <1>4
<1>7. x \in Persisted' <=> x = stored' \/ \E s \in Sessions : x \in After(s)
  BY <1>1, <1>5
<1> QED
  BY <1>2, <1>3, <1>6, <1>7, Zenon

\* A session gives less to be stored than before.
LEMMA PersistedLess ==
    ASSUME stored' \in Persisted,
           \A s \in Sessions : \A i \in DOMAIN wire'[s] : \E j \in DOMAIN wire[s] : wire'[s][i] = wire[s][j]
    PROVE  Persisted' \subseteq Persisted
<1> SUFFICES ASSUME NEW x, x \in Persisted' PROVE x \in Persisted
  OBVIOUS
<1>1. x = stored' \/ \E s \in Sessions : \E i \in DOMAIN wire'[s] : x = wire'[s][i]
  BY PersistedIs
<1> QED
  BY <1>1, PersistedIs, Zenon

\* store_offset() of a client adds at most the offset it is given.
LEMMA PersistedMore ==
    ASSUME CursorTypes, NEW s, NEW o \in Nat, SendStore(s, o), UNCHANGED stored
    PROVE  Persisted' \subseteq Persisted \cup {o}
<1>0. wire \in [Sessions -> Seq(Nat)]
  BY Zenon DEF CursorTypes
<1>1. CASE wire' = wire
  BY <1>1, PersistedIs, Zenon
<1>2. CASE wire' = [wire EXCEPT ![s] = Append(@, o)]
  <2> SUFFICES ASSUME NEW x, x \in Persisted', x # o PROVE x \in Persisted
    OBVIOUS
  <2>1. x = stored \/ \E r \in Sessions : \E i \in DOMAIN wire'[r] : x = wire'[r][i]
    BY PersistedIs, Zenon
  <2>2. ASSUME NEW r \in Sessions, NEW i \in DOMAIN wire'[r], x = wire'[r][i] PROVE x \in Persisted
    <3>1. CASE r # s
      <4>1. wire'[r] = wire[r]
        BY <1>0, <1>2, <3>1, Zenon
      <4> QED
        BY <2>2, <4>1, PersistedIs, Zenon
    <3>2. CASE r = s
      <4>1. wire'[r] = Append(wire[r], o) /\ wire[r] \in Seq(Nat)
        BY <1>0, <1>2, <3>2, Zenon
      <4>2. i \in DOMAIN wire[r] /\ x = wire[r][i]
        BY <2>2, <4>1
      <4> QED
        BY <4>2, PersistedIs, Zenon
    <3> QED
      BY <3>1, <3>2
  <2> QED
    BY <2>1, <2>2, PersistedIs, Zenon
<1> QED
  BY <1>1, <1>2, Zenon DEF SendStore

\* What the consumer may store now: the message of a handler, by itself before
\* stop() or as a count of messages, or the last one seen.
Storable(o) ==
    \/ \E s \in Sessions : frame[s].step \in {"handler", "store"} /\ o = frame[s].offset /\ (status = "Started" \/ AutoCursor)
    \/ o = last_seen /\ last_seen # None /\ AutoCursor

\* A step sends one offset at most to be stored.
LEMMA StepPersisted ==
    ASSUME DeliveryTypes, CursorTypes, OptionalsAreSet, [Next]_vars
    PROVE  \/ Persisted' \subseteq Persisted
           \/ \E o : Storable(o) /\ Persisted' \subseteq Persisted \cup {o}
<1>1. ASSUME UNCHANGED <<wire, stored>> PROVE Persisted' \subseteq Persisted
  BY <1>1, PersistedIs, Zenon
<1>2. ASSUME NEW o \in Nat, internal_store_offset(o), UNCHANGED stored PROVE Persisted' \subseteq Persisted \cup {o}
  BY <1>1, <1>2, PersistedMore, Zenon DEF internal_store_offset
<1>3. ASSUME NEW s \in Sessions, store_offset(s) \/ StoreByCount(s)
      PROVE  Persisted' \subseteq Persisted \/ \E o : Storable(o) /\ Persisted' \subseteq Persisted \cup {o}
  <2>1. /\ frame[s].offset \in Nat /\ UNCHANGED stored /\ frame[s].step \in {"handler", "store"}
        /\ UNCHANGED wire \/ (internal_store_offset(frame[s].offset) /\ (status = "Started" \/ AutoCursor))
    BY <1>3, Zenon DEF store_offset, StoreByCount, Frequent, DeliveryTypes, Frames
  <2> QED
    BY <1>1, <1>2, <2>1, Zenon DEF Storable
<1>4. CASE store_current_offset
  <2>1. UNCHANGED stored /\ AutoCursor
    BY <1>4, Zenon DEF store_current_offset, Ready, Valid
  <2>2. CASE since_persist > 0
    <3>1. last_seen \in Nat /\ last_seen # None
      BY <2>2 DEF OptionalsAreSet, DeliveryTypes
    <3> QED
      BY <1>2, <1>4, <2>1, <2>2, <3>1, Zenon DEF store_current_offset, Storable
  <2>3. CASE ~(since_persist > 0)
    BY <1>1, <1>4, <2>3, Zenon DEF store_current_offset
  <2> QED
    BY <2>2, <2>3
<1>5. ASSUME NEW a \in Stoppers, StopStore(a)
      PROVE  Persisted' \subseteq Persisted \/ \E o : Storable(o) /\ Persisted' \subseteq Persisted \cup {o}
  <2>1. CASE AutoCursor /\ since_persist > 0 /\ SendStore(taken["stop"], last_seen)
    <3>1. last_seen \in Nat /\ last_seen # None
      BY <2>1 DEF OptionalsAreSet, DeliveryTypes
    <3> QED
      BY <1>5, <2>1, <3>1, PersistedMore, Zenon DEF StopStore, Storable
  <2>2. CASE UNCHANGED wire
    BY <1>1, <1>5, <2>2, Zenon DEF StopStore
  <2> QED
    BY <1>5, <2>1, <2>2, Zenon DEF StopStore
<1>6. ASSUME NEW s \in Sessions, BrokerStores(s) \/ Disconnect(s) \/ HeartbeatTimeout(s) PROVE Persisted' \subseteq Persisted
  <2>1. wire \in [Sessions -> Seq(Nat)]
    BY Zenon DEF CursorTypes
  <2>2. CASE BrokerStores(s)
    <3>1. wire[s] \in Seq(Nat) /\ wire[s] # <<>> /\ stored' = Head(wire[s]) /\ wire' = [wire EXCEPT ![s] = Tail(@)]
      BY <2>1, <2>2, Zenon DEF BrokerStores
    <3>2. 1 \in DOMAIN wire[s] /\ Head(wire[s]) = wire[s][1]
      BY <3>1
    <3>3. \A i \in DOMAIN Tail(wire[s]) : i + 1 \in DOMAIN wire[s] /\ Tail(wire[s])[i] = wire[s][i + 1]
      BY <3>1
    <3>4. \A r \in Sessions : wire'[r] = IF r = s THEN Tail(wire[s]) ELSE wire[r]
      BY <2>1, <3>1, Zenon
    <3>5. stored' \in Persisted
      BY <3>1, <3>2, PersistedIs, Zenon
    <3>6. \A r \in Sessions : \A i \in DOMAIN wire'[r] : \E j \in DOMAIN wire[r] : wire'[r][i] = wire[r][j]
      BY <3>3, <3>4, Zenon
    <3> QED
      BY <3>5, <3>6, PersistedLess
  <2>3. CASE Disconnect(s) \/ HeartbeatTimeout(s)
    <3>1. wire' = [wire EXCEPT ![s] = <<>>] /\ UNCHANGED stored
      BY <2>3, Zenon DEF Disconnect, HeartbeatTimeout
    <3>2. \A r \in Sessions : wire'[r] = IF r = s THEN <<>> ELSE wire[r]
      BY <2>1, <3>1, Zenon
    <3>3. DOMAIN <<>> = {}
      OBVIOUS
    <3>4. \A r \in Sessions : \A i \in DOMAIN wire'[r] : \E j \in DOMAIN wire[r] : wire'[r][i] = wire[r][j]
      BY <3>2, <3>3, Zenon
    <3> QED
      BY <3>1, <3>4, PersistedIs, PersistedLess, Zenon
  <2> QED
    BY <1>6, <2>2, <2>3
<1>7. CASE Start \/ StopCall \/ DeletedBegin \/ (\E t \in Tasks : TimerExpires(t)) \/ UNCHANGED vars
  <2>1. UNCHANGED <<wire, stored>>
    BY <1>7, Zenon DEF Start, StartBegin, StartConnect, StartSubscribe, StartFinish, StopCall, DeletedBegin, TimerExpires, vars
  <2> QED
    BY <1>1, <2>1
<1>8. CASE DelayedTask \/ ReconnectTask
  <2>1. UNCHANGED <<wire, stored>>
    BY <1>8, Zenon DEF DelayedTask, DelayedBegin, DelayedEnd, ReconnectTask, ReconnectBegin, ReconnectConnect,
       ReconnectRefused, ReconnectSubscribe, ReconnectUnsubscribed, ReconnectEnd
  <2> QED
    BY <1>1, <2>1
<1>9. ASSUME NEW a \in Stoppers, StopDestroys(a) \/ StopExchange(a) \/ StopClient(a) \/ StopUnsubscribe(a) \/ StopJoined(a)
      PROVE  Persisted' \subseteq Persisted
  <2>1. UNCHANGED <<wire, stored>>
    BY <1>9, Zenon DEF StopDestroys, StopExchange, StopClient, StopUnsubscribe, StopJoined
  <2> QED
    BY <1>1, <2>1
<1>10. ASSUME NEW s \in Sessions,
              \/ handle_deliver(s) \/ HandleMessage(s) \/ CallHandler(s) \/ HandlerReturns(s) \/ grant_credit(s)
              \/ HandlerThrows(s) \/ NoticeDisconnect(s) \/ handle_shutdown(s) \/ ShutdownDropped(s) \/ FrameThreadEnds(s)
              \/ Deliver(s) \/ handle_metadata_update(s)
       PROVE  Persisted' \subseteq Persisted
  <2>1. UNCHANGED <<wire, stored>>
    BY <1>10, Zenon DEF handle_deliver, HandleMessage, CallHandler, HandlerReturns, grant_credit, HandlerThrows,
       NoticeDisconnect, handle_shutdown, ShutdownDropped, FrameThreadEnds, Deliver, handle_metadata_update
  <2> QED
    BY <1>1, <2>1
<1>11. ASSUME NEW s \in Sessions,
              FrameThread(s) \/ Broker(s) \/ handle_metadata_update(s) \/ Disconnect(s) \/ HeartbeatTimeout(s)
       PROVE  Persisted' \subseteq Persisted \/ \E o : Storable(o) /\ Persisted' \subseteq Persisted \cup {o}
  BY <1>3, <1>6, <1>10, <1>11, Zenon DEF FrameThread, Handler, Broker
<1>12. ASSUME NEW a \in Stoppers, Stop(a)
       PROVE  Persisted' \subseteq Persisted \/ \E o : Storable(o) /\ Persisted' \subseteq Persisted \cup {o}
  BY <1>5, <1>9, <1>12, Zenon DEF Stop
<1> QED
  BY <1>4, <1>7, <1>8, <1>11, <1>12, Zenon DEF Next

\* No step takes back what was given to the handler.
LEMMA StepGiven ==
    ASSUME DeliveryTypes, [Next]_vars
    PROVE  Given \subseteq Given' /\ UNCHANGED conf
<1>0. frame \in [Sessions -> Frames] /\ NoFrame.step = "none"
  BY DEF DeliveryTypes, NoFrame
<1>1. ASSUME UNCHANGED <<frame, handled>> PROVE Given \subseteq Given'
  BY <1>1, GivenSame, Zenon
<1>2. ASSUME NEW s \in Sessions, handle_deliver(s) \/ HandleMessage(s) \/ CallHandler(s) \/ Handler(s) \/ StoreByCount(s)
      PROVE  Given \subseteq Given' /\ UNCHANGED conf
  <2>1. PICK f : frame' = [frame EXCEPT ![s] = f]
    BY <1>2, Zenon DEF handle_deliver, HandleMessage, CallHandler, Handler, HandlerReturns, store_offset, grant_credit,
       HandlerThrows, StoreByCount
  <2>2. handled \subseteq handled' /\ (frame[s].step = "call" => frame[s].offset \in handled') /\ UNCHANGED conf
    <3>1. CASE CallHandler(s)
      BY <3>1, Zenon DEF CallHandler
    <3>2. CASE handle_deliver(s) \/ HandleMessage(s) \/ Handler(s) \/ StoreByCount(s)
      <4>1. UNCHANGED <<handled, conf>> /\ frame[s].step \in {"none", "message", "handler", "store"}
        BY <1>0, <3>2, Zenon DEF handle_deliver, HandleMessage, Handler, HandlerReturns, store_offset, grant_credit,
           HandlerThrows, StoreByCount
      <4> QED
        BY <4>1
    <3> QED
      BY <1>2, <3>1, <3>2
  <2> QED
    BY <1>0, <2>1, <2>2, GivenGrows, Zenon
<1>3. CASE UNCHANGED vars \/ Start \/ StopCall \/ DeletedBegin \/ store_current_offset \/ \E t \in Tasks : TimerExpires(t)
  <2>1. UNCHANGED <<frame, handled, conf>>
    BY <1>3, Zenon DEF vars, Start, StartBegin, StartConnect, StartSubscribe, StartFinish, StopCall, DeletedBegin,
       store_current_offset, TimerExpires
  <2> QED
    BY <1>1, <2>1
<1>4. CASE DelayedTask \/ ReconnectTask
  <2>1. UNCHANGED <<frame, handled, conf>>
    BY <1>4, Zenon DEF DelayedTask, DelayedBegin, DelayedEnd, ReconnectTask, ReconnectBegin, ReconnectConnect,
       ReconnectRefused, ReconnectSubscribe, ReconnectUnsubscribed, ReconnectEnd
  <2> QED
    BY <1>1, <2>1
<1>5. ASSUME NEW a \in Stoppers, Stop(a) PROVE Given \subseteq Given' /\ UNCHANGED conf
  <2>1. UNCHANGED <<frame, handled, conf>>
    BY <1>5, Zenon DEF Stop, StopDestroys, StopExchange, StopClient, StopUnsubscribe, StopStore, StopJoined
  <2> QED
    BY <1>1, <2>1
<1>6. ASSUME NEW r \in Sessions,
             \/ NoticeDisconnect(r) \/ handle_shutdown(r) \/ ShutdownDropped(r) \/ FrameThreadEnds(r)
             \/ Broker(r) \/ handle_metadata_update(r) \/ Disconnect(r) \/ HeartbeatTimeout(r)
      PROVE  Given \subseteq Given' /\ UNCHANGED conf
  <2>1. UNCHANGED <<frame, handled, conf>>
    BY <1>6, Zenon DEF NoticeDisconnect, handle_shutdown, ShutdownDropped, FrameThreadEnds, Broker, Deliver, BrokerStores,
       handle_metadata_update, Disconnect, HeartbeatTimeout
  <2> QED
    BY <1>1, <2>1
<1> QED
  BY <1>2, <1>3, <1>4, <1>5, <1>6, Zenon DEF Next, FrameThread

\* What the consumer may store has no gap below it.
LEMMA StorableReached ==
    ASSUME ReachInv, Asked # NoOffset, NEW o, Storable(o)
    PROVE  Reached(o + 1)
<1>1. status = "Started" \/ conf.auto_cursor => Unbroken
  BY DEF Unbroken
<1>2. Unbroken
  BY <1>1, Zenon DEF Storable, AutoCursor
<1> QED
  BY <1>2, Zenon DEF ReachInv, AtReached, Storable

\* The cursor is kept without gap by every step.
LEMMA StepGap ==
    ASSUME DeliveryTypes, DeliveryTypes', CursorTypes, OptionalsAreSet, Discipline, SequenceInv, SequenceInv', GapInv,
           [Next]_vars
    PROVE  GapInv'
<1>1. ReachInv'
  BY StepReach, Zenon DEF GapInv
<1>2. Given \subseteq Given' /\ UNCHANGED conf /\ UNCHANGED Asked
  BY StepGiven, Zenon DEF Asked
<1>3. ASSUME conf.named, Asked # NoOffset, NEW x \in Persisted' PROVE Reached(x + 1)'
  <2>1. x \in Persisted \/ Storable(x)
    BY StepPersisted, Zenon
  <2>2. Reached(x + 1)
    BY <1>3, <2>1, StorableReached, Zenon DEF GapInv, CursorInv
  <2> QED
    BY <1>2, <2>2, ReachedKept, Zenon
<1>4. CursorInv'
  BY <1>2, <1>3, Zenon DEF CursorInv
<1> QED
  BY <1>1, <1>4, Zenon DEF GapInv

\* Before start() nothing is given, and a stored offset comes before the one
\* that is asked for.
LEMMA InitGap == Init => GapInv
<1> SUFFICES ASSUME Init PROVE GapInv
  OBVIOUS
<1>1. /\ conf \in Configs /\ last_seen = None /\ stored = conf.stored /\ wire = [s \in Sessions |-> <<>>]
      /\ \A s \in Sessions : frame[s] = NoFrame /\ sess[s] = "none"
  BY Zenon DEF Init
<1>2. ReachInv
  <2>1. ASSUME NEW s \in Sessions PROVE AtReached(s) /\ NextReached(s)
    BY <1>1 DEF AtReached, NextReached, NoFrame, Readable
  <2> QED
    BY <1>1, <2>1, Zenon DEF ReachInv
<1>3. ASSUME conf.named, Asked # NoOffset, NEW x \in Persisted PROVE Reached(x + 1)
  <2>1. x = conf.stored
    <3>1. \A s \in Sessions : DOMAIN wire[s] = {}
      BY <1>1
    <3> QED
      BY <1>1, <3>1, PersistedIs, Zenon
  <2>2. conf.stored \in Nat \cup {None} /\ Asked \in Nat \cup {NoOffset}
    BY <1>1, AskedType, ConfigsAssumption
  <2>3. x + 1 \in Int /\ x + 1 <= Asked /\ Asked \in Int
    <3>1. conf.stored # None => Asked = conf.stored + 1
      BY <1>3, Zenon DEF Asked
    <3> QED
      BY <1>3, <2>1, <2>2, <3>1 DEF None
  <2> QED
    BY <2>3, ReachedAtFirst, Zenon
<1> QED
  BY <1>2, <1>3, Zenon DEF GapInv, CursorInv
=============================================================================
