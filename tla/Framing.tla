------------------------------ MODULE Framing -------------------------------
(***************************************************************************)
(* What travels between ClientImpl and the broker, byte by byte.           *)
(*                                                                         *)
(* Out: messages become publish frames (the size test of Accumulator::add, *)
(* the chunks of batch_size in which reconnect_to_server publishes again,  *)
(* the splitting loop of publish_encoded), every other call of the client  *)
(* becomes one frame, and send_frame tests the size and serialises.  In:   *)
(* the read chain of the connection cuts the stream into frames, which     *)
(* handle_frames looks up and decodes.  The limit of the accumulator is    *)
(* the one of the first connection, the limit of the client the one its    *)
(* own connection negotiated.                                              *)
(***************************************************************************)
EXTENDS Commands, TLC

CONSTANTS
    Bodies,                     \* body sizes of messages
    Requested,                  \* frame sizes the application may ask for, 0: none
    Limits,                     \* maximum frame sizes a broker may impose, 0: none
    MaxMsgs,                    \* bound on the messages published together
    BatchSize,                  \* m_batch_size
    Strings,                    \* lengths of names given to a call
    MaxReference,               \* MAX_REFERENCE_LENGTH, scaled like the strings
    Incoming                    \* what a broker may send: see ServerFrame

ASSUME FramingAssumption ==
    /\ Bodies \subseteq Nat /\ Requested \subseteq Nat /\ Limits \subseteq Nat /\ Strings \subseteq Nat
    /\ MaxMsgs \in Nat /\ BatchSize \in Nat \ {0} /\ MaxReference \in Nat

VARIABLES
    acc_limit, limit,           \* m_max_frame_size of the accumulator, of the client
    input,                      \* the messages, in the order of publication
    rest,                       \* not yet given to publish_encoded
    todo,                       \* encoded_messages still to be looped over
    batch, current_size,        \* message_batch, current_size
    call,                       \* the command of another call, if there is one
    net, received,              \* bytes on their way to the broker; frames it has read
    incoming, inbound, decoded, \* frames of the broker, their bytes, what was made of them
    outcome                     \* "running", "done", "thrown" by a call, "closed" by the broker

vars == <<acc_limit, limit, input, rest, todo, batch, current_size, call, net, received, incoming, inbound, decoded,
          outcome>>

publishVars == <<acc_limit, limit, input, rest, todo, batch, current_size>>

Content(n) == [i \in 1 .. n |-> i % Base]

\* The values of fields, as a reader gets them.
RECURSIVE Values(_)
Values(fields) ==
    [i \in DOMAIN fields |-> IF fields[i].kind # "array" THEN fields[i].value
                             ELSE [j \in DOMAIN fields[i].value |-> Values(fields[i].value[j])]]

BASE_SERIALIZED_SIZE == PublishCommand(0, <<>>).size
PrefixSize           == 4       \* sizeof(std::uint32_t)

-----------------------------------------------------------------------------
(* The calls of a client that send one command.                            *)

Invalid == [size |-> 0, fields |-> <<>>] \* the call throws before it sends

IfReference(s, command) == IF Len(s) > MaxReference THEN Invalid ELSE command

declare_publisher(p, ref, s)      == IfReference(ref, DeclarePublisherRequest(1, p, ref, s))
delete_publisher(p)               == DeletePublisherRequest(1, p)
query_publisher_sequence(ref, s)  == IfReference(ref, QueryPublisherSequenceRequest(1, ref, s))
store_offset(ref, s, o)           == IfReference(ref, StoreOffsetCommand(ref, s, o))
query_offset(ref, s)              == IfReference(ref, QueryOffsetRequest(1, ref, s))
create_stream(s, arguments)       == CreateRequest(1, s, arguments)
delete_stream(s)                  == DeleteRequest(1, s)
subscribe(id, s, spec, c, p)      == SubscribeRequest(1, id, s, spec, c, p)
unsubscribe(id)                   == UnsubscribeRequest(1, id)
credit(id, c)                     == CreditCommand(id, c)
metadata(streams)                 == MetadataRequest(1, streams)
peer_properties(p)                == PeerPropertiesRequest(1, p)
sasl_handshake                    == SaslHandshakeRequest(1)
authenticate(user, password)      == SaslAuthenticateRequest(1, Content(5), <<0>> \o user \o <<0>> \o password)
open(virtual_host)                == OpenRequest(1, virtual_host)
exchange_command_versions         == ExchangeCommandVersionsRequest(1, <<<<CommandKey.Deliver, 1, 2>>>>)
close(reason)                     == ClientCloseRequest(1, ResponseCode.Ok, reason)

Names      == {Content(n) : n \in Strings}
Pairs      == {<<>>} \cup {<<<<k, v>>>> : k \in Names, v \in Names}
Specs      == {[type |-> t, offset |-> UnsignedMax(8)] : t \in 1 .. 5}

Calls ==
    UNION {{declare_publisher(0, r, s), query_publisher_sequence(r, s), store_offset(r, s, UnsignedMax(8)),
            query_offset(r, s), authenticate(r, s)} : r \in Names, s \in Names}
    \cup UNION {{delete_stream(s), open(s), close(s), metadata(<<s>>), metadata(<<s, s>>)} : s \in Names}
    \cup UNION {{create_stream(Content(1), p), peer_properties(p)} : p \in Pairs}
    \cup {subscribe(0, Content(1), spec, 10, p) : spec \in Specs, p \in Pairs}
    \cup {delete_publisher(0), unsubscribe(0), credit(0, 1), sasl_handshake, exchange_command_versions, metadata(<<>>),
          ClientTuneCommand(limit, UnsignedMax(4)), ClientHeartbeatCommand, ClientCloseResponse(1, ResponseCode.Ok)}

\* What the protocol says the broker reads: after key and version ...
BrokerRequest ==
    (1 :> <<U(1), Text, Text>>) @@ (5 :> <<Text, Text>>) @@ (6 :> <<U(1)>>)
    @@ (7 :> <<U(1), Text, U(2), When({4, 5}, U(8)), U(2), List(<<Text, Text>>)>>)
    @@ (11 :> <<Text, Text>>) @@ (12 :> <<U(1)>>) @@ (13 :> <<Text, List(<<Text, Text>>)>>)
    @@ (14 :> <<Text>>) @@ (15 :> <<List(<<Text>>)>>) @@ (17 :> <<List(<<Text, Text>>)>>)
    @@ (18 :> <<>>) @@ (19 :> <<Text, Bytes>>) @@ (21 :> <<Text>>) @@ (22 :> <<U(2), Text>>)
    @@ (27 :> <<List(<<U(2), U(2), U(2)>>)>>) @@ (ResponseBit + 22 :> <<U(2)>>)

\* ... and after the correlation id, which these have not.
BrokerCommand ==
    (2 :> <<U(1), List(<<U(8), Bytes>>)>>) @@ (9 :> <<U(1), U(2)>>) @@ (10 :> <<Text, Text, U(8)>>)
    @@ (23 :> <<>>) @@ (ResponseBit + 20 :> <<U(4), U(4)>>)

BrokerLayout(key) ==
    IF key \in DOMAIN BrokerCommand THEN BrokerCommand[key] ELSE <<U(4)>> \o BrokerRequest[key]

-----------------------------------------------------------------------------
\* handle_tune
negociate_value(client, server) ==
    IF client = 0 \/ server = 0
    THEN IF client > server THEN client ELSE server
    ELSE IF client < server THEN client ELSE server

\* Accumulator::add accepts a message of n bytes.
Accepted(n, l) == l > 0 => BASE_SERIALIZED_SIZE + MessageSize([body |-> Content(n)]) <= l

Numbered(q) == [i \in DOMAIN q |-> [id |-> i, body |-> Content(q[i])]]

\* A frame of the broker: key, version, the bytes of the body and the values in
\* it; cut bytes are missing at the end, or one follows if cut is -1.
Trimmed(q, cut) == IF cut < 0 THEN q \o <<0>> ELSE SubSeq(q, 1, Len(q) - cut)

Encoded(f) ==
    LET data == Digits(f.key, 2) \o Digits(f.version, 2) \o Trimmed(f.body, f.cut) IN Digits(Len(data), 4) \o data

ServerFrame(key, version, fields, cut) ==
    [key |-> key, version |-> version, body |-> WriteFields(reserve(0), fields).bytes, values |-> Values(fields),
     cut |-> cut]

Init ==
    /\ \E r \in Requested, l1, l2 \in Limits : acc_limit = negociate_value(r, l1) /\ limit = negociate_value(r, l2)
    /\ \/ /\ input \in {Numbered(q) : q \in BoundedSeq({n \in Bodies : Accepted(n, acc_limit)}, MaxMsgs)}
          /\ call = <<>> /\ incoming = <<>>
       \/ input = <<>> /\ call \in {<<c>> : c \in Calls} /\ incoming = <<>> /\ acc_limit = limit
       \/ input = <<>> /\ call = <<>> /\ incoming \in Incoming /\ acc_limit = limit
    /\ rest = input /\ todo = <<>>
    /\ batch = <<>> /\ current_size = BASE_SERIALIZED_SIZE
    /\ net = <<>> /\ received = <<>>
    /\ inbound = FlattenSeq([i \in DOMAIN incoming |-> Encoded(incoming[i])]) /\ decoded = <<>>
    /\ outcome = "running"

-----------------------------------------------------------------------------
(* Out                                                                     *)

\* Faulty variant: the remainder that is shorter than a batch is dropped.
ChunkFull(q) == IF Len(q) >= BatchSize THEN SubSeq(q, 1, BatchSize) ELSE <<>>

\* What one call of publish_encoded gets: a full batch, or what is left.
ResendChunk(q) == SubSeq(q, 1, IF Len(q) < BatchSize THEN Len(q) ELSE BatchSize)

PublishEncoded ==
    /\ outcome = "running"
    /\ todo = <<>> /\ batch = <<>> /\ rest # <<>>
    /\ todo' = ResendChunk(rest)
    /\ rest' = SubSeq(rest, BatchSize + 1, Len(rest))
    /\ current_size' = BASE_SERIALIZED_SIZE
    /\ UNCHANGED <<acc_limit, limit, input, batch, call, net, received, incoming, inbound, decoded, outcome>>

\* The buffer that send_frame fills: length prefix, header and body.
Serialized(c) == WriteFields(write_int(reserve(c.size + PrefixSize), c.size, PrefixSize), c.fields)

\* send_frame counts the length prefix that the callers' tests leave out; the
\* buffer throws for what it cannot hold.
Refused(c) == c = Invalid \/ (limit > 0 /\ c.size + PrefixSize > limit) \/ Serialized(c).thrown

send_frame(c) ==
    IF Refused(c)
    THEN outcome' = "thrown" /\ UNCHANGED net
    ELSE net' = net \o Serialized(c).bytes /\ UNCHANGED outcome

\* Faulty variant: the test for room is off by one.
HasRoomTight(added) == limit = 0 \/ current_size + added <= limit + 1

HasRoom(added) == limit = 0 \/ current_size + added <= limit

\* One turn of the loop: the message fits into the batch ...
AddToBatch ==
    /\ outcome = "running" /\ todo # <<>>
    /\ HasRoom(MessageSize(Head(todo)))
    /\ batch' = Append(batch, Head(todo))
    /\ current_size' = current_size + MessageSize(Head(todo))
    /\ todo' = Tail(todo)
    /\ UNCHANGED <<acc_limit, limit, input, rest, call, net, received, incoming, inbound, decoded, outcome>>

\* ... or the batch leaves first, even an empty one.
SendAndAdd ==
    /\ outcome = "running" /\ todo # <<>>
    /\ ~HasRoom(MessageSize(Head(todo)))
    /\ send_frame(PublishCommand(0, batch))
    /\ IF Refused(PublishCommand(0, batch))
       THEN UNCHANGED <<batch, current_size, todo>>
       ELSE /\ batch' = <<Head(todo)>>
            /\ current_size' = BASE_SERIALIZED_SIZE + MessageSize(Head(todo))
            /\ todo' = Tail(todo)
    /\ UNCHANGED <<acc_limit, limit, input, rest, call, received, incoming, inbound, decoded>>

\* After the loop.
SendLast ==
    /\ outcome = "running" /\ todo = <<>> /\ batch # <<>>
    /\ send_frame(PublishCommand(0, batch))
    /\ batch' = IF Refused(PublishCommand(0, batch)) THEN batch ELSE <<>>
    /\ UNCHANGED <<acc_limit, limit, input, rest, todo, current_size, call, received, incoming, inbound, decoded>>

SendCall ==
    /\ outcome = "running" /\ call # <<>> /\ net = <<>>
    /\ send_frame(Head(call))
    /\ UNCHANGED <<publishVars, call, received, incoming, inbound, decoded>>

Done ==
    /\ outcome = "running" /\ rest = <<>> /\ todo = <<>> /\ batch = <<>> /\ inbound = <<>>
    /\ call # <<>> => net # <<>>
    /\ outcome' = "done"
    /\ UNCHANGED <<publishVars, call, net, received, incoming, inbound, decoded>>

\* The first frame of a stream of bytes, without its prefix.
FrameLength(q) == Unsigned(SubSeq(q, 1, PrefixSize))
FirstFrame(q)  == SubSeq(q, PrefixSize + 1, PrefixSize + FrameLength(q))
AfterFirst(q)  == SubSeq(q, PrefixSize + FrameLength(q) + 1, Len(q))
Complete(q)    == Len(q) >= PrefixSize /\ Len(q) >= PrefixSize + FrameLength(q)

\* The broker reads a frame, at its leisure.
BrokerReads ==
    /\ outcome \in {"done", "thrown"} /\ Complete(net)
    /\ LET header == ReadFields(Reader(FirstFrame(net)), <<U(2), U(2)>>)
       IN  received' = Append(received, ReadFields(header, BrokerLayout(header.got[1])))
    /\ net' = AfterFirst(net)
    /\ UNCHANGED <<publishVars, call, incoming, inbound, decoded, outcome>>

-----------------------------------------------------------------------------
(* In                                                                      *)

FRAME_HANDLERS ==
    [k \in {CommandKey[c] : c \in {"Subscribe", "Unsubscribe", "DeclarePublisher", "DeletePublisher", "Create",
                                   "Delete"}} \X {1} |-> GenericResponse]
    @@ (<<CommandKey.Open, 1>>                    :> OpenResponse)
    @@ (<<CommandKey.Metadata, 1>>                :> MetadataResponse)
    @@ (<<CommandKey.SaslHandshake, 1>>           :> SaslHandshakeResponse)
    @@ (<<CommandKey.SaslAuthenticate, 1>>        :> SaslAuthenticateResponse)
    @@ (<<CommandKey.PeerProperties, 1>>          :> PeerPropertiesResponse)
    @@ (<<CommandKey.QueryOffset, 1>>             :> QueryOffsetResponse)
    @@ (<<CommandKey.QueryPublisherSequence, 1>>  :> QueryPublisherSequenceResponse)
    @@ (<<CommandKey.ExchangeCommandVersions, 1>> :> ExchangeCommandVersionsResponse)
    @@ (<<CommandKey.Close, 1>>                   :> ServerCloseRequest)
    @@ (<<CommandKey.PublishConfirm, 1>>          :> PublishConfirmCommand)
    @@ (<<CommandKey.Deliver, 1>>                 :> DeliverCommand(1))
    @@ (<<CommandKey.Deliver, 2>>                 :> DeliverCommand(2))
    @@ (<<CommandKey.PublishError, 1>>            :> PublishErrorCommand)
    @@ (<<CommandKey.MetadataUpdate, 1>>          :> MetadataUpdateCommand)
    @@ (<<CommandKey.Tune, 1>>                    :> ServerTuneCommand)
    @@ (<<CommandKey.Credit, 1>>                  :> CreditErrorCommand)
    @@ (<<CommandKey.Heartbeat, 1>>               :> <<>>)

Dropped == [key |-> 0, values |-> <<>>] \* the exception is logged

\* handle_metadata_update throws for any other code.
Rejected(key, values) == key = CommandKey.MetadataUpdate /\ values[1] # ResponseCode.StreamNotAvailable

\* One turn of handle_frames while the client is not stopping.
handle_frame(frame) ==
    LET header  == ReadFields(Reader(frame), <<U(2), U(2)>>)
        key     == header.got[1] % ResponseBit
        handler == <<key, header.got[2]>>
        command == ReadFields([header EXCEPT !.got = <<>>], FRAME_HANDLERS[handler])
    IN  IF header.thrown \/ handler \notin DOMAIN FRAME_HANDLERS \/ command.thrown \/ Rejected(key, command.got)
        THEN Dropped
        ELSE [key |-> key, values |-> command.got]

ReadFrame ==
    /\ outcome = "running" /\ Complete(inbound)
    /\ LET made == handle_frame(FirstFrame(inbound))
       IN  /\ decoded' = Append(decoded, made)
           /\ outcome' = IF made.key = CommandKey.Close THEN "closed" ELSE outcome
    /\ inbound' = AfterFirst(inbound)
    /\ UNCHANGED <<publishVars, call, net, received, incoming>>

Next ==
    \/ PublishEncoded \/ AddToBatch \/ SendAndAdd \/ SendLast \/ SendCall \/ Done
    \/ BrokerReads \/ ReadFrame

Spec == Init /\ [][Next]_vars

-----------------------------------------------------------------------------
(* Properties                                                              *)

Finished == outcome # "running" /\ ~Complete(net)

Published(r) == IF r.thrown THEN <<>> ELSE [i \in DOMAIN r.got[4] |-> [id |-> r.got[4][i][1], body |-> r.got[4][i][2]]]

\* The messages the broker reads from the bytes, the batch and what is still to
\* come are the input: chunking, splitting and serialising lose, repeat and
\* reorder nothing, also when send_frame throws half way.
NothingLostOrReordered ==
    Finished /\ call = <<>> =>
        FlattenSeq([i \in DOMAIN received |-> Published(received[i])]) \o batch \o todo \o rest = input

\* The client's limit is at least the one the messages were accepted under.
LimitNotLowered == limit = 0 \/ (acc_limit > 0 /\ limit >= acc_limit)

\* Unless the limit was lowered by a reconnection, a publish frame that
\* send_frame refuses exceeds the limit by its length prefix only: it is the one
\* part of the frame that Accumulator::add and publish_encoded do not count.
RefusedOnlyForPrefix ==
    outcome = "thrown" /\ call = <<>> /\ LimitNotLowered =>
        PublishCommand(0, batch).size \in limit - PrefixSize + 1 .. limit

TooLong(f) == f.kind = "string" /\ Len(f.value) > SignedMax(2)

\* A call throws only for a name that is too long or a frame over the limit;
\* otherwise body_size() and write_body() agree, so that the broker finds one
\* frame in the stream, reads from it exactly what the call was given, and
\* nothing is left.
BrokerReadsCall ==
    Finished /\ call # <<>> =>
        LET c == Head(call) IN
        IF outcome = "thrown"
        THEN c = Invalid \/ (limit > 0 /\ c.size + PrefixSize > limit)
             \/ \E i \in DOMAIN c.fields :
                   \/ TooLong(c.fields[i])
                   \/ c.fields[i].kind = "array" /\ \E j \in DOMAIN c.fields[i].value :
                         \E k \in DOMAIN c.fields[i].value[j] : TooLong(c.fields[i].value[j][k])
        ELSE /\ net = <<>> /\ Len(received) = 1
             /\ received[1].got = Values(c.fields) /\ received[1].read = Len(received[1].bytes)

\* Every frame of the broker is decoded to the values it was made of, or dropped
\* as a whole because it ends early, has no handler or is rejected; one that is dropped does
\* not disturb the next.
DecodedWholeOrDropped ==
    \A i \in DOMAIN decoded :
        LET f == incoming[i] IN
        decoded[i] = IF \/ f.cut > 0 \/ <<f.key % ResponseBit, f.version>> \notin DOMAIN FRAME_HANDLERS
                        \/ Rejected(f.key, f.values)
                     THEN Dropped
                     ELSE [key |-> f.key % ResponseBit, values |-> f.values]
=============================================================================
