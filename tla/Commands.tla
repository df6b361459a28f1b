------------------------------ MODULE Commands ------------------------------
(***************************************************************************)
(* The commands of the protocol.  A client command is its header, the size *)
(* body_size() computes and the fields write_body() writes, in order; a    *)
(* server command is the list of the fields read_body() reads.             *)
(***************************************************************************)
EXTENDS BinaryBuffer

\* Fields with their values, as write_body() writes them.
Number(v, w) == [kind |-> "unsigned", width |-> w, value |-> v]
Byte(v)     == Number(v, 1)
UShort(v)   == Number(v, 2)
UInt(v)     == Number(v, 4)
ULong(v)    == Number(v, 8)
String(s)   == [kind |-> "string", value |-> s]
Blob(s)     == [kind |-> "blob", value |-> s]
Array(rows) == [kind |-> "array", value |-> rows]

\* Fields without, as read_body() reads them.
U(w)       == [kind |-> "unsigned", width |-> w]
S(w)       == [kind |-> "signed", width |-> w]
Text       == [kind |-> "string"]
Bytes      == [kind |-> "blob"]
List(row)  == [kind |-> "array", row |-> row]
When(c, f) == [kind |-> "when", codes |-> c, field |-> f] \* if the code before is in c
Entries    == [kind |-> "entries"]
Entry      == [kind |-> "entry"]

CommandKey ==
    [DeclarePublisher |-> 1, Publish |-> 2, PublishConfirm |-> 3, PublishError |-> 4,
     QueryPublisherSequence |-> 5, DeletePublisher |-> 6, Subscribe |-> 7, Deliver |-> 8,
     Credit |-> 9, StoreOffset |-> 10, QueryOffset |-> 11, Unsubscribe |-> 12, Create |-> 13,
     Delete |-> 14, Metadata |-> 15, MetadataUpdate |-> 16, PeerProperties |-> 17,
     SaslHandshake |-> 18, SaslAuthenticate |-> 19, Tune |-> 20, Open |-> 21, Close |-> 22,
     Heartbeat |-> 23, Route |-> 24, Partitions |-> 25, ExchangeCommandVersions |-> 27]

ResponseCode == [Ok |-> 1, StreamNotAvailable |-> 6, SaslChallenge |-> 10]

ResponseBit == (Base ^ 2) \div 2 \* 0x8000

-----------------------------------------------------------------------------
(* Client commands                                                         *)

ClientCommand(key, size, body) ==
    [key |-> key, size |-> 2 + 2 + size, fields |-> <<UShort(key), UShort(1)>> \o body]

ClientRequest(key, id, size, body) ==
    [key |-> key, size |-> 2 + 2 + 4 + size, fields |-> <<UShort(key), UShort(1), UInt(id)>> \o body]

PropertySize(p)   == StringSize(p[1]) + StringSize(p[2])
Property(p)       == <<String(p[1]), String(p[2])>>
Map(q, Elem(_))   == [i \in DOMAIN q |-> Elem(q[i])]
Each(q, Field(_)) == Array(Map(q, Field))
PropertiesSize(q) == ArraySize(Map(q, PropertySize))

DeclarePublisherRequest(id, publisher, name, stream) ==
    ClientRequest(CommandKey.DeclarePublisher, id, 1 + StringSize(name) + StringSize(stream),
                  <<Byte(publisher), String(name), String(stream)>>)

\* A message is [id, body].
MessageSize(m) == 8 + BlobSize(m.body)

PublishCommand(publisher, messages) ==
    ClientCommand(CommandKey.Publish, 1 + ArraySize(Map(messages, MessageSize)),
                  <<Byte(publisher), Each(messages, LAMBDA m : <<ULong(m.id), Blob(m.body)>>)>>)

QueryPublisherSequenceRequest(id, name, stream) ==
    ClientRequest(CommandKey.QueryPublisherSequence, id, StringSize(name) + StringSize(stream),
                  <<String(name), String(stream)>>)

DeletePublisherRequest(id, publisher) ==
    ClientRequest(CommandKey.DeletePublisher, id, 1, <<Byte(publisher)>>)

\* An offset specification is [type, offset]; types 4 and 5 carry a number.
HasOffset(spec) == spec.type \in {4, 5}

\* Faulty variant: the number is counted for offsets only, not for timestamps.
OffsetSizeOffsetOnly(spec) == IF spec.type = 4 THEN 8 ELSE 0

OffsetSize(spec) == IF HasOffset(spec) THEN 8 ELSE 0

SubscribeRequest(id, subscription, stream, spec, credit, properties) ==
    ClientRequest(CommandKey.Subscribe, id,
                  1 + StringSize(stream) + 2 + OffsetSize(spec) + 2 + PropertiesSize(properties),
                  <<Byte(subscription), String(stream), UShort(spec.type)>>
                      \o (IF HasOffset(spec) THEN <<ULong(spec.offset)>> ELSE <<>>)
                      \o <<UShort(credit), Each(properties, Property)>>)

CreditCommand(subscription, credit) ==
    ClientCommand(CommandKey.Credit, 1 + 2, <<Byte(subscription), UShort(credit)>>)

StoreOffsetCommand(reference, stream, offset) ==
    ClientCommand(CommandKey.StoreOffset, StringSize(reference) + StringSize(stream) + 8,
                  <<String(reference), String(stream), ULong(offset)>>)

QueryOffsetRequest(id, reference, stream) ==
    ClientRequest(CommandKey.QueryOffset, id, StringSize(reference) + StringSize(stream),
                  <<String(reference), String(stream)>>)

UnsubscribeRequest(id, subscription) ==
    ClientRequest(CommandKey.Unsubscribe, id, 1, <<Byte(subscription)>>)

CreateRequest(id, stream, arguments) ==
    ClientRequest(CommandKey.Create, id, StringSize(stream) + PropertiesSize(arguments),
                  <<String(stream), Each(arguments, Property)>>)

DeleteRequest(id, stream) ==
    ClientRequest(CommandKey.Delete, id, StringSize(stream), <<String(stream)>>)

MetadataRequest(id, streams) ==
    ClientRequest(CommandKey.Metadata, id, ArraySize(Map(streams, StringSize)),
                  <<Each(streams, LAMBDA s : <<String(s)>>)>>)

PeerPropertiesRequest(id, properties) ==
    ClientRequest(CommandKey.PeerProperties, id, PropertiesSize(properties), <<Each(properties, Property)>>)

SaslHandshakeRequest(id) == ClientRequest(CommandKey.SaslHandshake, id, 0, <<>>)

SaslAuthenticateRequest(id, mechanism, data) ==
    ClientRequest(CommandKey.SaslAuthenticate, id, StringSize(mechanism) + BlobSize(data),
                  <<String(mechanism), Blob(data)>>)

ClientTuneCommand(frame_size, heartbeat) ==
    ClientCommand(ResponseBit + CommandKey.Tune, 4 + 4, <<UInt(frame_size), UInt(heartbeat)>>)

OpenRequest(id, virtual_host) ==
    ClientRequest(CommandKey.Open, id, StringSize(virtual_host), <<String(virtual_host)>>)

ClientCloseRequest(id, code, reason) ==
    ClientRequest(CommandKey.Close, id, 2 + StringSize(reason), <<UShort(code), String(reason)>>)

ClientCloseResponse(id, code) ==
    ClientRequest(ResponseBit + CommandKey.Close, id, 2, <<UShort(code)>>)

ClientHeartbeatCommand == ClientCommand(CommandKey.Heartbeat, 0, <<>>)

\* A version is <<key, min, max>>.
ExchangeCommandVersionsRequest(id, versions) ==
    ClientRequest(CommandKey.ExchangeCommandVersions, id, ArraySize(Map(versions, LAMBDA v : 2 + 2 + 2)),
                  <<Each(versions, LAMBDA v : <<UShort(v[1]), UShort(v[2]), UShort(v[3])>>)>>)

RECURSIVE WriteFields(_, _)
write_array(b, rows) == FoldLeft(WriteFields, write_count(b, Len(rows)), rows)

WriteField(b, f) ==
    CASE f.kind = "unsigned" -> write_int(b, f.value, f.width)
      [] f.kind = "string"   -> write_string(b, f.value)
      [] f.kind = "blob"     -> write_blob(b, f.value)
      [] f.kind = "array"    -> write_array(b, f.value)

WriteFields(b, fields) == FoldLeft(LAMBDA c, f : IF c.thrown THEN c ELSE WriteField(c, f), b, fields)

-----------------------------------------------------------------------------
(* Server commands                                                         *)

ServerResponse(body) == <<U(4)>> \o body

PublishConfirmCommand == <<U(1), List(<<U(8)>>)>>

PublishErrorCommand == <<U(1), List(<<U(8), U(2)>>)>>

QueryPublisherSequenceResponse == ServerResponse(<<U(2), U(8)>>)

Chunk == <<U(1), U(1), U(2), U(4), S(8), U(8), U(8), U(4), U(4), U(4), U(4), Entries>>

DeliverCommand(version) == <<U(1)>> \o (IF version >= 2 THEN <<U(8)>> ELSE <<>>) \o Chunk

CreditErrorCommand == <<U(2), U(1)>>

QueryOffsetResponse == ServerResponse(<<U(2), U(8)>>)

MetadataResponse ==
    ServerResponse(<<List(<<U(2), Text, U(4)>>), List(<<Text, U(2), U(2), List(<<U(2)>>)>>)>>)

MetadataUpdateCommand == <<U(2), When({ResponseCode.StreamNotAvailable}, Text)>>

PeerPropertiesResponse == ServerResponse(<<U(2), List(<<Text, Text>>)>>)

SaslHandshakeResponse == ServerResponse(<<U(2), List(<<Text>>)>>)

SaslAuthenticateResponse == ServerResponse(<<U(2), When({ResponseCode.SaslChallenge}, Bytes)>>)

ServerTuneCommand == <<U(4), U(4)>>

OpenResponse == ServerResponse(<<U(2), List(<<Text, Text>>)>>)

ServerCloseRequest == ServerResponse(<<U(2), Text>>)

GenericResponse == ServerResponse(<<U(2)>>)

ExchangeCommandVersionsResponse == ServerResponse(<<U(2), List(<<U(2), U(2), U(2)>>)>>)

\* An entry of a chunk: a first bit set would be a batch of messages.
ReadEntry(r) ==
    IF TooShort(r, 1) \/ Ahead(r, 1)[1] >= Base \div 2 THEN Throw(r) ELSE read_blob(r)

RECURSIVE ReadFields(_, _)

\* The elements of an array, each a row of fields.
Elements(r, n, row) ==
    LET Step(q, i) ==
            IF q.thrown THEN q
            ELSE LET e == ReadFields([q EXCEPT !.got = <<>>], row) IN [e EXCEPT !.got = Append(q.got, e.got)]
        all == FoldLeft(Step, [r EXCEPT !.got = <<>>], [i \in 1 .. n |-> i])
    IN  [all EXCEPT !.got = Append(r.got, @)]

read_array(r, row) ==
    LET q == read_signed(r, 4) IN
    IF q.thrown THEN q ELSE Elements([q EXCEPT !.got = Front(@)], Last(q.got), row)

\* The data of a chunk is copied and its entries are read from the copy; entries
\* and length come from the header just read.
ReadEntries(r) ==
    LET n       == r.got[Len(r.got) - 8]
        data    == read_bytes(r, r.got[Len(r.got) - 2])
        entries == Elements(Reader(Last(data.got)), n, <<Entry>>)
    IN  IF data.thrown THEN data
        ELSE [data EXCEPT !.got = Append(r.got, Last(entries.got)), !.thrown = entries.thrown]

ReadField(r, f) ==
    CASE f.kind = "unsigned" -> read_unsigned(r, f.width)
      [] f.kind = "signed"   -> read_signed(r, f.width)
      [] f.kind = "string"   -> read_string(r)
      [] f.kind = "blob"     -> read_blob(r)
      [] f.kind = "array"    -> read_array(r, f.row)
      [] f.kind = "when"     -> IF Last(r.got) \in f.codes THEN ReadFields(r, <<f.field>>) ELSE r
      [] f.kind = "entries"  -> ReadEntries(r)
      [] f.kind = "entry"    -> ReadEntry(r)

ReadFields(r, fields) == FoldLeft(LAMBDA q, f : IF q.thrown THEN q ELSE ReadField(q, f), r, fields)
=============================================================================
