----------------------------- MODULE MCFraming ------------------------------
(* Framing for TLC: bodies around the sizes at which one or two messages   *)
(* fill a frame of 60 bytes (9 + 12 + 39, 9 + 12 + 15 + 12 + 12), strings  *)
(* around the scaled limits, and frames of every kind a broker sends.      *)
EXTENDS Framing

Response(name, fields) == <<ResponseBit + CommandKey[name], 1, <<UInt(7)>> \o fields>>

Ok     == UShort(ResponseCode.Ok)
Text1  == Content(1)
Pairs2 == Array(<<<<String(Text1), String(<<>>)>>, <<String(Content(SignedMax(2))), String(Text1)>>>>)

\* A chunk of two messages, the second empty.
Messages == Digits(2, 4) \o Content(2) \o Digits(0, 4)

ChunkFields(n) ==
    <<Byte(0), Byte(0), UShort(n), UInt(n), ULong(-1), ULong(1), ULong(UnsignedMax(8)), UInt(0), UInt(Len(Messages)),
      UInt(0), UInt(0)>>

Deliver(version, fields) ==
    [key |-> CommandKey.Deliver, version |-> version,
     body |-> WriteFields(reserve(0), fields).bytes \o Messages,
     values |-> Append(Values(fields), <<<<Content(2)>>, <<<<>>>>>>), cut |-> 0]

Plain ==
    {Response("Subscribe", <<Ok>>), Response("Open", <<Ok, Pairs2>>), Response("PeerProperties", <<Ok, Array(<<>>)>>),
     Response("SaslHandshake", <<Ok, Array(<<<<String(Text1)>>, <<String(Text1)>>>>)>>),
     Response("SaslAuthenticate", <<UShort(ResponseCode.SaslChallenge), Blob(Text1)>>),
     Response("SaslAuthenticate", <<Ok>>),
     Response("QueryOffset", <<Ok, ULong(UnsignedMax(8))>>), Response("QueryPublisherSequence", <<Ok, ULong(0)>>),
     Response("ExchangeCommandVersions", <<Ok, Array(<<<<UShort(8), UShort(1), UShort(2)>>>>)>>),
     Response("Metadata", <<Array(<<<<UShort(1), String(Text1), UInt(UnsignedMax(4))>>>>),
                            Array(<<<<String(Text1), Ok, UShort(1), Array(<<<<UShort(1)>>, <<UShort(0)>>>>)>>>>)>>),
     <<CommandKey.PublishConfirm, 1, <<Byte(0), Array(<<<<ULong(1)>>, <<ULong(2)>>>>)>>>>,
     <<CommandKey.PublishError, 1, <<Byte(0), Array(<<<<ULong(1), UShort(2)>>>>)>>>>,
     <<CommandKey.MetadataUpdate, 1, <<UShort(ResponseCode.StreamNotAvailable), String(Text1)>>>>,
     <<CommandKey.MetadataUpdate, 1, <<UShort(2)>>>>,
     <<CommandKey.Credit, 1, <<UShort(4), Byte(0)>>>>, <<CommandKey.Tune, 1, <<UInt(60), UInt(0)>>>>,
     <<CommandKey.Heartbeat, 1, <<>>>>, <<CommandKey.Route, 1, <<>>>>, <<CommandKey.PublishConfirm, 2, <<>>>>,
     <<CommandKey.Close, 1, <<UInt(1), UShort(1), String(Text1)>>>>}

\* A frame that ends with a null string or blob, of length -1.
EndsWithNull(key, fields, null) ==
    [ServerFrame(key, 1, Append(fields, null), 0) EXCEPT !.values = Append(Values(fields), <<>>)]

NullText == UShort(UnsignedMax(2))
NullBlob == UInt(UnsignedMax(4))

Whole ==
    {ServerFrame(f[1], f[2], f[3], 0) : f \in Plain}
    \cup {Deliver(1, <<Byte(0)>> \o ChunkFields(2)), Deliver(2, <<Byte(0), ULong(3)>> \o ChunkFields(2)),
          EndsWithNull(CommandKey.MetadataUpdate, <<UShort(ResponseCode.StreamNotAvailable)>>, NullText),
          EndsWithNull(CommandKey.Close, <<UInt(1), UShort(1)>>, NullText),
          EndsWithNull(ResponseBit + CommandKey.SaslAuthenticate, <<UInt(7), UShort(ResponseCode.SaslChallenge)>>, NullBlob)}

\* Each one whole, one byte too long, and cut after any of its bytes.
Frames == UNION {{[f EXCEPT !.cut = c] : c \in -1 .. Len(f.body)} : f \in Whole}

Confirm == ServerFrame(CommandKey.PublishConfirm, 1, <<Byte(0), Array(<<<<ULong(1)>>>>)>>, 0)

\* Every frame, followed by one whose place in the stream is known.
MCIncoming == {<<f, Confirm>> : f \in Frames}
=============================================================================
