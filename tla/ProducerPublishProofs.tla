----------------------- MODULE ProducerPublishProofs ------------------------
(***************************************************************************)
(* What the producer publishes and what it is told about it, for any       *)
(* number of messages, senders and faults: in which order messages go from *)
(* send() through the accumulator to a connection, again to the next one,  *)
(* and to the broker; and what an answer of the broker means.              *)
(***************************************************************************)
EXTENDS Producer, TLAPS

USE DEF sendVars, semVars, accVars, netVars, sessVars, timerVars, cbVars, brokerVars

-----------------------------------------------------------------------------
(* What is published                                                       *)

Accepted  == {m \in Msgs : pc[m] \in {"publish", "sent"}}
Entering  == {m \in Msgs : pc[m] \in {"acquire", "add", "wait"}}
Published == unconfirmed \cup Elements(sent) \cup UNION {Elements(wire[s]) : s \in Sessions}

\* A message gets its id in send(), which needs a started producer, and is
\* published after it has been through the accumulator.
NewInv ==
    /\ \A m \in Msgs : pc[m] = "new" <=> id[m] = NoId
    /\ \A m \in Msgs : pc[m] # "new" => starting = "done"
AcceptedInv == Published \cup Elements(pending) \subseteq Accepted

\* One sender that leaves the ids to the producer sends them in order: the
\* message it is about to add comes after all others, the accumulator after
\* everything published.
OrderInv ==
    InIdOrder =>
        /\ DistinctIds
        /\ \A m \in Msgs : id[m] < next_id
        /\ \A m \in Entering, n \in Msgs : m # n => id[n] < id[m]
        /\ \A m, n \in Sending : m = n
        /\ \A i, j \in DOMAIN pending : i < j => id[pending[i]] < id[pending[j]]
        /\ \A m \in Published, n \in Elements(pending) : id[m] < id[n]
        /\ PublishedInOrder

\* A session is used for the first time when it is installed.
FreshInv ==
    /\ \A s \in Sessions : s > nsess => sess[s] = "none"
    /\ ~FrameOverflow => \A s \in Sessions : s > nsess \/ taken["Reconnect"] = s => wire[s] = <<>>

\* What has been published.
PublishedInv == NewInv /\ AcceptedInv /\ OrderInv /\ FreshInv /\ UnconfirmedWasSent

\* What the broker has been asked to believe: with a name, that what is not
\* above its horizon is stored.
Reliable == DistinctIds /\ (Named => InIdOrder /\ ~MayRefuse /\ ~FrameOverflow)
Confirmed(i) == IF Named THEN i <= last_seq ELSE \E n \in Msgs : pc[n] # "new" /\ id[n] = i /\ stored[n] > 0

\* The ids of the positive answers under way, the messages whose handler is
\* about to be told "Ok", and those whose handler has been.
Answered   == {i \in Ids : \E s \in Sessions :
                  \/ \E k \in DOMAIN inbox[s] : inbox[s][k].ok /\ inbox[s][k].id = i
                  \/ frame[s].ok /\ frame[s].id = i}
Confirming == {m \in Msgs : \E s \in Sessions : frame[s].ok /\ frame[s].msg = m}
ToldOk     == {m \in Msgs : result[m] = "Ok"}

\* A positive answer is true of the message it is about.
AnswerInv ==
    Reliable => /\ \A i \in Answered : Confirmed(i)
                /\ \A m \in Confirming \cup ToldOk : stored[m] > 0

\* Every message of q comes after all the messages with lower ids that are
\* still to be stored.
Covers(q) ==
    \A k \in DOMAIN q, u \in unconfirmed :
        stored[u] = 0 /\ id[u] < id[q[k]] => \E j \in 1 .. k - 1 : q[j] = u

\* With a name: what is still to be stored is above the horizon of the broker,
\* and on its way through the current connection.
DedupInv ==
    Named /\ Reliable =>
        /\ last_seq < next_id
        /\ \A m \in Entering \cup Elements(pending) : last_seq < id[m]
        /\ \A u \in unconfirmed : id[u] <= last_seq => stored[u] > 0
        /\ \A s \in Sessions : Covers(wire[s])
        /\ client # NoClient /\ sess[client] = "up" =>
              \A u \in unconfirmed : stored[u] = 0 => u \in Elements(wire[client])

\* The types of the variables that the publishing is about.
PublishTypes ==
    /\ next_id \in Nat /\ id \in [Msgs -> Ids] /\ pc \in [Msgs -> SendStates]
    /\ pending \in Seq(Msgs) /\ sent \in Seq(Msgs) /\ wire \in [Sessions -> Seq(Msgs)]
    /\ unconfirmed \in SUBSET Msgs /\ NoMsg \notin Msgs
    /\ client \in Sessions \cup {NoClient} /\ NoClient \notin Sessions /\ 1 \in Sessions
    /\ sess \in [Sessions -> SessionStates] /\ nsess \in Nat /\ Sessions \subseteq Nat
    /\ taken \in [{"Delayed", "Reconnect", "stop"} -> Sessions \cup {NoClient}]
    /\ inbox \in [Sessions -> Seq([id : Ids, ok : BOOLEAN])]
    /\ frame \in [Sessions -> [id : Ids, ok : BOOLEAN, msg : Msgs \cup {NoMsg}]]
    /\ stored \in [Msgs -> Nat] /\ last_seq \in Ids

\* They follow from the type invariant.
LEMMA PublishTyped == TypeOK => PublishTypes
<1>1. Sessions \subseteq Nat /\ NoClient \notin Sessions /\ 1 \in Sessions /\ 0 .. MaxSessions \subseteq Nat
  BY SizesAssumption, SMTT(30) DEF Sessions, MaxSessions, NoClient
<1> QED
  BY <1>1, MsgsAssumption, Zenon DEF TypeOK, PublishTypes

\* The elements of the sequences that the steps make.
LEMMA SequenceFacts ==
    /\ Elements(<<>>) = {}
    /\ \A q \in Seq(Msgs) : Elements(q) \subseteq Msgs
    /\ \A q \in Seq(Msgs), m \in Msgs : Elements(Append(q, m)) = Elements(q) \cup {m}
    /\ \A p, q \in Seq(Msgs) : Elements(p \o q) = Elements(p) \cup Elements(q)
    /\ \A q \in Seq(Msgs) : q # <<>> => Elements(q) = Elements(Tail(q)) \cup {Head(q)}
    /\ \A q \in Seq(Msgs) : \A p \in CutShort(q) :
          /\ p \in Seq(Msgs) /\ Elements(p) \subseteq Elements(q)
          /\ \A i \in DOMAIN p : i \in DOMAIN q /\ p[i] = q[i]
<1>1. Elements(<<>>) = {} /\ \A q \in Seq(Msgs) : Elements(q) \subseteq Msgs
  BY SMTT(30) DEF Elements
<1>2. \A q \in Seq(Msgs), m \in Msgs : Elements(Append(q, m)) = Elements(q) \cup {m}
  <2> SUFFICES ASSUME NEW q \in Seq(Msgs), NEW m \in Msgs PROVE Elements(Append(q, m)) = Elements(q) \cup {m}
    OBVIOUS
  <2>1. /\ DOMAIN Append(q, m) = 1 .. Len(q) + 1 /\ Append(q, m)[Len(q) + 1] = m
        /\ \A i \in 1 .. Len(q) : Append(q, m)[i] = q[i]
    OBVIOUS
  <2>2. Elements(Append(q, m)) \subseteq Elements(q) \cup {m}
    BY <2>1, SMTT(30) DEF Elements
  <2>3. Elements(q) \cup {m} \subseteq Elements(Append(q, m))
    BY <2>1, SMTT(30) DEF Elements
  <2> QED
    BY <2>2, <2>3, Zenon
<1>3. \A p, q \in Seq(Msgs) : Elements(p \o q) = Elements(p) \cup Elements(q)
  <2> SUFFICES ASSUME NEW p \in Seq(Msgs), NEW q \in Seq(Msgs) PROVE Elements(p \o q) = Elements(p) \cup Elements(q)
    OBVIOUS
  <2>1. /\ DOMAIN (p \o q) = 1 .. Len(p) + Len(q) /\ DOMAIN q = 1 .. Len(q)
        /\ \A i \in 1 .. Len(p) : (p \o q)[i] = p[i]
        /\ \A i \in 1 .. Len(q) : (p \o q)[Len(p) + i] = q[i]
    OBVIOUS
  <2>2. ASSUME NEW i \in 1 .. Len(p) + Len(q) PROVE (p \o q)[i] \in Elements(p) \cup Elements(q)
    <3>1. i \in 1 .. Len(p) \/ i - Len(p) \in 1 .. Len(q)
      OBVIOUS
    <3>2. CASE i \in 1 .. Len(p)
      BY <2>1, <3>2 DEF Elements
    <3>3. CASE i - Len(p) \in 1 .. Len(q)
      <4>1. i = Len(p) + (i - Len(p))
        OBVIOUS
      <4>2. (p \o q)[i] = q[i - Len(p)]
        BY <2>1, <3>3, <4>1, Zenon
      <4> QED
        BY <2>1, <3>3, <4>2, Zenon DEF Elements
    <3> QED
      BY <3>1, <3>2, <3>3, Zenon
  <2>3. ASSUME NEW i \in 1 .. Len(q) PROVE q[i] \in Elements(p \o q)
    <3>1. Len(p) + i \in DOMAIN (p \o q)
      BY <2>1, SMTT(30)
    <3> QED
      BY <2>1, <3>1, Zenon DEF Elements
  <2>4. Elements(p) \subseteq Elements(p \o q)
    BY <2>1, SMTT(30) DEF Elements
  <2>5. Elements(q) \subseteq Elements(p \o q)
    BY <2>1, <2>3, Zenon DEF Elements
  <2>6. Elements(p \o q) \subseteq Elements(p) \cup Elements(q)
    BY <2>1, <2>2, Zenon DEF Elements
  <2> QED
    BY <2>4, <2>5, <2>6, Zenon
<1>4. \A q \in Seq(Msgs) : q # <<>> => Elements(q) = Elements(Tail(q)) \cup {Head(q)}
  <2> SUFFICES ASSUME NEW q \in Seq(Msgs), q # <<>> PROVE Elements(q) = Elements(Tail(q)) \cup {Head(q)}
    OBVIOUS
  <2>1. /\ Len(q) \in Nat \ {0} /\ DOMAIN q = 1 .. Len(q) /\ DOMAIN Tail(q) = 1 .. Len(q) - 1
        /\ \A i \in 1 .. Len(q) - 1 : Tail(q)[i] = q[i + 1] /\ Head(q) = q[1]
    OBVIOUS
  <2>2. ASSUME NEW i \in 1 .. Len(q) PROVE q[i] \in Elements(Tail(q)) \cup {Head(q)}
    <3>1. q[i] = Head(q) \/ (i - 1 \in DOMAIN Tail(q) /\ Tail(q)[i - 1] = q[i])
      BY <2>1, SMTT(30)
    <3> QED
      BY <3>1, Zenon DEF Elements
  <2>3. Elements(Tail(q)) \cup {Head(q)} \subseteq Elements(q)
    BY <2>1, SMTT(30) DEF Elements
  <2>4. Elements(q) \subseteq Elements(Tail(q)) \cup {Head(q)}
    BY <2>1, <2>2, ZenonT(60) DEF Elements
  <2> QED
    BY <2>3, <2>4, Zenon
<1>5. ASSUME NEW q \in Seq(Msgs), NEW p \in CutShort(q)
      PROVE  /\ p \in Seq(Msgs) /\ Elements(p) \subseteq Elements(q)
             /\ \A i \in DOMAIN p : i \in DOMAIN q /\ p[i] = q[i]
  <2>1. PICK n \in 0 .. Len(q) - 1 : p = SubSeq(q, 1, n)
    BY Zenon DEF CutShort
  <2>2. p \in Seq(Msgs) /\ DOMAIN p = 1 .. n /\ \A i \in 1 .. n : p[i] = q[i] /\ i \in DOMAIN q
    BY <2>1, SMTT(30)
  <2> QED
    BY <2>2, Zenon DEF Elements
<1> QED
  BY <1>1, <1>2, <1>3, <1>4, <1>5, Zenon

\* Where a published message is.
LEMMA PublishedMembers ==
    /\ \A m : m \in Published <=> \/ m \in unconfirmed \/ m \in Elements(sent)
                                \/ \E s \in Sessions : m \in Elements(wire[s])
    /\ \A m : m \in Published' <=> \/ m \in unconfirmed' \/ m \in Elements(sent')
                                 \/ \E s \in Sessions : m \in Elements(wire'[s])
  BY DEF Published, Elements

\* Two sequences in the order of their ids, one after the other.
LEMMA InOrderJoined ==
    ASSUME id \in [Msgs -> Ids], NEW p \in Seq(Msgs), NEW q \in Seq(Msgs),
           \A i, j \in DOMAIN p : i < j => id[p[i]] < id[p[j]],
           \A i, j \in DOMAIN q : i < j => id[q[i]] < id[q[j]],
           \A m \in Elements(p), n \in Elements(q) : id[m] < id[n]
    PROVE  \A i, j \in DOMAIN (p \o q) : i < j => id[(p \o q)[i]] < id[(p \o q)[j]]
<1>1. /\ Len(p) \in Nat /\ Len(q) \in Nat /\ DOMAIN p = 1 .. Len(p) /\ DOMAIN q = 1 .. Len(q)
      /\ DOMAIN (p \o q) = 1 .. Len(p) + Len(q)
      /\ \A i \in 1 .. Len(p) : (p \o q)[i] = p[i]
      /\ \A i \in 1 .. Len(p) + Len(q) : i > Len(p) => i - Len(p) \in 1 .. Len(q) /\ (p \o q)[i] = q[i - Len(p)]
  OBVIOUS
<1>2. \A i \in 1 .. Len(p), j \in 1 .. Len(q) : id[p[i]] < id[q[j]]
  BY <1>1, Zenon DEF Elements
<1> SUFFICES ASSUME NEW i \in 1 .. Len(p) + Len(q), NEW j \in 1 .. Len(p) + Len(q), i < j
             PROVE  id[(p \o q)[i]] < id[(p \o q)[j]]
  BY <1>1, Zenon
<1>3. CASE j <= Len(p)
  BY <1>1, <1>3, SMTT(30)
<1>4. CASE i <= Len(p) /\ j > Len(p)
  BY <1>1, <1>2, <1>4, SMTT(30)
<1>5. CASE i > Len(p)
  <2>1. i - Len(p) < j - Len(p) /\ j > Len(p)
    BY <1>1, <1>5, SMTT(30)
  <2>2. \A k \in {i, j} : k - Len(p) \in 1 .. Len(q) /\ (p \o q)[k] = q[k - Len(p)]
    BY <1>1, <1>5, <2>1, Zenon
  <2> QED
    BY <1>1, <2>1, <2>2, ZenonT(60)
<1> QED
  BY <1>1, <1>3, <1>4, <1>5, SMTT(30)

\* In q, the messages of U come before those with higher ids.
Precede(U, q) == \A k \in DOMAIN q, u \in U : id[u] < id[q[k]] => \E j \in 1 .. k - 1 : q[j] = u

\* They do in p \o q if they do in p, q is in order and all are in one of them.
LEMMA CoversJoined ==
    ASSUME id \in [Msgs -> Ids], NEW p \in Seq(Msgs), NEW q \in Seq(Msgs), NEW U,
           U \subseteq Elements(p) \cup Elements(q),
           Precede(U, p), \A i, j \in DOMAIN q : i < j => id[q[i]] < id[q[j]]
    PROVE  Precede(U, p \o q)
<1>1. /\ Len(p) \in Nat /\ Len(q) \in Nat /\ DOMAIN p = 1 .. Len(p) /\ DOMAIN q = 1 .. Len(q)
      /\ DOMAIN (p \o q) = 1 .. Len(p) + Len(q)
      /\ \A i \in 1 .. Len(p) : (p \o q)[i] = p[i]
      /\ \A i \in 1 .. Len(q) : (p \o q)[Len(p) + i] = q[i]
  OBVIOUS
<1> DEFINE r == p \o q
<1> SUFFICES ASSUME NEW k \in 1 .. Len(p) + Len(q), NEW u \in U, id[u] < id[r[k]]
             PROVE  \E j \in 1 .. k - 1 : r[j] = u
  BY <1>1, Zenon DEF Precede
<1>2. CASE k \in 1 .. Len(p)
  <2>1. PICK j \in 1 .. k - 1 : p[j] = u
    BY <1>1, <1>2, Zenon DEF Precede
  <2>2. j \in 1 .. Len(p)
    BY <1>1, <1>2, SMTT(30)
  <2> QED
    BY <1>1, <2>1, <2>2, Zenon
<1>3. CASE k \notin 1 .. Len(p)
  <2>1. PICK i \in 1 .. Len(q) : k = Len(p) + i
    <3>1. k - Len(p) \in 1 .. Len(q) /\ k = Len(p) + (k - Len(p))
      BY <1>1, <1>3, SMTT(30)
    <3> QED
      BY <3>1, Zenon
  <2>2. CASE u \in Elements(p)
    <3>1. PICK j \in 1 .. Len(p) : p[j] = u
      BY <1>1, <2>2, Zenon DEF Elements
    <3>2. j \in 1 .. k - 1
      BY <1>1, <2>1, SMTT(30)
    <3> QED
      BY <1>1, <3>1, <3>2, Zenon
  <2>3. CASE u \in Elements(q)
    <3>1. PICK h \in 1 .. Len(q) : q[h] = u
      BY <1>1, <2>3, Zenon DEF Elements
    <3>2. \A n \in 1 .. Len(q) : id[q[n]] \in Int
      BY <1>1, SMTT(30) DEF Ids, NoId
    <3>3. r[k] = q[i] /\ id[q[h]] < id[q[i]]
      BY <1>1, <2>1, <3>1, Zenon
    <3>4. i = h \/ i < h => id[q[i]] = id[q[h]] \/ id[q[i]] < id[q[h]]
      BY <1>1, Zenon
    <3>5. h < i
      BY <1>1, <3>2, <3>3, <3>4, SMTT(30)
    <3>6. Len(p) + h \in 1 .. k - 1
      BY <1>1, <2>1, <3>5, SMTT(30)
    <3> QED
      BY <1>1, <3>1, <3>6, Zenon
  <2> QED
    BY <2>2, <2>3, Zenon
<1> QED
  BY <1>2, <1>3, Zenon

\* publish_encoded adds the elements of a sequence to one wire at most.
LEMMA PublishAdds ==
    ASSUME PublishTypes, NEW c \in Sessions, NEW q \in Seq(Msgs), Publish(c, q)
    PROVE  /\ \A s \in Sessions : wire'[s] = IF sess[c] = "up" /\ s = c THEN wire[s] \o q ELSE wire[s]
           /\ \A s \in Sessions : Elements(wire'[s]) \subseteq Elements(wire[s]) \cup Elements(q)
<1>1. wire \in [Sessions -> Seq(Msgs)]
  BY Zenon DEF PublishTypes
<1>2. \A s \in Sessions : wire'[s] = IF sess[c] = "up" /\ s = c THEN wire[s] \o q ELSE wire[s]
  BY <1>1, Zenon DEF Publish
<1>3. \A s \in Sessions : Elements(wire[s] \o q) = Elements(wire[s]) \cup Elements(q)
  BY <1>1, SequenceFacts, Zenon
<1> QED
  BY <1>2, <1>3, Zenon

\* Steps that publish nothing: a message, or the accumulator, may go ...
PublishesNothing ==
    /\ UNCHANGED <<next_id, id, sent>>
    /\ \A m \in Msgs : pc'[m] = pc[m] \/ (pc[m] = "publish" /\ pc'[m] = "sent")
    /\ starting = "done" => starting' = "done"
    /\ unconfirmed' \subseteq unconfirmed /\ pending' \in {pending, <<>>}
    /\ \A s \in Sessions : Elements(wire'[s]) \subseteq Elements(wire[s])
    /\ client' \in {client, NoClient}

\* ... that open no session ...
OpensNothing ==
    /\ UNCHANGED nsess
    /\ taken'["Reconnect"] \in {taken["Reconnect"], NoClient}
    /\ \A s \in Sessions : /\ sess[s] = "none" => sess'[s] = "none"
                           /\ wire[s] = <<>> => wire'[s] = <<>>

\* ... and that do not concern the broker, except that a session is lost.
StoresNothing ==
    /\ UNCHANGED <<stored, last_seq>>
    /\ \A s \in Sessions : wire'[s] \in {wire[s], <<>>}
    /\ \/ client' = NoClient
       \/ client' = client /\ (sess'[client] = "up" => sess[client] = "up" /\ wire'[client] = wire[client])

\* The first keep the order ...
LEMMA NothingPublished ==
    ASSUME PublishTypes, PublishedInv, PublishesNothing
    PROVE  NewInv' /\ AcceptedInv' /\ OrderInv' /\ UnconfirmedWasSent'
<1>1. Elements(pending)' \subseteq Elements(pending)
  BY SequenceFacts, Zenon DEF PublishesNothing
<1>2. Published' \subseteq Published
  BY SMTT(30) DEF Published, Elements, PublishesNothing
<1>3. Accepted' = Accepted /\ Entering' = Entering /\ Sending' \subseteq Sending
  BY Zenon DEF Accepted, Entering, Sending, PublishesNothing
<1>4. NewInv' /\ AcceptedInv'
  BY <1>1, <1>2, <1>3, Zenon DEF PublishedInv, NewInv, AcceptedInv, PublishesNothing
<1>5. OrderInv'
  <2> SUFFICES ASSUME InIdOrder PROVE (OrderInv!2)'
    BY Zenon DEF OrderInv, InIdOrder
  <2>1. OrderInv!2
    BY Zenon DEF PublishedInv, OrderInv
  <2>2. DistinctIds' /\ PublishedInOrder' /\ \A m \in Msgs : id'[m] < next_id'
    BY <2>1, Zenon DEF DistinctIds, PublishedInOrder, InIdOrder, PublishesNothing
  <2>3. /\ \A m \in Entering', n \in Msgs : m # n => id'[n] < id'[m]
        /\ \A m, n \in Sending' : m = n
    BY <1>3, <2>1, Zenon DEF PublishesNothing
  <2>4. \A i, j \in DOMAIN pending' : i < j => id'[pending'[i]] < id'[pending'[j]]
    BY <2>1, SMTT(30) DEF PublishesNothing
  <2>5. \A m \in Published', n \in Elements(pending)' : id'[m] < id'[n]
    BY <1>1, <1>2, <2>1, Zenon DEF PublishesNothing
  <2> QED
    BY <2>2, <2>3, <2>4, <2>5, Zenon
<1>6. UnconfirmedWasSent'
  BY Zenon DEF PublishedInv, UnconfirmedWasSent, PublishesNothing, Elements
<1> QED
  BY <1>4, <1>5, <1>6, Zenon

\* ... the second what is known of sessions not used yet ...
LEMMA NothingOpened == ASSUME PublishTypes, FreshInv, OpensNothing PROVE FreshInv'
<1>1. \A s \in Sessions : taken'["Reconnect"] = s => taken["Reconnect"] = s
  BY Zenon DEF OpensNothing, PublishTypes
<1> QED
  BY <1>1, Zenon DEF FreshInv, OpensNothing

\* ... and all three what the broker's horizon says.
LEMMA NothingStored == ASSUME PublishTypes, DedupInv, PublishesNothing, StoresNothing PROVE DedupInv'
<1> SUFFICES ASSUME Named, Reliable' PROVE (DedupInv!2)'
  BY Zenon DEF DedupInv
<1>1. Reliable
  BY Zenon DEF Reliable, DistinctIds, InIdOrder, PublishesNothing
<1>2. DedupInv!2
  BY <1>1, Zenon DEF DedupInv
<1>3. Elements(pending)' \subseteq Elements(pending) /\ Entering' = Entering
  BY SequenceFacts, Zenon DEF PublishesNothing, Entering
<1>4. /\ last_seq' < next_id'
      /\ \A m \in Entering' \cup Elements(pending)' : last_seq' < id'[m]
      /\ \A u \in unconfirmed' : id'[u] <= last_seq' => stored'[u] > 0
  BY <1>2, <1>3, Zenon DEF PublishesNothing, StoresNothing
<1>5. \A s \in Sessions : Covers(wire[s])'
  <2> SUFFICES ASSUME NEW s \in Sessions PROVE Covers(wire[s])'
    OBVIOUS
  <2>1. CASE wire'[s] = <<>>
    BY <2>1, SMTT(30) DEF Covers
  <2>2. CASE wire'[s] = wire[s]
    BY <1>2, <2>2, SMTT(30) DEF Covers, PublishesNothing, StoresNothing
  <2> QED
    BY <2>1, <2>2, Zenon DEF StoresNothing
<1>6. client' # NoClient /\ sess'[client'] = "up" =>
          \A u \in unconfirmed' : stored'[u] = 0 => u \in Elements(wire[client])'
  BY <1>2, SMTT(30) DEF PublishesNothing, StoresNothing, Elements
<1> QED
  BY <1>4, <1>5, <1>6, Zenon

\* What has been confirmed stays so, as long as the steps only take answers to
\* the handlers.
LEMMA AnswersStay ==
    ASSUME PublishTypes, PublishTypes', NewInv, AnswerInv,
           \A n \in Msgs : id'[n] = id[n] \/ pc[n] = "new", \A n \in Msgs : pc'[n] = "new" => pc[n] = "new",
           last_seq <= last_seq', \A n \in Msgs : stored[n] > 0 => stored'[n] > 0,
           \A i \in Answered' : i \in Answered \/ Confirmed(i)',
           Reliable => \A m \in Confirming' : m \in Confirming \/ stored'[m] > 0,
           ToldOk' \subseteq ToldOk \cup Confirming
    PROVE  AnswerInv'
<1> SUFFICES ASSUME Reliable' PROVE AnswerInv'
  BY Zenon DEF AnswerInv
<1>1. DistinctIds
  <2> SUFFICES ASSUME NEW m \in Msgs, NEW n \in Msgs, m # n, id[m] = id[n] PROVE id[m] = NoId
    BY Zenon DEF DistinctIds
  <2>1. CASE pc[m] = "new" \/ pc[n] = "new"
    BY <2>1, Zenon DEF NewInv
  <2>2. CASE id'[m] = id[m] /\ id'[n] = id[n]
    BY <2>2, Zenon DEF Reliable, DistinctIds
  <2> QED
    BY <2>1, <2>2, Zenon
<1>2. Reliable /\ AnswerInv!2
  BY <1>1, Zenon DEF AnswerInv, Reliable, InIdOrder
<1>3. ASSUME NEW i \in Ids, Confirmed(i) PROVE Confirmed(i)'
  <2>1. CASE Named
    <3>1. i \in Int /\ last_seq \in Int /\ last_seq' \in Int /\ i <= last_seq
      BY <1>3, <2>1, SMTT(30) DEF Confirmed, PublishTypes, Ids, NoId
    <3> QED
      BY <2>1, <3>1, SMTT(30) DEF Confirmed
  <2>2. CASE ~Named
    BY <1>3, <2>2, Zenon DEF Confirmed
  <2> QED
    BY <2>1, <2>2, Zenon
<1>4. \A i \in Answered' : i \in Ids /\ (Confirmed(i) \/ Confirmed(i)')
  BY <1>2, Zenon DEF Answered
<1>5. \A i \in Answered' : Confirmed(i)'
  BY <1>3, <1>4, Zenon
<1>6. \A m \in Confirming' \cup ToldOk' : m \in Msgs /\ stored'[m] > 0
  BY <1>2, Zenon DEF Confirming, ToldOk
<1> QED
  BY <1>5, <1>6, Zenon DEF AnswerInv
\* send() takes an id.
LEMMA SendBeginPublished ==
    ASSUME PublishTypes, PublishedInv, DedupInv, NEW m \in Msgs, SendBegin(m), NumSenders = 1 => Sending = {}
    PROVE  PublishedInv' /\ DedupInv'
<1>1. /\ pc[m] = "new" /\ starting = "done" /\ pc'[m] \in {"acquire", "rejected"}
      /\ \A n \in Msgs : n # m => pc'[n] = pc[n] /\ id'[n] = id[n]
      /\ UNCHANGED <<starting, pending, sent, wire, unconfirmed, sess, nsess, taken, client, stored, last_seq>>
  BY Zenon DEF SendBegin, PublishTypes
<1>2. id'[m] \in Nat /\ (ExplicitIds = {} => id'[m] = next_id /\ next_id' = next_id + 1)
  BY SizesAssumption, ZenonT(60) DEF SendBegin, PublishTypes
<1>3. UNCHANGED <<Published, Elements(pending), Accepted>> /\ m \notin Accepted
  BY <1>1, SMTT(30) DEF Published, Elements, Accepted
<1>4. \A n \in Published \cup Elements(pending) : n \in Msgs /\ n # m /\ id'[n] = id[n]
  BY <1>1, <1>3, Zenon DEF PublishedInv, AcceptedInv, Accepted
<1>5. /\ \A i \in DOMAIN pending : pending[i] \in Elements(pending)
      /\ \A i \in DOMAIN sent : sent[i] \in Published
      /\ \A s \in Sessions : \A k \in DOMAIN wire[s] : wire[s][k] \in Published
  BY SMTT(30) DEF Published, Elements
<1>6. NewInv' /\ AcceptedInv'
  <2>1. id'[m] # NoId
    BY <1>2, SMTT(30) DEF NoId
  <2>2. NewInv'
    BY <1>1, <2>1, Zenon DEF PublishedInv, NewInv
  <2>3. AcceptedInv'
    BY <1>3, Zenon DEF PublishedInv, AcceptedInv
  <2> QED
    BY <2>2, <2>3, Zenon
<1>7. ASSUME InIdOrder
      PROVE  /\ OrderInv!2 /\ id'[m] = next_id /\ next_id' = next_id + 1
             /\ \A n \in Msgs : id[n] \in Int /\ id[n] < next_id
             /\ next_id \in Int /\ Entering' \subseteq {m} /\ Sending' \subseteq {m}
  <2>1. OrderInv!2 /\ id'[m] = next_id /\ next_id' = next_id + 1
    BY <1>2, <1>7, Zenon DEF PublishedInv, OrderInv, InIdOrder
  <2>2. Entering' \subseteq {m} /\ Sending' \subseteq {m}
    BY <1>1, <1>7, ZenonT(60) DEF Entering, Sending, InIdOrder
  <2>3. id \in [Msgs -> Ids] /\ next_id \in Nat
    BY Zenon DEF PublishTypes
  <2>4. next_id \in Int /\ \A n \in Msgs : id[n] \in Int
    BY <2>3, SMTT(30) DEF Ids, NoId
  <2> QED
    BY <2>1, <2>2, <2>4, Zenon
<1>8. OrderInv'
  <2> SUFFICES ASSUME InIdOrder PROVE (OrderInv!2)'
    BY Zenon DEF OrderInv, InIdOrder
  <2>1. \A n \in Msgs : n # m => id'[n] < id'[m]
    BY <1>1, <1>7, ZenonT(30)
  <2>2. \A n \in Msgs : id'[n] < next_id'
    <3>1. /\ next_id \in Int /\ next_id' = next_id + 1
          /\ \A n \in Msgs : id[n] \in Int /\ id[n] < next_id /\ id'[n] \in {id[n], next_id}
      BY <1>1, <1>7, Zenon
    <3> QED
      BY <3>1, SMTT(30)
  <2>3. DistinctIds'
    BY <1>1, <1>7, <2>1, SMTT(30) DEF DistinctIds
  <2>4. PublishedInOrder' /\ \A i, j \in DOMAIN pending' : i < j => id'[pending'[i]] < id'[pending'[j]]
    BY <1>1, <1>4, <1>5, <1>7, SMTT(30) DEF PublishedInOrder
  <2>5. \A p \in Published', n \in Elements(pending)' : id'[p] < id'[n]
    BY <1>3, <1>4, <1>7, Zenon
  <2>6. /\ \A p \in Entering', n \in Msgs : p # n => id'[n] < id'[p]
        /\ \A p, n \in Sending' : p = n
    BY <1>7, <2>1, Zenon
  <2> QED
    BY <2>2, <2>3, <2>4, <2>5, <2>6, Zenon
<1>9. FreshInv' /\ UnconfirmedWasSent'
  BY <1>1, Zenon DEF PublishedInv, FreshInv, UnconfirmedWasSent, Elements
<1>10. ASSUME Named, Reliable' PROVE (DedupInv!2)'
  <2>1. InIdOrder
    BY <1>10, Zenon DEF Reliable, InIdOrder
  <2>2. DedupInv!2
    BY <1>7, <1>10, <2>1, Zenon DEF DedupInv, Reliable
  <2>3. last_seq < next_id /\ last_seq \in Int
    BY <2>2, SMTT(30) DEF PublishTypes, Ids, NoId
  <2>4. last_seq' < next_id' /\ last_seq' < id'[m]
    BY <1>1, <1>7, <2>1, <2>3, SMTT(30)
  <2>5. \A n \in Entering' \cup Elements(pending)' : last_seq' < id'[n]
    BY <1>1, <1>3, <1>4, <1>7, <2>1, <2>2, <2>4, Zenon
  <2>6. unconfirmed \subseteq Published
    BY Zenon DEF Published
  <2>7. \A u \in unconfirmed' : id'[u] <= last_seq' => stored'[u] > 0
    BY <1>1, <1>4, <2>2, <2>6, Zenon
  <2>8. \A s \in Sessions : Covers(wire[s])'
    BY <1>1, <1>4, <1>5, <2>2, <2>6, SMTT(30) DEF Covers
  <2>9. client' # NoClient /\ sess'[client'] = "up" =>
            \A u \in unconfirmed' : stored'[u] = 0 => u \in Elements(wire[client])'
    BY <1>1, <2>2, Zenon DEF Elements
  <2> QED
    BY <2>4, <2>5, <2>7, <2>8, <2>9, Zenon
<1> QED
  BY <1>6, <1>8, <1>9, <1>10, Zenon DEF PublishedInv, DedupInv

\* send() goes on, up to the accumulator, or leaves by an exception.
LEMMA SenderPublished ==
    ASSUME PublishTypes, PublishedInv, DedupInv, NEW m \in Msgs,
           Acquire(m) \/ AcquireFails(m) \/ AddFails(m) \/ AddWaits(m)
    PROVE  PublishedInv' /\ DedupInv'
<1>1. /\ pc[m] \in {"acquire", "add", "wait"} /\ pc'[m] \in {"add", "wait", "rejected"}
      /\ \A n \in Msgs : n # m => pc'[n] = pc[n]
      /\ UNCHANGED <<starting, next_id, id, pending, sent, wire, unconfirmed, sess, nsess, taken, client, stored, last_seq>>
  BY Zenon DEF Acquire, AcquireFails, AddFails, AddWaits, PublishTypes
<1>2. UNCHANGED <<Published, Elements(pending), Accepted>> /\ Entering' \subseteq Entering /\ Sending' \subseteq Sending
  BY <1>1, SMTT(30) DEF Published, Elements, Accepted, Entering, Sending
<1>3. NewInv' /\ AcceptedInv'
  BY <1>1, <1>2, Zenon DEF PublishedInv, NewInv, AcceptedInv
<1>4. OrderInv'
  BY <1>1, <1>2, Zenon DEF PublishedInv, OrderInv, InIdOrder, DistinctIds, PublishedInOrder
<1>5. FreshInv' /\ UnconfirmedWasSent'
  BY <1>1, ZenonT(30) DEF PublishedInv, FreshInv, UnconfirmedWasSent, Elements
<1>6. DedupInv'
  BY <1>1, <1>2, SMTT(30) DEF DedupInv, Reliable, InIdOrder, DistinctIds, Covers, Elements
<1> QED
  BY <1>3, <1>4, <1>5, <1>6, Zenon DEF PublishedInv

\* What Covers asks of the frames on a connection after a step, said of the
\* sequence the step leaves there.
LEMMA CoversNext ==
    ASSUME NEW s \in Sessions, NEW q, wire'[s] = q,
           \A k \in DOMAIN q, u \in unconfirmed' :
               stored'[u] = 0 /\ id'[u] < id'[q[k]] => \E j \in 1 .. k - 1 : q[j] = u
    PROVE  Covers(wire[s])'
BY Zenon DEF Covers

\* The same of a connection whose frames the step leaves alone.
LEMMA CoversKept ==
    ASSUME NEW s \in Sessions, wire'[s] = wire[s],
           \A k \in DOMAIN wire[s], u \in unconfirmed' :
               stored'[u] = 0 /\ id'[u] < id'[wire[s][k]] => \E j \in 1 .. k - 1 : wire[s][j] = u
    PROVE  Covers(wire[s])'
<1> SUFFICES ASSUME NEW k \in DOMAIN wire'[s], NEW u \in unconfirmed', stored'[u] = 0, id'[u] < id'[wire'[s][k]]
             PROVE  \E j \in 1 .. k - 1 : wire'[s][j] = u
  BY Zenon DEF Covers
<1>1. k \in DOMAIN wire[s] /\ id'[u] < id'[wire[s][k]]
  BY Zenon
<1>2. \E j \in 1 .. k - 1 : wire[s][j] = u
  BY <1>1, Zenon
<1> QED
  BY <1>2, Zenon

\* Accumulator::add.
LEMMA AddPublished ==
    ASSUME PublishTypes, PublishedInv, DedupInv, NEW m \in Msgs, Add(m)
    PROVE  PublishedInv' /\ DedupInv'
<1>1. /\ pc[m] \in {"add", "wait"} /\ pc'[m] \in {"publish", "sent"} /\ pending' = Append(pending, m)
      /\ \A n \in Msgs : n # m => pc'[n] = pc[n]
      /\ UNCHANGED <<starting, next_id, id, sent, wire, unconfirmed, sess, nsess, taken, client, stored, last_seq>>
  BY ZenonT(30) DEF Add, PublishTypes
<1>2. /\ Elements(pending)' = Elements(pending) \cup {m} /\ Published' = Published
      /\ Accepted' = Accepted \cup {m} /\ m \notin Accepted /\ m \in Entering
      /\ Entering' \subseteq Entering /\ Sending' \subseteq Sending
  <2>1. Elements(pending)' = Elements(pending) \cup {m}
    BY <1>1, SequenceFacts, Zenon DEF PublishTypes
  <2> QED
    BY <1>1, <2>1, SMTT(30) DEF Published, Elements, Accepted, Entering, Sending
<1>3. NewInv' /\ AcceptedInv'
  BY <1>1, <1>2, Zenon DEF PublishedInv, NewInv, AcceptedInv
<1>4. \A n \in Published \cup Elements(pending) : n \in Msgs /\ n # m
  BY <1>2, Zenon DEF PublishedInv, AcceptedInv, Accepted
<1>5. OrderInv'
  <2> SUFFICES ASSUME InIdOrder PROVE (OrderInv!2)'
    BY Zenon DEF OrderInv, InIdOrder
  <2>1. OrderInv!2
    BY Zenon DEF PublishedInv, OrderInv
  <2>2. \A n \in Published \cup Elements(pending) : id[n] < id[m]
    BY <1>2, <1>4, <2>1, Zenon
  <2>3. \A i, j \in DOMAIN pending' : i < j => id'[pending'[i]] < id'[pending'[j]]
    <3>1. /\ DOMAIN pending = 1 .. Len(pending) /\ DOMAIN pending' = 1 .. Len(pending) + 1 /\ Len(pending) \in Nat
          /\ pending'[Len(pending) + 1] = m /\ \A i \in 1 .. Len(pending) : pending'[i] = pending[i]
      BY <1>1, SMTT(30) DEF PublishTypes
    <3>2. \A i \in 1 .. Len(pending) : id[pending[i]] < id[m]
      BY <2>2, <3>1, Zenon DEF Elements
    <3>3. \A i, j \in 1 .. Len(pending) : i < j => id[pending[i]] < id[pending[j]]
      BY <2>1, <3>1, Zenon
    <3> QED
      BY <1>1, <3>1, <3>2, <3>3, SMTT(30)
  <2>4. \A p \in Published', n \in Elements(pending)' : id'[p] < id'[n]
    BY <1>1, <1>2, <2>1, <2>2, Zenon
  <2>5. DistinctIds' /\ PublishedInOrder' /\ \A n \in Msgs : id'[n] < next_id'
    BY <1>1, <2>1, Zenon DEF DistinctIds, PublishedInOrder, InIdOrder
  <2>6. /\ \A p \in Entering', n \in Msgs : p # n => id'[n] < id'[p]
        /\ \A p, n \in Sending' : p = n
    BY <1>1, <1>2, <2>1, Zenon
  <2> QED
    BY <2>3, <2>4, <2>5, <2>6, Zenon
<1>6. FreshInv' /\ UnconfirmedWasSent'
  BY <1>1, Zenon DEF PublishedInv, FreshInv, UnconfirmedWasSent, Elements
<1>7. DedupInv'
  BY <1>1, <1>2, SMTT(30) DEF DedupInv, Reliable, InIdOrder, DistinctIds, Covers, Elements
<1> QED
  BY <1>3, <1>5, <1>6, <1>7, Zenon DEF PublishedInv
\* publish_batch(), from send(), flush() or the batch task.
LEMMA BatchPublished ==
    ASSUME PublishTypes, PublishTypes', PublishedInv, DedupInv, publish_batch,
           \A n \in Msgs : pc'[n] = pc[n] \/ (pc[n] = "publish" /\ pc'[n] = "sent"),
           client # NoClient => taken["Reconnect"] = NoClient
    PROVE  PublishedInv' /\ DedupInv'
<1>1. UNCHANGED <<starting, next_id, id, client, sess, nsess, taken, stored, last_seq>>
  BY Zenon DEF publish_batch
<1>2. CASE status # "Started"
  <2>1. UNCHANGED <<pending, sent, wire, unconfirmed>>
    BY <1>2, Zenon DEF publish_batch
  <2>2. PublishesNothing /\ OpensNothing /\ StoresNothing
    BY <1>1, <2>1, Zenon DEF PublishesNothing, OpensNothing, StoresNothing, Elements
  <2> QED
    BY <2>2, NothingPublished, NothingOpened, NothingStored, Zenon DEF PublishedInv
<1>3. CASE status = "Started"
  <2> DEFINE up == client # NoClient /\ sess[client] = "up"
             E  == Emplaced(pending)
  <2>1. pending' = <<>> /\ unconfirmed' = unconfirmed \cup E /\ E \subseteq Elements(pending)
    BY <1>3, Zenon DEF publish_batch, Emplaced, Elements
  <2>2. PICK q \in {pending} \cup CutShort(pending) :
           IF client = NoClient THEN UNCHANGED <<sent, wire>> ELSE sent' = sent \o q /\ Publish(client, q)
    BY <1>3, Zenon DEF publish_batch
  <2>3. /\ q \in Seq(Msgs) /\ Elements(q) \subseteq Elements(pending)
        /\ \A i \in DOMAIN q : i \in DOMAIN pending /\ q[i] = pending[i]
        /\ ~FrameOverflow => q = pending
    <3>1. pending \in Seq(Msgs) /\ (~FrameOverflow => CutShort(pending) = {})
      BY Zenon DEF PublishTypes, CutShort
    <3>2. CASE q = pending
      BY <3>1, <3>2, Zenon
    <3>3. CASE q \in CutShort(pending)
      BY <3>1, <3>3, SequenceFacts, Zenon
    <3> QED
      BY <2>2, <3>2, <3>3, Zenon
  <2>4. /\ \A s \in Sessions : wire'[s] = IF up /\ s = client THEN wire[s] \o q ELSE wire[s]
        /\ \A s \in Sessions : Elements(wire'[s]) \subseteq Elements(wire[s]) \cup Elements(q)
        /\ up => client \in Sessions
    <3>1. CASE client = NoClient
      BY <2>2, <3>1, Zenon
    <3>2. CASE client # NoClient
      <4>1. client \in Sessions
        BY <3>2, Zenon DEF PublishTypes
      <4> QED
        BY <2>2, <2>3, <3>2, <4>1, PublishAdds, ZenonT(60)
    <3> QED
      BY <3>1, <3>2, Zenon
  <2>5. IF client = NoClient THEN sent' = sent ELSE Elements(sent') = Elements(sent) \cup Elements(q)
    <3>1. Elements(sent \o q) = Elements(sent) \cup Elements(q)
      BY <2>3, SequenceFacts, Zenon DEF PublishTypes
    <3> QED
      BY <2>2, <3>1, Zenon
  <2>6. Elements(pending)' = {} /\ Published' \subseteq Published \cup Elements(pending)
    <3>1. Elements(pending)' = {}
      BY <2>1, SequenceFacts, Zenon
    <3>2. unconfirmed' \subseteq Published \cup Elements(pending)
      BY <2>1, Zenon DEF Published
    <3>3. Elements(sent)' \subseteq Published \cup Elements(pending)
      BY <2>3, <2>5, SMTT(30) DEF Published, Elements
    <3>4. \A s \in Sessions : Elements(wire'[s]) \subseteq Published \cup Elements(pending)
      BY <2>3, <2>4, ZenonT(30) DEF Published
    <3> QED
      BY <3>1, <3>2, <3>3, <3>4, Zenon DEF Published
  <2>7. Accepted' = Accepted /\ Entering' = Entering /\ Sending' \subseteq Sending
    BY Zenon DEF Accepted, Entering, Sending
  <2>8. NewInv' /\ AcceptedInv'
    BY <1>1, <2>6, <2>7, Zenon DEF PublishedInv, NewInv, AcceptedInv
  <2>9. OrderInv'
    <3> SUFFICES ASSUME InIdOrder PROVE (OrderInv!2)'
      BY Zenon DEF OrderInv, InIdOrder
    <3>1. OrderInv!2
      BY Zenon DEF PublishedInv, OrderInv
    <3>2. PublishedInOrder'
      <4>1. CASE client = NoClient
        BY <1>1, <2>2, <3>1, <4>1, Zenon DEF PublishedInOrder, InIdOrder
      <4>2. CASE client # NoClient
        <5>1. \A i, j \in DOMAIN q : i < j => id[q[i]] < id[q[j]]
          BY <2>3, <3>1, Zenon
        <5>2. \A i, j \in DOMAIN sent : i < j => id[sent[i]] < id[sent[j]]
          BY <3>1, Zenon DEF PublishedInOrder
        <5>3. \A m \in Elements(sent), n \in Elements(q) : id[m] < id[n]
          BY <2>3, <3>1, Zenon DEF Published
        <5>4. \A i, j \in DOMAIN (sent \o q) : i < j => id[(sent \o q)[i]] < id[(sent \o q)[j]]
          BY <2>3, <5>1, <5>2, <5>3, InOrderJoined, Zenon DEF PublishTypes
        <5> QED
          BY <1>1, <2>2, <4>2, <5>4, Zenon DEF PublishedInOrder
      <4> QED
        BY <4>1, <4>2, Zenon
    <3>3. DistinctIds' /\ \A m \in Msgs : id'[m] < next_id'
      BY <1>1, <3>1, Zenon DEF DistinctIds
    <3>4. /\ \A m \in Entering', n \in Msgs : m # n => id'[n] < id'[m]
          /\ \A m, n \in Sending' : m = n
      BY <1>1, <2>7, <3>1, Zenon
    <3>5. \A i, j \in DOMAIN pending' : i < j => id'[pending'[i]] < id'[pending'[j]]
      BY <2>1, SMTT(30)
    <3> QED
      BY <2>6, <3>2, <3>3, <3>4, <3>5, Zenon
  <2>10. FreshInv'
    <3>1. up => client <= nsess /\ taken["Reconnect"] # client
      BY <2>4, SMTT(30) DEF PublishedInv, FreshInv, PublishTypes
    <3>2. \A s \in Sessions : s > nsess \/ taken["Reconnect"] = s => ~(up /\ s = client)
      BY <2>4, <3>1, SMTT(30) DEF PublishTypes
    <3> QED
      BY <1>1, <2>4, <3>2, Zenon DEF PublishedInv, FreshInv
  <2>11. UnconfirmedWasSent'
    <3> SUFFICES ASSUME client # NoClient, ~FrameOverflow PROVE unconfirmed' \subseteq Elements(sent')
      BY <1>1, Zenon DEF UnconfirmedWasSent, Elements
    <3>1. unconfirmed \subseteq Elements(sent)
      BY Zenon DEF PublishedInv, UnconfirmedWasSent
    <3> QED
      BY <2>1, <2>3, <2>5, <3>1, Zenon
  <2>12. ASSUME Named, Reliable' PROVE (DedupInv!2)'
    <3>0. \A m \in Msgs : id[m] \in Int
      BY SMTT(30) DEF PublishTypes, Ids, NoId
    <3>1. InIdOrder /\ ~FrameOverflow /\ Reliable
      BY <1>1, <2>12, Zenon DEF Reliable, DistinctIds, InIdOrder
    <3>2. DedupInv!2 /\ OrderInv!2 /\ q = pending
      BY <2>3, <2>12, <3>1, Zenon DEF DedupInv, PublishedInv, OrderInv
    <3>3. last_seq' < next_id' /\ \A m \in Entering' \cup Elements(pending)' : last_seq' < id'[m]
      BY <1>1, <2>6, <2>7, <3>2, ZenonT(30)
    <3>4. \A u \in Elements(pending) : id[u] \in Int /\ last_seq \in Int /\ last_seq < id[u]
      BY <3>2, SequenceFacts, SMTT(30) DEF PublishTypes, Ids, NoId
    <3>5. \A u \in unconfirmed' : id'[u] <= last_seq' => stored'[u] > 0
      <4>1. \A u \in unconfirmed : id[u] <= last_seq => stored[u] > 0
        BY <3>2, Zenon
      <4>2. \A u \in Elements(pending) : ~(id[u] <= last_seq)
        BY <3>4, SMTT(30)
      <4> QED
        BY <1>1, <2>1, <4>1, <4>2, Zenon
    <3>6. \A s \in Sessions : Covers(wire[s])'
      <4> SUFFICES ASSUME NEW s \in Sessions PROVE Covers(wire[s])'
        OBVIOUS
      <4> DEFINE U == {u \in unconfirmed' : stored[u] = 0}
      <4>1. ASSUME NEW k \in DOMAIN wire[s], NEW u \in U, id[u] < id[wire[s][k]]
            PROVE  \E j \in 1 .. k - 1 : wire[s][j] = u
        <5>1. wire[s][k] \in Published /\ u \in Msgs /\ wire[s][k] \in Msgs
          <6>1. wire[s][k] \in Elements(wire[s])
            BY Zenon DEF Elements
          <6>2. Elements(wire[s]) \subseteq Msgs /\ Elements(pending) \subseteq Msgs /\ unconfirmed \subseteq Msgs
            BY SequenceFacts, ZenonT(30) DEF PublishTypes
          <6> QED
            BY <2>1, <6>1, <6>2, Zenon DEF Published
        <5>2. u \in E => id[wire[s][k]] < id[u]
          BY <2>1, <3>2, <5>1, Zenon
        <5>3. id[u] \in Int /\ id[wire[s][k]] \in Int
          BY <3>0, <5>1, Zenon
        <5>4. u \in unconfirmed
          <6>1. ~(id[wire[s][k]] < id[u])
            BY <4>1, <5>3, SMTT(30)
          <6> QED
            BY <2>1, <4>1, <5>2, <6>1, Zenon
        <5> QED
          BY <3>2, <4>1, <5>4, Zenon DEF Covers
      <4>2. CASE ~(up /\ s = client)
        <5>1. wire'[s] = wire[s]
          BY <2>4, <4>2, Zenon
        <5>2. \A k \in DOMAIN wire[s], u \in unconfirmed' :
                 stored'[u] = 0 /\ id'[u] < id'[wire[s][k]] => \E j \in 1 .. k - 1 : wire[s][j] = u
          BY <1>1, <4>1, Zenon
        <5> QED
          BY <5>1, <5>2, CoversKept, Zenon
      <4>3. CASE up /\ s = client
        <5>1. wire'[s] = wire[s] \o pending /\ wire[s] \in Seq(Msgs) /\ pending \in Seq(Msgs) /\ id \in [Msgs -> Ids]
          BY <2>4, <3>2, <4>3, Zenon DEF PublishTypes
        <5>2. U \subseteq Elements(wire[s]) \cup Elements(pending)
          BY <2>1, <3>2, <4>3, Zenon
        <5>3. \A i, j \in DOMAIN pending : i < j => id[pending[i]] < id[pending[j]]
          BY <3>2, Zenon
        <5>4. Precede(U, wire[s])
          BY <4>1, Zenon DEF Precede
        <5> HIDE DEF U
        <5>5. Precede(U, wire[s] \o pending)
          BY <5>1, <5>2, <5>3, <5>4, CoversJoined, Zenon
        <5>6. Precede(U, wire'[s])
          BY <5>1, <5>5, Zenon
        <5>7. id' = id /\ stored' = stored
          BY <1>1, Zenon
        <5> QED
          BY <5>6, <5>7, Zenon DEF U, Covers, Precede
      <4> QED
        BY <4>2, <4>3, Zenon
    <3>7. client' # NoClient /\ sess'[client'] = "up" =>
              \A u \in unconfirmed' : stored'[u] = 0 => u \in Elements(wire[client])'
      <4>1. up => wire'[client] = wire[client] \o pending /\ wire[client] \in Seq(Msgs)
        BY <2>4, <3>2, Zenon DEF PublishTypes
      <4>2. up => Elements(wire'[client]) = Elements(wire[client]) \cup Elements(pending)
        <5>1. pending \in Seq(Msgs)
          BY Zenon DEF PublishTypes
        <5>2. up => Elements(wire[client] \o pending) = Elements(wire[client]) \cup Elements(pending)
          BY <4>1, <5>1, SequenceFacts, ZenonT(30)
        <5> QED
          BY <4>1, <5>2, Zenon
      <4>3. up => \A u \in unconfirmed \cup E : stored[u] = 0 => u \in Elements(wire'[client])
        BY <2>1, <3>2, <4>2, Zenon
      <4> QED
        BY <1>1, <2>1, <4>3, Zenon DEF Elements
    <3> QED
      BY <3>3, <3>5, <3>6, <3>7, Zenon
  <2> QED
    BY <2>8, <2>9, <2>10, <2>11, <2>12, Zenon DEF PublishedInv, DedupInv
<1> QED
  BY <1>2, <1>3, Zenon
\* The broker takes the next message; for a named producer, and as long as all
\* goes well, the messages with lower ids have been stored before it.
LEMMA BrokerStoresPublished ==
    ASSUME PublishTypes, PublishTypes', PublishedInv, DedupInv, AnswerInv, NEW s \in Sessions, BrokerStores(s)
    PROVE  PublishedInv' /\ DedupInv' /\ AnswerInv'
<1> DEFINE h == Head(wire[s])
           fresh == ~Named \/ id[h] > last_seq
<1>1. /\ wire[s] # <<>>
      /\ stored' = IF fresh THEN [stored EXCEPT ![h] = @ + 1] ELSE stored
      /\ last_seq' = IF fresh /\ Named THEN id[h] ELSE last_seq
      /\ inbox' = [inbox EXCEPT ![s] = Append(@, [id |-> id[h], ok |-> TRUE])]
      /\ \A r \in Sessions : wire'[r] = IF r = s THEN Tail(wire[r]) ELSE wire[r]
      /\ UNCHANGED <<starting, next_id, id, pc, pending, unconfirmed, client, frame, sent, sess, nsess, taken, result>>
  BY Zenon DEF BrokerStores, PublishTypes
<1>2. /\ wire[s] \in Seq(Msgs) /\ h \in Msgs /\ Elements(wire[s]) = Elements(Tail(wire[s])) \cup {h}
      /\ h \in Published /\ h \in Accepted
  <2>1. wire[s] \in Seq(Msgs)
    BY ZenonT(30) DEF PublishTypes
  <2>2. h \in Msgs
    BY <1>1, <2>1, SequenceFacts, Zenon
  <2>3. Elements(wire[s]) = Elements(Tail(wire[s])) \cup {h}
    BY <1>1, <2>1, SequenceFacts, ZenonT(30)
  <2> QED
    BY <2>1, <2>2, <2>3, Zenon DEF Published, PublishedInv, AcceptedInv
<1>3. /\ \A m \in Msgs : id[m] \in Int
      /\ last_seq \in Int /\ last_seq' \in Int /\ last_seq <= last_seq'
      /\ Named => id[h] <= last_seq' /\ (last_seq' = last_seq \/ last_seq' = id[h])
  <2>1. (\A m \in Msgs : id[m] \in Int) /\ last_seq \in Int /\ last_seq' \in Int
    <3>1. id \in [Msgs -> Ids] /\ last_seq \in Ids /\ last_seq' \in Ids
      BY Zenon DEF PublishTypes
    <3> QED
      BY <3>1, SMTT(30) DEF Ids, NoId
  <2>2. id[h] \in Int
    BY <1>2, <2>1, ZenonT(30)
  <2> QED
    BY <1>1, <2>1, <2>2, SMTT(30)
<1>4. /\ \A m \in Msgs : stored[m] \in Nat /\ (stored[m] > 0 => stored'[m] > 0) /\ stored'[m] >= stored[m]
      /\ fresh => stored'[h] > 0
  <2>1. stored \in [Msgs -> Nat]
    BY Zenon DEF PublishTypes
  <2> QED
    BY <1>1, <1>2, <2>1, SMTT(30)
<1>5. PublishesNothing /\ OpensNothing
  BY <1>1, <1>2, ZenonT(60) DEF PublishesNothing, OpensNothing, Elements
<1>6. PublishedInv'
  BY <1>5, NothingPublished, NothingOpened, Zenon DEF PublishedInv
<1>7. ASSUME NEW i \in Answered' PROVE i \in Answered \/ Confirmed(i)'
  <2>1. CASE i = id[h]
    BY <1>1, <1>2, <1>3, <1>4, <2>1, Zenon DEF Confirmed, Accepted
  <2>2. CASE i # id[h]
    <3>1. PICK r \in Sessions : \/ \E k \in DOMAIN inbox'[r] : inbox'[r][k].ok /\ inbox'[r][k].id = i
                                \/ frame[r].ok /\ frame[r].id = i
      BY <1>1, <1>7, Zenon DEF Answered
    <3>2. ASSUME NEW k \in DOMAIN inbox'[r], inbox'[r][k].ok, inbox'[r][k].id = i PROVE i \in Answered
      <4>1. inbox[r] \in Seq([id : Ids, ok : BOOLEAN])
        BY Zenon DEF PublishTypes
      <4>2. inbox'[r] = IF r = s THEN Append(inbox[r], [id |-> id[h], ok |-> TRUE]) ELSE inbox[r]
        BY <1>1, Zenon DEF PublishTypes
      <4>3. k \in DOMAIN inbox[r] /\ inbox'[r][k] = inbox[r][k]
        <5>1. CASE r # s
          BY <4>2, <5>1, Zenon
        <5>2. CASE r = s
          <6>1. inbox'[r] = Append(inbox[r], [id |-> id[h], ok |-> TRUE])
            BY <4>2, <5>2, Zenon
          <6>2. k \in DOMAIN inbox[r] \/ inbox'[r][k] = [id |-> id[h], ok |-> TRUE]
            BY <4>1, <6>1, SMTT(30)
          <6>3. k \in DOMAIN inbox[r]
            BY <2>2, <3>2, <6>2, SMTT(30)
          <6> QED
            BY <4>1, <6>1, <6>3, SMTT(30)
        <5> QED
          BY <5>1, <5>2, Zenon
      <4> QED
        BY <1>7, <3>2, <4>3, Zenon DEF Answered
    <3> QED
      BY <1>7, <3>1, <3>2, Zenon DEF Answered
  <2> QED
    BY <2>1, <2>2, Zenon
<1>8. AnswerInv'
  <2>1. Confirming' = Confirming /\ ToldOk' = ToldOk
    BY <1>1, Zenon DEF Confirming, ToldOk
  <2> QED
    BY <1>1, <1>3, <1>4, <1>7, <2>1, AnswersStay, Zenon DEF PublishedInv
<1>9. ASSUME Named, Reliable' PROVE (DedupInv!2)'
  <2>1. InIdOrder /\ ~FrameOverflow /\ Reliable
    BY <1>1, <1>9, Zenon DEF Reliable, DistinctIds, InIdOrder
  <2>2. DedupInv!2 /\ OrderInv!2
    BY <1>9, <2>1, Zenon DEF DedupInv, PublishedInv, OrderInv
  <2>3. last_seq' < next_id' /\ \A m \in Entering' \cup Elements(pending)' : last_seq' < id'[m]
    <3>1. UNCHANGED <<Entering, Elements(pending)>> /\ h \notin Entering
      BY <1>1, <1>2, Zenon DEF Entering, Accepted, Elements
    <3>2. id[h] < next_id /\ \A m \in Entering \cup Elements(pending) : id[h] < id[m]
      <4>1. \A m \in Entering : m # h
        BY <3>1, Zenon
      <4> QED
        BY <1>2, <2>2, <4>1, Zenon
    <3> QED
      BY <1>1, <1>3, <1>9, <2>2, <3>1, <3>2, Zenon
  <2>4. \A u \in unconfirmed' : id'[u] <= last_seq' => stored'[u] > 0
    <3> SUFFICES ASSUME NEW u \in unconfirmed, id[u] <= last_seq' PROVE stored'[u] > 0
      BY <1>1, Zenon
    <3>1. u \in Msgs /\ id[u] \in Int /\ id[h] \in Int
      BY <1>2, <1>3, Zenon DEF PublishTypes
    <3>2. CASE id[u] <= last_seq
      BY <1>4, <2>2, <3>1, <3>2, Zenon
    <3>3. CASE ~(id[u] <= last_seq)
      <4>1. last_seq' = id[h] /\ id[h] > last_seq /\ id[u] <= id[h] /\ fresh
        BY <1>1, <1>3, <1>9, <3>1, <3>3, Zenon
      <4>2. CASE u = h
        BY <1>4, <4>1, <4>2, Zenon
      <4>3. CASE u # h
        <5>1. id[u] # id[h]
          BY <1>2, <2>1, <3>1, <4>3, Zenon DEF Reliable, DistinctIds, PublishedInv, NewInv, Accepted
        <5>2. id[u] < id[h]
          BY <3>1, <4>1, <5>1, SMTT(30)
        <5>3. 1 \in DOMAIN wire[s] /\ wire[s][1] = h
          <6>1. wire[s] # <<>> /\ wire[s] \in Seq(Msgs)
            BY <1>1, <1>2, Zenon
          <6> QED
            BY <6>1, SMTT(30)
        <5>4. stored[u] # 0
          <6>1. 1 .. 1 - 1 = {}
            OBVIOUS
          <6> QED
            BY <2>2, <5>2, <5>3, <6>1, ZenonT(60) DEF Covers
        <5> QED
          BY <1>4, <3>1, <5>4, SMTT(30)
      <4> QED
        BY <4>2, <4>3, Zenon
    <3> QED
      BY <3>2, <3>3, Zenon
  <2>5. \A u \in unconfirmed : stored'[u] = 0 => stored[u] = 0 /\ u # h
    <3>1. stored'[h] > 0 \/ h \notin unconfirmed
      BY <1>3, <1>9, <2>4, <1>1, Zenon
    <3>2. \A u \in unconfirmed : u \in Msgs
      BY Zenon DEF PublishTypes
    <3> QED
      BY <1>4, <3>1, <3>2, SMTT(30)
  <2>6. \A r \in Sessions : Covers(wire[r])'
    <3> SUFFICES ASSUME NEW r \in Sessions, NEW k \in DOMAIN wire'[r], NEW u \in unconfirmed,
                        stored'[u] = 0, id[u] < id[wire'[r][k]]
                 PROVE  \E j \in 1 .. k - 1 : wire'[r][j] = u
      BY <1>1, ZenonT(30) DEF Covers
    <3>1. CASE r # s
      <4>1. wire'[r] = wire[r] /\ Covers(wire[r]) /\ stored[u] = 0
        BY <1>1, <2>2, <2>5, <3>1, Zenon
      <4>2. k \in DOMAIN wire[r] /\ id[u] < id[wire[r][k]]
        BY <4>1, Zenon
      <4>3. \E j \in 1 .. k - 1 : wire[r][j] = u
        BY <4>1, <4>2, Zenon DEF Covers
      <4> QED
        BY <4>1, <4>3, Zenon
    <3>2. CASE r = s
      <4>1. /\ k + 1 \in DOMAIN wire[s] /\ wire'[r][k] = wire[s][k + 1] /\ wire[s][1] = h /\ k \in Nat
            /\ \A j \in 1 .. k : j # 1 => j - 1 \in 1 .. k - 1 /\ wire'[r][j - 1] = wire[s][j]
        <5>1. wire'[r] = Tail(wire[s])
          BY <1>1, <3>2, ZenonT(30)
        <5>2. wire[s] # <<>> /\ wire[s] \in Seq(Msgs)
          BY <1>1, <1>2, Zenon
        <5> QED
          BY <5>1, <5>2, SMTT(30)
      <4>2. PICK j \in 1 .. (k + 1) - 1 : wire[s][j] = u
        <5>1. Covers(wire[s]) /\ stored[u] = 0 /\ id[u] < id[wire[s][k + 1]]
          BY <2>2, <2>5, <4>1, Zenon
        <5> QED
          BY <4>1, <5>1, Zenon DEF Covers
      <4>3. j \in 1 .. k /\ j # 1
        BY <2>5, <4>1, <4>2, SMTT(30)
      <4> QED
        BY <4>1, <4>2, <4>3, ZenonT(30)
    <3> QED
      BY <3>1, <3>2, Zenon
  <2>7. client' # NoClient /\ sess'[client'] = "up" =>
            \A u \in unconfirmed' : stored'[u] = 0 => u \in Elements(wire[client])'
    <3>1. \A r \in Sessions, u \in unconfirmed : stored'[u] = 0 /\ u \in Elements(wire[r]) => u \in Elements(wire'[r])
      BY <1>1, <1>2, <2>5, Zenon
    <3>2. client # NoClient => client \in Sessions
      BY Zenon DEF PublishTypes
    <3>3. client # NoClient /\ sess[client] = "up" => \A u \in unconfirmed : stored'[u] = 0 => u \in Elements(wire'[client])
      BY <2>2, <2>5, <3>1, <3>2, Zenon
    <3> QED
      BY <1>1, <3>3, Zenon DEF Elements
  <2> QED
    BY <2>3, <2>4, <2>6, <2>7, Zenon
<1> QED
  BY <1>6, <1>8, <1>9, Zenon DEF DedupInv
\* The broker refuses the next message, which a named producer is not to meet.
LEMMA BrokerRefusesPublished ==
    ASSUME PublishTypes, PublishTypes', PublishedInv, DedupInv, AnswerInv, NEW s \in Sessions, BrokerRefuses(s)
    PROVE  PublishedInv' /\ DedupInv' /\ AnswerInv'
<1>1. /\ wire[s] # <<>> /\ MayRefuse
      /\ inbox' = [inbox EXCEPT ![s] = Append(@, [id |-> id[Head(wire[s])], ok |-> FALSE])]
      /\ \A r \in Sessions : wire'[r] = IF r = s THEN Tail(wire[r]) ELSE wire[r]
      /\ UNCHANGED <<starting, next_id, id, pc, pending, unconfirmed, client, frame, sent, sess, nsess, taken, result,
                     stored, last_seq>>
  BY Zenon DEF BrokerRefuses, PublishTypes
<1>2. wire[s] \in Seq(Msgs) /\ Elements(Tail(wire[s])) \subseteq Elements(wire[s])
  <2>1. wire[s] \in Seq(Msgs)
    BY Zenon DEF PublishTypes
  <2> QED
    BY <1>1, <2>1, SequenceFacts, SMTT(30)
<1>3. PublishesNothing /\ OpensNothing
  BY <1>1, <1>2, ZenonT(60) DEF PublishesNothing, OpensNothing, Elements
<1>4. PublishedInv'
  BY <1>3, NothingPublished, NothingOpened, Zenon DEF PublishedInv
<1>5. DedupInv'
  BY <1>1, Zenon DEF DedupInv, Reliable
<1>6. Answered' \subseteq Answered
  <2> SUFFICES ASSUME NEW r \in Sessions, NEW k \in DOMAIN inbox'[r], inbox'[r][k].ok
               PROVE  k \in DOMAIN inbox[r] /\ inbox'[r][k] = inbox[r][k]
    BY <1>1, SMTT(30) DEF Answered
  <2>1. inbox[r] \in Seq([id : Ids, ok : BOOLEAN])
    BY Zenon DEF PublishTypes
  <2>2. CASE r # s
    BY <1>1, <2>2, Zenon DEF PublishTypes
  <2>3. CASE r = s
    <3>1. inbox'[r] = Append(inbox[r], [id |-> id[Head(wire[s])], ok |-> FALSE])
      BY <1>1, <2>3, Zenon DEF PublishTypes
    <3>2. k \in DOMAIN inbox[r] \/ inbox'[r][k] = [id |-> id[Head(wire[s])], ok |-> FALSE]
      BY <2>1, <3>1, SMTT(30)
    <3>3. k \in DOMAIN inbox[r]
      BY <3>2, SMTT(30)
    <3> QED
      BY <2>1, <3>1, <3>3, SMTT(30)
  <2> QED
    BY <2>2, <2>3, Zenon
<1>7. AnswerInv'
  <2>1. Confirming' = Confirming /\ ToldOk' = ToldOk
    BY <1>1, Zenon DEF Confirming, ToldOk
  <2>2. last_seq <= last_seq'
    BY <1>1, SMTT(30) DEF PublishTypes, Ids, NoId
  <2> QED
    BY <1>1, <1>6, <2>1, <2>2, AnswersStay, Zenon DEF PublishedInv
<1> QED
  BY <1>4, <1>5, <1>7, Zenon

\* Most steps have nothing to do with answers, except that those of a session
\* may be lost with it.
AnswersNothing ==
    /\ UNCHANGED <<id, pc, frame, stored, last_seq>>
    /\ \A s \in Sessions : inbox'[s] \in {inbox[s], <<>>}
    /\ ToldOk' \subseteq ToldOk

\* Such a step makes no answer untrue.
LEMMA NothingAnswered ==
    ASSUME PublishTypes, PublishTypes', NewInv, AnswerInv, AnswersNothing
    PROVE  AnswerInv'
<1>1. Answered' \subseteq Answered
  <2>1. \A s \in Sessions : \A k \in DOMAIN inbox'[s] : k \in DOMAIN inbox[s] /\ inbox'[s][k] = inbox[s][k]
    BY SMTT(30) DEF AnswersNothing
  <2> QED
    BY <2>1, SMTT(30) DEF Answered, AnswersNothing
<1>2. Confirming' = Confirming /\ last_seq <= last_seq'
  <2>1. last_seq <= last_seq
    BY SMTT(30) DEF PublishTypes, Ids, NoId
  <2> QED
    BY <2>1, Zenon DEF Confirming, AnswersNothing
<1> QED
  BY <1>1, <1>2, AnswersStay, Zenon DEF AnswersNothing

\* A positive answer for id i is among answers q or at frame f.
HasAnswer(q, f, i) == (\E k \in DOMAIN q : q[k].ok /\ q[k].id = i) \/ (f.ok /\ f.id = i)

\* Where an answer is, before and after a step.
LEMMA AnswersIn ==
    ASSUME NEW i
    PROVE  /\ i \in Answered <=> i \in Ids /\ \E s \in Sessions : HasAnswer(inbox[s], frame[s], i)
           /\ i \in Answered' <=> i \in Ids /\ \E s \in Sessions : HasAnswer(inbox'[s], frame'[s], i)
<1>1. i \in Answered <=> i \in Ids /\ \E s \in Sessions : HasAnswer(inbox[s], frame[s], i)
  BY DEF Answered, HasAnswer
<1>2. i \in Answered' <=> i \in Ids /\ \E s \in Sessions : HasAnswer(inbox'[s], frame'[s], i)
  <2>1. Answered' = {j \in Ids : \E s \in Sessions : \/ \E k \in DOMAIN inbox'[s] : inbox'[s][k].ok /\ inbox'[s][k].id = j
                                                     \/ frame'[s].ok /\ frame'[s].id = j}
    BY Zenon DEF Answered
  <2>2. Answered' = {j \in Ids : \E s \in Sessions : HasAnswer(inbox'[s], frame'[s], j)}
    BY <2>1, Zenon DEF HasAnswer
  <2> QED
    BY <2>2, Zenon
<1> QED
  BY <1>1, <1>2, Zenon

\* The answers on their way to the confirmation handler.
LEMMA FrameAnswers ==
    ASSUME PublishTypes, PublishTypes', PublishedInv, DedupInv, AnswerInv, NEW s \in Sessions,
           ReadAnswer(s) \/ HandleAnswer(s) \/ CallHandler(s)
    PROVE  AnswerInv'
<1>0. /\ UNCHANGED <<id, pc, stored, last_seq>> /\ last_seq <= last_seq'
      /\ \A r \in Sessions : r # s => frame'[r] = frame[r] /\ inbox'[r] = inbox[r]
      /\ inbox[s] \in Seq([id : Ids, ok : BOOLEAN]) /\ frame[s] \in [id : Ids, ok : BOOLEAN, msg : Msgs \cup {NoMsg}]
      /\ NoFrame.ok = FALSE
  <2>1. last_seq <= last_seq
    BY SMTT(30) DEF PublishTypes, Ids, NoId
  <2>2. UNCHANGED <<id, pc, stored, last_seq>>
    BY Zenon DEF ReadAnswer, HandleAnswer, CallHandler
  <2>3. \A r \in Sessions : r # s => frame'[r] = frame[r] /\ inbox'[r] = inbox[r]
    BY Zenon DEF ReadAnswer, HandleAnswer, CallHandler, PublishTypes
  <2> QED
    BY <2>1, <2>2, <2>3, Zenon DEF PublishTypes, NoFrame
<1>1. CASE ReadAnswer(s)
  <2>1. /\ inbox[s] # <<>> /\ inbox'[s] = Tail(inbox[s]) /\ UNCHANGED result
        /\ frame'[s] = [id |-> inbox[s][1].id, ok |-> inbox[s][1].ok, msg |-> NoMsg]
    <3>0. inbox[s] \in Seq([id : Ids, ok : BOOLEAN])
      BY <1>0, Zenon
    <3>1. inbox[s] # <<>> => Head(inbox[s]) = inbox[s][1]
      BY <3>0, SMTT(30)
    <3> QED
      BY <1>1, <3>1, Zenon DEF ReadAnswer, PublishTypes
  <2>2. 1 \in DOMAIN inbox[s] /\ \A k \in DOMAIN inbox'[s] : k + 1 \in DOMAIN inbox[s] /\ inbox'[s][k] = inbox[s][k + 1]
    <3>1. inbox[s] \in Seq([id : Ids, ok : BOOLEAN]) /\ inbox[s] # <<>> /\ inbox'[s] = Tail(inbox[s])
      BY <1>0, <2>1, Zenon
    <3> QED
      BY <3>1, SMTT(30)
  <2>3. frame'[s].id = inbox[s][1].id /\ frame'[s].ok = inbox[s][1].ok /\ frame'[s].msg \notin Msgs
    <3>1. NoMsg \notin Msgs
      BY MsgsAssumption, Zenon
    <3>2. frame'[s] = [id |-> inbox[s][1].id, ok |-> inbox[s][1].ok, msg |-> NoMsg]
      BY <2>1, ZenonT(60)
    <3> QED
      BY <3>1, <3>2, SMTT(30)
  <2>4. Answered' \subseteq Answered
    <3>1. ASSUME NEW i, NEW r \in Sessions, HasAnswer(inbox'[r], frame'[r], i) PROVE HasAnswer(inbox[r], frame[r], i)
      <4>1. CASE r # s
        BY <1>0, <3>1, <4>1, Zenon
      <4>2. CASE r = s
        <5>1. CASE \E k \in DOMAIN inbox'[s] : inbox'[s][k].ok /\ inbox'[s][k].id = i
          BY <2>2, <4>2, <5>1, Zenon DEF HasAnswer
        <5>2. CASE frame'[s].ok /\ frame'[s].id = i
          <6>1. 1 \in DOMAIN inbox[s]
            BY <2>2, Zenon
          <6>2. inbox[s][1].ok /\ inbox[s][1].id = i
            BY <2>3, <5>2, Zenon
          <6> QED
            BY <4>2, <6>1, <6>2, Zenon DEF HasAnswer
        <5> QED
          BY <3>1, <4>2, <5>1, <5>2, Zenon DEF HasAnswer
      <4> QED
        BY <4>1, <4>2, Zenon
    <3> QED
      BY <3>1, AnswersIn, Zenon
  <2>5. Confirming' \subseteq Confirming /\ ToldOk' = ToldOk
    BY <1>0, <2>1, <2>3, Zenon DEF Confirming, ToldOk
  <2> QED
    BY <1>0, <2>4, <2>5, AnswersStay, Zenon DEF PublishedInv
<1>2. CASE CallHandler(s)
  <2>1. frame'[s] = NoFrame /\ inbox' = inbox /\ Call({frame[s].msg}, AnswerCode(frame[s].ok))
    BY <1>2, Zenon DEF CallHandler, PublishTypes
  <2>2. Answered' \subseteq Answered /\ Confirming' \subseteq Confirming
    BY <1>0, <2>1, Zenon DEF Answered, Confirming
  <2>3. ToldOk' \subseteq ToldOk \cup Confirming
    <3> SUFFICES ASSUME NEW m \in Msgs, result'[m] = "Ok" PROVE m \in ToldOk \cup Confirming
      BY Zenon DEF ToldOk
    <3>1. result'[m] = IF m = frame[s].msg THEN AnswerCode(frame[s].ok) ELSE result[m]
      BY <2>1, Zenon DEF Call
    <3>2. m = frame[s].msg => frame[s].ok
      BY <3>1, Zenon DEF AnswerCode
    <3> QED
      BY <3>1, <3>2, Zenon DEF ToldOk, Confirming
  <2> QED
    BY <1>0, <2>2, <2>3, AnswersStay, Zenon DEF PublishedInv
<1>3. CASE HandleAnswer(s)
  <2>1. UNCHANGED <<inbox, result>>
    BY <1>3, Zenon DEF HandleAnswer
  <2>2. CASE frame'[s] = NoFrame
    <3>1. Answered' \subseteq Answered /\ Confirming' \subseteq Confirming /\ ToldOk' = ToldOk
      BY <1>0, <2>1, <2>2, Zenon DEF Answered, Confirming, ToldOk
    <3> QED
      BY <1>0, <3>1, AnswersStay, Zenon DEF PublishedInv
  <2>3. CASE frame'[s] # NoFrame
    <3>1. PICK m \in unconfirmed : id[m] = frame[s].id /\ frame' = [frame EXCEPT ![s].msg = m]
      BY <1>3, <2>3, Zenon DEF HandleAnswer, PublishTypes
    <3>2. frame'[s].id = frame[s].id /\ frame'[s].ok = frame[s].ok /\ frame'[s].msg = m
      <4>1. frame \in [Sessions -> [id : Ids, ok : BOOLEAN, msg : Msgs \cup {NoMsg}]]
        BY ZenonT(60) DEF PublishTypes
      <4> QED
        BY <3>1, <4>1, Zenon
    <3>3. Answered' = Answered /\ ToldOk' = ToldOk
      <4>1. \A r \in Sessions : inbox'[r] = inbox[r] /\ frame'[r].ok = frame[r].ok /\ frame'[r].id = frame[r].id
        BY <1>0, <2>1, <3>2, Zenon
      <4>2. ASSUME NEW i, NEW r \in Sessions PROVE HasAnswer(inbox'[r], frame'[r], i) <=> HasAnswer(inbox[r], frame[r], i)
        BY <4>1, Zenon DEF HasAnswer
      <4>3. \A i : i \in Answered' <=> i \in Answered
        BY <4>2, AnswersIn, Zenon
      <4> QED
        BY <2>1, <4>3, Zenon DEF ToldOk
    <3>4. ASSUME Reliable, frame[s].ok PROVE stored[m] > 0
      <4>1. frame[s].id \in Answered /\ m \in Msgs
        BY <1>0, <3>4, Zenon DEF Answered, PublishTypes
      <4>2. Confirmed(id[m])
        BY <3>1, <3>4, <4>1, Zenon DEF AnswerInv
      <4>3. CASE Named
        BY <3>4, <4>2, <4>3, Zenon DEF Confirmed, DedupInv
      <4>4. CASE ~Named
        <5>1. PICK n \in Msgs : pc[n] # "new" /\ id[n] = id[m] /\ stored[n] > 0
          BY <4>2, <4>4, Zenon DEF Confirmed
        <5>2. n = m
          BY <3>4, <4>1, <5>1, Zenon DEF Reliable, DistinctIds, PublishedInv, NewInv
        <5> QED
          BY <5>1, <5>2, Zenon
      <4> QED
        BY <4>3, <4>4, Zenon
    <3>5. Reliable => \A n \in Confirming' : n \in Confirming \/ stored'[n] > 0
      BY <1>0, <3>2, <3>4, Zenon DEF Confirming
    <3> QED
      BY <1>0, <3>3, <3>5, AnswersStay, Zenon DEF PublishedInv
  <2> QED
    BY <2>2, <2>3, Zenon
<1> QED
  BY <1>1, <1>2, <1>3, Zenon
\* start(): nothing has been sent yet.
LEMMA StartPublished ==
    ASSUME PublishTypes, PublishTypes', PublishedInv, DedupInv, StartConnect \/ StartDeclare,
           StartConnect => \A s \in Sessions : sess[s] = "none"
    PROVE  PublishedInv' /\ DedupInv'
<1>1. /\ starting # "done" /\ UNCHANGED <<id, pc, pending, sent, wire, unconfirmed, taken, stored, last_seq>>
      /\ starting' # "done"
  BY Zenon DEF StartConnect, StartDeclare
<1>2. /\ \A m \in Msgs : pc[m] = "new" /\ id[m] = NoId
      /\ Accepted = {} /\ Entering = {} /\ Sending = {} /\ Elements(pending) = {} /\ Published = {}
  <2>1. \A m \in Msgs : pc[m] = "new" /\ id[m] = NoId
    BY <1>1, Zenon DEF PublishedInv, NewInv
  <2>2. Accepted = {} /\ Entering = {} /\ Sending = {}
    BY <2>1, Zenon DEF Accepted, Entering, Sending
  <2> QED
    BY <2>1, <2>2, Zenon DEF PublishedInv, AcceptedInv
<1>3. unconfirmed = {} /\ DOMAIN sent = {} /\ DOMAIN pending = {} /\ \A s \in Sessions : DOMAIN wire[s] = {} /\ wire[s] = <<>>
  <2>1. unconfirmed = {} /\ DOMAIN sent = {} /\ DOMAIN pending = {}
    BY <1>2, ZenonT(60) DEF Published, Elements
  <2>2. \A s \in Sessions : DOMAIN wire[s] = {} /\ wire[s] \in Seq(Msgs)
    <3>1. \A s \in Sessions : Elements(wire[s]) = {}
      BY <1>2, Zenon DEF Published
    <3>2. \A q : Elements(q) = {} => DOMAIN q = {}
      BY Zenon DEF Elements
    <3> QED
      BY <3>1, <3>2, Zenon DEF PublishTypes
  <2>3. \A q \in Seq(Msgs) : q # <<>> => 1 \in DOMAIN q
    OBVIOUS
  <2> QED
    BY <2>1, <2>2, <2>3, Zenon
<1>4. UNCHANGED <<Accepted, Entering, Sending, Elements(pending), Published>>
  BY <1>1, SMTT(30) DEF Accepted, Entering, Sending, Elements, Published
<1>5. next_id' \in Nat /\ NoId < next_id' /\ (Named => last_seq' < next_id' \/ ~(last_seq < next_id))
  <2>1. CASE StartConnect
    BY <2>1, SMTT(30) DEF StartConnect, PublishTypes, NoId, Ids
  <2>2. CASE StartDeclare
    <3>1. next_id' = next_id \/ next_id' = IF Named /\ last_seq # NoId THEN last_seq + 1 ELSE 0
      BY <2>2, Zenon DEF StartDeclare
    <3>2. next_id \in Nat /\ last_seq \in Nat \cup {-1} /\ last_seq' = last_seq
      BY <1>1, Zenon DEF PublishTypes, Ids, NoId
    <3> QED
      BY <3>1, <3>2, SMTT(30) DEF NoId
  <2> QED
    BY <2>1, <2>2, ZenonT(30)
<1>6. NewInv' /\ AcceptedInv' /\ UnconfirmedWasSent'
  BY <1>1, <1>2, <1>3, <1>4, Zenon DEF PublishedInv, NewInv, AcceptedInv, UnconfirmedWasSent
<1>7. OrderInv'
  BY <1>1, <1>2, <1>3, <1>4, <1>5, Zenon DEF OrderInv, DistinctIds, PublishedInOrder, InIdOrder
<1>8. FreshInv'
  <2>1. CASE StartDeclare
    BY <1>1, <2>1, Zenon DEF PublishedInv, FreshInv, StartDeclare
  <2>2. CASE StartConnect
    <3>1. nsess' = 1 /\ \A s \in Sessions : s # 1 => sess'[s] = "none"
      BY <2>2, Zenon DEF StartConnect, PublishTypes
    <3>2. \A s \in Sessions : s > nsess' => sess'[s] = "none"
      BY <3>1, SMTT(30) DEF PublishTypes
    <3> QED
      BY <1>1, <1>3, <3>2, Zenon DEF FreshInv
  <2> QED
    BY <2>1, <2>2, Zenon
<1>9. DedupInv'
  <2> SUFFICES ASSUME Named, Reliable' PROVE (DedupInv!2)'
    BY Zenon DEF DedupInv
  <2>1. last_seq < next_id
    BY <1>1, Zenon DEF DedupInv, Reliable, DistinctIds
  <2>2. \A s \in Sessions : Covers(wire[s])'
    BY <1>1, <1>3, Zenon DEF Covers
  <2> QED
    BY <1>1, <1>2, <1>3, <1>4, <1>5, <2>1, <2>2, Zenon
<1> QED
  BY <1>6, <1>7, <1>8, <1>9, Zenon DEF PublishedInv

\* A new connection, which nothing has been sent through.
LEMMA ConnectPublished ==
    ASSUME PublishTypes, PublishTypes', PublishedInv, DedupInv, ReconnectConnect, client = NoClient
    PROVE  PublishedInv' /\ DedupInv'
<1>1. /\ UNCHANGED <<starting, next_id, id, pc, pending, sent, wire, unconfirmed, client, stored, last_seq>>
      /\ nsess' = nsess + 1 /\ sess' = [sess EXCEPT ![nsess'] = "up"] /\ taken'["Reconnect"] = nsess'
  BY Zenon DEF ReconnectConnect, PublishTypes
<1>2. PublishesNothing /\ StoresNothing
  BY <1>1, Zenon DEF PublishesNothing, StoresNothing, Elements
<1>3. FreshInv'
  <2>0. /\ nsess \in Nat /\ Sessions \subseteq Nat /\ sess \in [Sessions -> SessionStates]
        /\ nsess' = nsess + 1 /\ sess' = [sess EXCEPT ![nsess'] = "up"] /\ taken'["Reconnect"] = nsess'
    BY <1>1, Zenon DEF PublishTypes
  <2>1. \A s \in Sessions : s > nsess' => s > nsess /\ sess'[s] = sess[s]
    BY <2>0, SMTT(30)
  <2>2. \A s \in Sessions : taken'["Reconnect"] = s => s > nsess
    BY <2>0, SMTT(30)
  <2> QED
    BY <1>1, <2>1, <2>2, ZenonT(30) DEF PublishedInv, FreshInv
<1> QED
  BY <1>2, <1>3, NothingPublished, NothingStored, Zenon DEF PublishedInv

\* reconnect_to_server() resends m_unconfirmed in the order of the ids.
InResentOrder(q) ==
    /\ q \in Seq(Msgs) /\ Elements(q) = unconfirmed
    /\ \A i, j \in DOMAIN q : i < j => id[q[i]] < id[q[j]]

\* The new client carries all of it, behind nothing else.
LEMMA InstallPublished ==
    ASSUME PublishTypes, PublishTypes', PublishedInv, DedupInv, ReconnectInstall, status = "Started",
           taken["Reconnect"] \in Sessions, \A q \in Resent : InResentOrder(q)
    PROVE  PublishedInv' /\ DedupInv'
<1> DEFINE c  == taken["Reconnect"]
           up == sess[c] = "up"
<1>1. /\ UNCHANGED <<starting, next_id, id, pc, pending, unconfirmed, sess, nsess, stored, last_seq>>
      /\ client' = c /\ taken'["Reconnect"] = NoClient
  BY Zenon DEF ReconnectInstall, PublishTypes
<1>2. PICK q \in Resent : sent' = q /\ Publish(c, q)
  BY Zenon DEF ReconnectInstall
<1>3. InResentOrder(q)
  BY <1>2, Zenon
<1>4. /\ \A s \in Sessions : wire'[s] = IF up /\ s = c THEN wire[s] \o q ELSE wire[s]
      /\ \A s \in Sessions : Elements(wire'[s]) \subseteq Elements(wire[s]) \cup unconfirmed
  BY <1>2, <1>3, PublishAdds, Zenon DEF InResentOrder
<1>5. /\ Published' \subseteq Published
      /\ UNCHANGED <<Accepted, Entering, Sending, Elements(pending)>>
  <2>1. Published' \subseteq Published
    <3>1. Elements(sent') = unconfirmed
      BY <1>2, <1>3, Zenon DEF InResentOrder
    <3>2. ASSUME NEW m \in Published' PROVE m \in Published
      BY <1>1, <1>4, <3>1, PublishedMembers, Zenon
    <3> QED
      BY <3>2, Zenon
  <2>2. UNCHANGED <<Accepted, Entering, Sending, Elements(pending)>>
    BY <1>1, Zenon DEF Accepted, Entering, Sending, Elements
  <2> QED
    BY <2>1, <2>2, ZenonT(30)
<1>6. NewInv' /\ AcceptedInv' /\ UnconfirmedWasSent'
  BY <1>1, <1>2, <1>3, <1>5, Zenon DEF PublishedInv, NewInv, AcceptedInv, UnconfirmedWasSent, InResentOrder
<1>7. OrderInv'
  <2>1. PublishedInOrder'
    BY <1>1, <1>2, <1>3, Zenon DEF PublishedInOrder, InResentOrder
  <2> QED
    BY <1>1, <1>5, <2>1, Zenon DEF PublishedInv, OrderInv, DistinctIds, InIdOrder
<1>8. FreshInv'
  <2>1. up => ~(c > nsess)
    BY Zenon DEF PublishedInv, FreshInv
  <2>2. \A s \in Sessions : taken'["Reconnect"] # s
    BY <1>1, Zenon DEF PublishTypes
  <2> QED
    BY <1>1, <1>4, <2>1, <2>2, Zenon DEF PublishedInv, FreshInv
<1>9. DedupInv'
  <2> SUFFICES ASSUME Named, Reliable' PROVE (DedupInv!2)'
    BY Zenon DEF DedupInv
  <2>1. Reliable /\ ~FrameOverflow
    BY <1>1, Zenon DEF Reliable, DistinctIds, InIdOrder
  <2>2. DedupInv!2 /\ wire[c] = <<>>
    BY <2>1, Zenon DEF DedupInv, PublishedInv, FreshInv
  <2>3. up => wire'[c] = q
    <3>1. q \in Seq(Msgs)
      BY <1>3, Zenon DEF InResentOrder
    <3>2. <<>> \o q = q
      BY <3>1, SMTT(30)
    <3> QED
      BY <1>4, <2>2, <3>2, Zenon
  <2>4. Covers(q)
    <3> SUFFICES ASSUME NEW k \in DOMAIN q, NEW u \in unconfirmed, id[u] < id[q[k]]
                 PROVE  \E j \in 1 .. k - 1 : q[j] = u
      BY Zenon DEF Covers
    <3>1. PICK j \in DOMAIN q : q[j] = u
      BY <1>3, Zenon DEF InResentOrder, Elements
    <3>2. DOMAIN q = 1 .. Len(q) /\ Len(q) \in Nat /\ q[j] \in Msgs /\ q[k] \in Msgs
      BY <1>3, SMTT(30) DEF InResentOrder
    <3>3. id[q[j]] \in Int /\ id[q[k]] \in Int
      <4>1. id \in [Msgs -> Ids]
        BY Zenon DEF PublishTypes
      <4> QED
        BY <3>2, <4>1, SMTT(30) DEF Ids, NoId
    <3>4. k < j => id[q[k]] < id[q[j]]
      BY <1>3, Zenon DEF InResentOrder
    <3>5. j \in 1 .. k - 1
      BY <3>1, <3>2, <3>3, <3>4, SMTT(30)
    <3> QED
      BY <3>1, <3>5, Zenon
  <2>5. ASSUME NEW s \in Sessions PROVE Covers(wire[s])'
    <3>1. CASE up /\ s = c
      <4>1. wire'[s] = q
        BY <2>3, <3>1, Zenon
      <4>2. \A k \in DOMAIN q, u \in unconfirmed' :
               stored'[u] = 0 /\ id'[u] < id'[q[k]] => \E j \in 1 .. k - 1 : q[j] = u
        BY <1>1, <2>4, Zenon DEF Covers
      <4> QED
        BY <4>1, <4>2, CoversNext, SMTT(30)
    <3>2. CASE ~(up /\ s = c)
      <4>1. wire'[s] = wire[s] /\ Covers(wire[s])
        BY <1>4, <2>2, <3>2, Zenon
      <4>2. \A k \in DOMAIN wire[s], u \in unconfirmed' :
               stored'[u] = 0 /\ id'[u] < id'[wire[s][k]] => \E j \in 1 .. k - 1 : wire[s][j] = u
        BY <1>1, <4>1, Zenon DEF Covers
      <4> QED
        BY <4>1, <4>2, CoversKept, Zenon
    <3> QED
      BY <3>1, <3>2, Zenon
  <2>6. client' # NoClient /\ sess'[client'] = "up" =>
            \A u \in unconfirmed' : stored'[u] = 0 => u \in Elements(wire[client])'
    BY <1>1, <1>3, <2>3, Zenon DEF InResentOrder, Elements
  <2> QED
    BY <1>1, <1>5, <2>2, <2>5, <2>6, Zenon
<1> QED
  BY <1>6, <1>7, <1>8, <1>9, Zenon DEF PublishedInv

\* The resend is cut short.
LEMMA OverflowPublished ==
    ASSUME PublishTypes, PublishTypes', PublishedInv, DedupInv, ReconnectOverflow,
           taken["Reconnect"] \in Sessions, \A q \in Resent : InResentOrder(q)
    PROVE  PublishedInv' /\ DedupInv'
<1> DEFINE c == taken["Reconnect"]
<1>1. /\ UNCHANGED <<starting, next_id, id, pc, pending, sent, unconfirmed, client, nsess, taken, stored, last_seq>>
      /\ sess' = Closing(c)
  BY Zenon DEF ReconnectOverflow
<1>2. PICK q \in Resent : \E p \in CutShort(q) : Publish(c, p)
  BY Zenon DEF ReconnectOverflow
<1>3. PICK p \in CutShort(q) : Publish(c, p)
  BY <1>2, Zenon
<1>4. FrameOverflow /\ p \in Seq(Msgs) /\ Elements(p) \subseteq unconfirmed
  <2>1. q \in Seq(Msgs) /\ Elements(q) = unconfirmed
    BY <1>2, Zenon DEF InResentOrder
  <2>2. FrameOverflow
    BY <1>3, Zenon DEF CutShort
  <2> QED
    BY <1>3, <2>1, <2>2, SequenceFacts, Zenon
<1>5. \A s \in Sessions : Elements(wire'[s]) \subseteq Elements(wire[s]) \cup unconfirmed
  BY <1>3, <1>4, PublishAdds, Zenon
<1>6. Published' \subseteq Published /\ UNCHANGED <<Accepted, Entering, Sending, Elements(pending)>>
  <2>1. Published' \subseteq Published
    <3>1. ASSUME NEW m \in Published' PROVE m \in Published
      BY <1>1, <1>5, PublishedMembers, Zenon
    <3> QED
      BY <3>1, Zenon
  <2>2. UNCHANGED <<Accepted, Entering, Sending, Elements(pending)>>
    BY <1>1, Zenon DEF Accepted, Entering, Sending, Elements
  <2> QED
    BY <2>1, <2>2, ZenonT(30)
<1>7. NewInv' /\ AcceptedInv' /\ UnconfirmedWasSent'
  BY <1>1, <1>4, <1>6, Zenon DEF PublishedInv, NewInv, AcceptedInv, UnconfirmedWasSent
<1>8. OrderInv'
  BY <1>1, <1>6, Zenon DEF PublishedInv, OrderInv, DistinctIds, InIdOrder, PublishedInOrder
<1>9. FreshInv'
  <2>1. \A s \in Sessions : sess[s] = "none" => sess'[s] = "none"
    BY <1>1, Zenon DEF Closing, PublishTypes
  <2> QED
    BY <1>1, <1>4, <2>1, Zenon DEF PublishedInv, FreshInv
<1>10. DedupInv'
  BY <1>4, Zenon DEF DedupInv, Reliable
<1> QED
  BY <1>7, <1>8, <1>9, <1>10, Zenon DEF PublishedInv

-----------------------------------------------------------------------------
(* All the steps                                                           *)

\* The invariant of the publishing.
PublishInv == PublishedInv /\ DedupInv /\ AnswerInv

\* What the steps of the other tasks leave alone.
Unconcerned == PublishesNothing /\ OpensNothing /\ StoresNothing /\ AnswersNothing

\* They keep all of the invariant.
LEMMA UnconcernedPublished ==
    ASSUME PublishTypes, PublishTypes', PublishInv, Unconcerned
    PROVE  PublishInv'
BY NothingPublished, NothingOpened, NothingStored, NothingAnswered, Zenon DEF PublishInv, PublishedInv, Unconcerned

\* Steps of start(), of the tasks and of stop() that do not change a session.
LEMMA TasksUnconcerned ==
    ASSUME TypeOK, PublishTypes,
           \/ StartBegin \/ StartFinish \/ StopCall \/ DeletedBegin \/ TimePasses \/ ConfirmScan \/ DelayedEnd
           \/ ReconnectBegin \/ ReconnectRefused \/ ReconnectDeclare \/ ReconnectRetry
           \/ \E t \in Tasks : TimerExpires(t)
           \/ \E a \in Stoppers : StopDestroys(a) \/ StopExchange(a) \/ StopAccumulator(a) \/ StopSemaphore(a)
           \/ \E s \in Sessions : handle_metadata_update(s)
    PROVE  Unconcerned
<1>1. /\ UNCHANGED <<next_id, id, pc, pending, sent, wire, inbox, frame, client, sess, nsess, result, stored, last_seq>>
      /\ unconfirmed' \subseteq unconfirmed /\ (starting = "done" => starting' = "done")
  <2>1. CASE StartBegin \/ StartFinish \/ StopCall \/ DeletedBegin \/ TimePasses
    BY <2>1, Zenon DEF StartBegin, StartFinish, StopCall, DeletedBegin, TimePasses
  <2>2. CASE ConfirmScan \/ DelayedEnd \/ \E t \in Tasks : TimerExpires(t)
    BY <2>2, Zenon DEF ConfirmScan, DelayedEnd, TimerExpires
  <2>3. CASE ReconnectBegin \/ ReconnectRefused \/ ReconnectDeclare \/ ReconnectRetry
    BY <2>3, Zenon DEF ReconnectBegin, ReconnectRefused, ReconnectDeclare, ReconnectRetry
  <2>4. CASE \E a \in Stoppers : StopDestroys(a) \/ StopExchange(a) \/ StopAccumulator(a) \/ StopSemaphore(a)
    BY <2>4, Zenon DEF StopDestroys, StopExchange, StopAccumulator, StopSemaphore
  <2>5. CASE \E s \in Sessions : handle_metadata_update(s)
    BY <2>5, Zenon DEF handle_metadata_update
  <2> QED
    BY <2>1, <2>2, <2>3, <2>4, <2>5, Zenon
<1>2. taken'["Reconnect"] \in {taken["Reconnect"], NoClient}
  <2>1. CASE DelayedEnd
    BY <2>1, Zenon DEF DelayedEnd, PublishTypes
  <2>2. CASE ReconnectRetry
    BY <2>2, Zenon DEF ReconnectRetry, PublishTypes
  <2>3. CASE taken' = taken
    BY <2>3, Zenon
  <2>4. DelayedEnd \/ ReconnectRetry \/ taken' = taken
    BY Zenon DEF StartBegin, StartFinish, StopCall, DeletedBegin, TimePasses, ConfirmScan, TimerExpires,
                 ReconnectBegin, ReconnectRefused, ReconnectDeclare, StopDestroys, StopExchange, StopAccumulator,
                 StopSemaphore, handle_metadata_update
  <2> QED
    BY <2>1, <2>2, <2>3, <2>4, Zenon
<1> QED
  BY <1>1, <1>2, Zenon DEF Unconcerned, PublishesNothing, OpensNothing, StoresNothing, AnswersNothing, Elements, ToldOk

\* Steps that end a session, or take the client away.
LEMMA SessionsUnconcerned ==
    ASSUME TypeOK, PublishTypes, PublishTypes',
           \/ DelayedBegin \/ ReconnectUndeclared
           \/ \E a \in Stoppers : StopClient(a)
           \/ \E s \in Sessions : \/ Disconnect(s) \/ HeartbeatTimeout(s) \/ NoticeDisconnect(s) \/ FrameThreadEnds(s)
                                  \/ handle_shutdown(s) \/ ShutdownDropped(s)
    PROVE  Unconcerned
<1>1. UNCHANGED <<starting, next_id, id, pc, pending, sent, unconfirmed, frame, nsess, result, stored, last_seq>>
  BY Zenon DEF DelayedBegin, ReconnectUndeclared, StopClient, Disconnect, HeartbeatTimeout, NoticeDisconnect,
               FrameThreadEnds, handle_shutdown, ShutdownDropped
<1>2. client' \in {client, NoClient} /\ taken'["Reconnect"] = taken["Reconnect"]
  <2>1. CASE DelayedBegin
    BY <2>1, Zenon DEF DelayedBegin, PublishTypes
  <2>2. CASE \E a \in Stoppers : StopClient(a)
    BY <2>2, Zenon DEF StopClient, PublishTypes
  <2>3. CASE taken' = taken /\ client' \in {client, NoClient}
    BY <2>3, Zenon
  <2>4. DelayedBegin \/ (\E a \in Stoppers : StopClient(a)) \/ (taken' = taken /\ client' \in {client, NoClient})
    BY Zenon DEF ReconnectUndeclared, Disconnect, HeartbeatTimeout, NoticeDisconnect,
                 FrameThreadEnds, handle_shutdown, ShutdownDropped
  <2> QED
    BY <2>1, <2>2, <2>3, <2>4, Zenon
<1> DEFINE EndsAtMost(r) == /\ sess[r] = "none" => sess'[r] = "none"
                            /\ sess'[r] = "up" => sess[r] = "up" /\ wire'[r] = wire[r]
                            /\ wire'[r] \in {wire[r], <<>>} /\ inbox'[r] \in {inbox[r], <<>>}
<1>3. ASSUME NEW r \in Sessions PROVE EndsAtMost(r)
  <2>0. \A c \in Sessions \cup {NoClient} : /\ Closing(c)[r] = "up" => sess[r] = "up"
                                            /\ sess[r] = "none" => Closing(c)[r] = "none"
                                            /\ Closing(c) \in [Sessions -> SessionStates]
    BY ZenonT(30) DEF Closing, PublishTypes, SessionStates
  <2>1. CASE DelayedBegin \/ ReconnectUndeclared \/ \E a \in Stoppers : StopClient(a)
    <3>1. UNCHANGED <<wire, inbox>> /\ \E c \in Sessions \cup {NoClient} : sess' = Closing(c) \/ sess' = sess
      BY <2>1, Zenon DEF DelayedBegin, ReconnectUndeclared, StopClient, PublishTypes
    <3> QED
      BY <2>0, <3>1, SMTT(30)
  <2>2. ASSUME NEW s \in Sessions, Disconnect(s) \/ HeartbeatTimeout(s) \/ NoticeDisconnect(s) \/ FrameThreadEnds(s)
        PROVE  EndsAtMost(r)
    <3>1. /\ \A q \in Sessions : q # s => sess'[q] = sess[q] /\ wire'[q] = wire[q] /\ inbox'[q] = inbox[q]
          /\ sess[s] # "none" /\ sess'[s] # "up"
          /\ wire'[s] \in {wire[s], <<>>} /\ inbox'[s] \in {inbox[s], <<>>}
      <4>1. CASE Disconnect(s)
        BY <4>1, Zenon DEF Disconnect, PublishTypes
      <4>2. CASE HeartbeatTimeout(s)
        BY <4>2, Zenon DEF HeartbeatTimeout, PublishTypes
      <4>3. CASE NoticeDisconnect(s)
        BY <4>3, Zenon DEF NoticeDisconnect, PublishTypes
      <4>4. CASE FrameThreadEnds(s)
        BY <4>4, Zenon DEF FrameThreadEnds, PublishTypes
      <4> QED
        BY <2>2, <4>1, <4>2, <4>3, <4>4, Zenon
    <3> QED
      BY <3>1, Zenon
  <2>3. ASSUME NEW s \in Sessions, handle_shutdown(s) PROVE EndsAtMost(r)
    <3>1. UNCHANGED <<wire, inbox>> /\ sess[s] \in {"locking", "silent"}
      BY <2>3, Zenon DEF handle_shutdown
    <3>2. PICK x \in {"closed", "closing", "joining", "dropping"} :
             sess' = [sess EXCEPT ![s] = x] \/ sess' = [Closing(client) EXCEPT ![s] = x]
      BY <2>3, Zenon DEF handle_shutdown
    <3>3. (r = s => sess'[r] = x) /\ (r # s => sess'[r] = sess[r] \/ sess'[r] = Closing(client)[r])
      BY <2>0, <3>2, Zenon DEF PublishTypes
    <3>4. x # "up" /\ sess[s] # "none"
      BY <3>1, <3>2, Zenon
    <3> QED
      BY <2>0, <3>1, <3>3, <3>4, Zenon DEF PublishTypes
  <2>4. ASSUME NEW s \in Sessions, ShutdownDropped(s) PROVE EndsAtMost(r)
    BY <2>4, Zenon DEF ShutdownDropped, PublishTypes
  <2> QED
    BY <2>1, <2>2, <2>3, <2>4, Zenon
<1>4. \/ client' = NoClient
      \/ client' = client /\ (sess'[client] = "up" => sess[client] = "up" /\ wire'[client] = wire[client])
  BY <1>2, <1>3, Zenon DEF PublishTypes
<1>5. Elements(<<>>) = {}
  BY SequenceFacts, Zenon
<1> QED
  BY <1>1, <1>2, <1>3, <1>4, <1>5, ZenonT(60)
     DEF Unconcerned, PublishesNothing, OpensNothing, StoresNothing, AnswersNothing, Elements, ToldOk

\* The handlers that the timeout task and fail_all_unconfirmed call are not
\* told "Ok".
LEMMA CallsUnconcerned ==
    ASSUME TypeOK, PublishTypes, ConfirmCall \/ \E a \in Stoppers : StopFail(a)
    PROVE  Unconcerned
<1>1. /\ UNCHANGED <<starting, next_id, id, pc, sent, wire, inbox, frame, client, sess, nsess, stored, last_seq>>
      /\ unconfirmed' \subseteq unconfirmed /\ pending' \in {pending, <<>>}
      /\ taken'["Reconnect"] = taken["Reconnect"]
  <2>1. CASE ConfirmCall
    BY <2>1, Zenon DEF ConfirmCall
  <2>2. CASE \E a \in Stoppers : StopFail(a)
    BY <2>2, Zenon DEF StopFail, PublishTypes
  <2> QED
    BY <2>1, <2>2, Zenon
<1>2. ToldOk' \subseteq ToldOk
  <2>1. PICK S, r : Call(S, r) /\ r # "Ok"
    <3>1. CASE ConfirmCall
      <4>1. run["Confirm"] # "Ok"
        BY Zenon DEF TypeOK, ConfirmSteps
      <4> QED
        BY <3>1, <4>1, Zenon DEF ConfirmCall
    <3>2. ASSUME NEW a \in Stoppers, StopFail(a) PROVE \E S, r : Call(S, r) /\ r # "Ok"
      <4>1. (IF a = "user" THEN "ProducerStopped" ELSE "StreamDoesNotExist") # "Ok"
        OBVIOUS
      <4> QED
        BY <3>2, <4>1, Zenon DEF StopFail
    <3> QED
      BY <3>1, <3>2, Zenon
  <2> QED
    BY <2>1, Zenon DEF Call, ToldOk
<1> QED
  BY <1>1, <1>2, Zenon DEF Unconcerned, PublishesNothing, OpensNothing, StoresNothing, AnswersNothing, Elements

\* What the steps rely on, of where the sessions are.
SessionsInPlace ==
    /\ client # NoClient => taken["Reconnect"] = NoClient
    /\ starting = "connect" => \A s \in Sessions : sess[s] = "none"
    /\ run["Reconnect"] # "idle" => client = NoClient /\ status = "Started"
    /\ run["Reconnect"] = "install" => taken["Reconnect"] \in Sessions

\* Every step preserves the invariant.
LEMMA StepPublished ==
    ASSUME TypeOK, TypeOK', SessionsInPlace, PublishInv, [Next]_vars,
           Cardinality(Sending) < 1 => Sending = {}, \A q \in Resent : InResentOrder(q)
    PROVE  PublishInv'
<1>1. PublishTypes /\ PublishTypes'
  BY PublishTyped, PTL
<1>2. ASSUME Unconcerned PROVE PublishInv'
  BY <1>1, <1>2, UnconcernedPublished, Zenon
<1>3. CASE Start
  <2>1. CASE StartBegin \/ StartFinish
    BY <1>1, <1>2, <2>1, TasksUnconcerned, Zenon
  <2>2. CASE StartConnect \/ StartDeclare
    <3>1. StartConnect => \A s \in Sessions : sess[s] = "none"
      BY Zenon DEF SessionsInPlace, StartConnect
    <3>2. AnswersNothing
      BY <2>2, Zenon DEF StartConnect, StartDeclare, AnswersNothing, ToldOk
    <3> QED
      BY <1>1, <2>2, <3>1, <3>2, StartPublished, NothingAnswered, Zenon DEF PublishInv, PublishedInv
  <2> QED
    BY <1>3, <2>1, <2>2, Zenon DEF Start
<1>4. ASSUME publish_batch, \A n \in Msgs : pc'[n] = pc[n] \/ (pc[n] = "publish" /\ pc'[n] = "sent")
      PROVE  PublishInv'
  <2>1. PublishedInv' /\ DedupInv'
    BY <1>1, <1>4, BatchPublished, Zenon DEF PublishInv, SessionsInPlace
  <2>2. UNCHANGED <<id, frame, stored, last_seq, inbox, result>>
    BY <1>4, Zenon DEF publish_batch
  <2>3. Answered' = Answered /\ Confirming' = Confirming /\ ToldOk' = ToldOk
    BY <2>2, Zenon DEF Answered, Confirming, ToldOk
  <2>4. last_seq <= last_seq'
    BY <1>1, <2>2, SMTT(30) DEF PublishTypes, Ids, NoId
  <2>5. \A n \in Msgs : pc'[n] = "new" => pc[n] = "new"
    BY <1>4, Zenon
  <2> QED
    BY <1>1, <2>1, <2>2, <2>3, <2>4, <2>5, AnswersStay, Zenon DEF PublishInv, PublishedInv
<1>5. CASE flush \/ BatchTask \/ \E m \in Msgs : SendPublish(m)
  <2>1. publish_batch /\ \A n \in Msgs : pc'[n] = pc[n] \/ (pc[n] = "publish" /\ pc'[n] = "sent")
    BY <1>1, <1>5, Zenon DEF flush, BatchTask, SendPublish, PublishTypes
  <2> QED
    BY <1>4, <2>1, Zenon
<1>6. ASSUME NEW m \in Msgs, SendBegin(m) \/ Acquire(m) \/ AcquireFails(m) \/ AddFails(m) \/ AddWaits(m) \/ Add(m)
      PROVE  PublishInv'
  <2>1. PublishedInv' /\ DedupInv'
    <3>1. SendBegin(m) => (NumSenders = 1 => Sending = {})
      BY Zenon DEF SendBegin
    <3> QED
      BY <1>1, <1>6, <3>1, SendBeginPublished, SenderPublished, AddPublished, Zenon DEF PublishInv
  <2>2. UNCHANGED <<frame, stored, last_seq, inbox, result>>
    BY <1>6, Zenon DEF SendBegin, Acquire, AcquireFails, AddFails, AddWaits, Add
  <2>3. Answered' = Answered /\ Confirming' = Confirming /\ ToldOk' = ToldOk
    BY <2>2, ZenonT(30) DEF Answered, Confirming, ToldOk
  <2>4. last_seq <= last_seq'
    BY <1>1, <2>2, SMTT(30) DEF PublishTypes, Ids, NoId
  <2>5. \A n \in Msgs : (id'[n] = id[n] \/ pc[n] = "new") /\ (pc'[n] = "new" => pc[n] = "new")
    BY <1>1, <1>6, ZenonT(60) DEF SendBegin, Acquire, AcquireFails, AddFails, AddWaits, Add, PublishTypes
  <2> QED
    BY <1>1, <2>1, <2>2, <2>3, <2>4, <2>5, AnswersStay, Zenon DEF PublishInv, PublishedInv
<1>7. ASSUME NEW s \in Sessions, ReadAnswer(s) \/ HandleAnswer(s) \/ CallHandler(s) PROVE PublishInv'
  <2>1. PublishesNothing /\ OpensNothing /\ StoresNothing
    BY <1>7, Zenon DEF ReadAnswer, HandleAnswer, CallHandler, Erased, PublishesNothing, OpensNothing, StoresNothing, Elements
  <2> QED
    BY <1>1, <1>7, <2>1, FrameAnswers, NothingPublished, NothingOpened, NothingStored, Zenon DEF PublishInv, PublishedInv
<1>8. CASE ReconnectConnect \/ ReconnectInstall \/ ReconnectOverflow
  <2>1. ReconnectConnect => client = NoClient
    BY Zenon DEF ReconnectConnect, SessionsInPlace
  <2>2. ReconnectInstall \/ ReconnectOverflow => status = "Started" /\ taken["Reconnect"] \in Sessions
    BY Zenon DEF ReconnectInstall, ReconnectOverflow, SessionsInPlace
  <2>3. PublishedInv' /\ DedupInv'
    BY <1>1, <1>8, <2>1, <2>2, ConnectPublished, InstallPublished, OverflowPublished, Zenon DEF PublishInv
  <2>4. AnswersNothing
    BY <1>8, Zenon DEF ReconnectConnect, ReconnectInstall, ReconnectOverflow, AnswersNothing, ToldOk
  <2> QED
    BY <1>1, <2>3, <2>4, NothingAnswered, Zenon DEF PublishInv, PublishedInv
<1>9. CASE \/ ReconnectBegin \/ ReconnectRefused \/ ReconnectDeclare \/ ReconnectRetry \/ ReconnectUndeclared
           \/ StopCall \/ DeletedBegin \/ TimePasses \/ ConfirmTask \/ DelayedTask
           \/ \E t \in Tasks : TimerExpires(t)
           \/ \E a \in Stoppers : Stop(a)
  <2>1. Unconcerned
    BY <1>1, <1>9, TasksUnconcerned, SessionsUnconcerned, CallsUnconcerned, Zenon DEF ConfirmTask, DelayedTask, Stop
  <2> QED
    BY <1>2, <2>1, Zenon
<1>10. ASSUME NEW s \in Sessions,
              \/ handle_metadata_update(s) \/ Disconnect(s) \/ HeartbeatTimeout(s) \/ NoticeDisconnect(s)
              \/ handle_shutdown(s) \/ ShutdownDropped(s) \/ FrameThreadEnds(s)
       PROVE  PublishInv'
  <2>1. Unconcerned
    BY <1>1, <1>10, TasksUnconcerned, SessionsUnconcerned, Zenon
  <2> QED
    BY <1>2, <2>1, Zenon
<1>11. ASSUME NEW s \in Sessions, BrokerStores(s) \/ BrokerRefuses(s) PROVE PublishInv'
  BY <1>1, <1>11, BrokerStoresPublished, BrokerRefusesPublished, Zenon DEF PublishInv
<1>12. CASE UNCHANGED vars
  <2>1. Unconcerned
    BY <1>12, Zenon DEF vars, Unconcerned, PublishesNothing, OpensNothing, StoresNothing, AnswersNothing, Elements, ToldOk
  <2> QED
    BY <1>2, <2>1, Zenon
<1>13. CASE Inputs
  BY <1>6, <1>10, <1>13, Zenon DEF Inputs
<1>14. CASE Steps
  <2>1. CASE \E m \in Msgs : Send(m)
    BY <1>5, <1>6, <2>1, Zenon DEF Send
  <2>2. CASE \E s \in Sessions : FrameThread(s) \/ BrokerStores(s) \/ BrokerRefuses(s)
    BY <1>7, <1>10, <1>11, <2>2, Zenon DEF FrameThread
  <2>3. CASE ReconnectTask
    BY <1>8, <1>9, <2>3, Zenon DEF ReconnectTask
  <2> QED
    BY <1>3, <1>5, <1>9, <1>14, <2>1, <2>2, <2>3, Zenon DEF Steps
<1> QED
  BY <1>12, <1>13, <1>14, Zenon DEF Next

\* Nothing has been published before start().
LEMMA InitPublished == Init => PublishInv
<1> SUFFICES ASSUME Init PROVE PublishInv
  OBVIOUS
<1>1. /\ \A m \in Msgs : pc[m] = "new" /\ id[m] = NoId /\ result[m] = "none"
      /\ pending = <<>> /\ sent = <<>> /\ unconfirmed = {} /\ client = NoClient
      /\ \A s \in Sessions : wire[s] = <<>> /\ inbox[s] = <<>> /\ sess[s] = "none" /\ frame[s].ok = FALSE
      /\ NoId < next_id /\ last_seq = NoId
  BY SMTT(30) DEF Init, NoFrame, NoId
<1>2. Elements(<<>>) = {} /\ DOMAIN <<>> = {}
  BY SequenceFacts, SMTT(30)
<1>3. Published = {} /\ Accepted = {} /\ Entering = {} /\ Sending = {} /\ Elements(pending) = {}
  <2>1. Accepted = {} /\ Entering = {} /\ Sending = {}
    BY <1>1, Zenon DEF Accepted, Entering, Sending
  <2> QED
    BY <1>1, <1>2, <2>1, Zenon DEF Published
<1>4. PublishedInv
  <2>1. NewInv /\ AcceptedInv /\ FreshInv /\ UnconfirmedWasSent
    BY <1>1, <1>3, Zenon DEF NewInv, AcceptedInv, FreshInv, UnconfirmedWasSent
  <2>2. OrderInv
    BY <1>1, <1>2, <1>3, Zenon DEF OrderInv, DistinctIds, PublishedInOrder
  <2> QED
    BY <2>1, <2>2, Zenon DEF PublishedInv
<1>5. DedupInv
  BY <1>1, <1>2, <1>3, Zenon DEF DedupInv, Covers
<1>6. AnswerInv
  <2>1. Answered = {} /\ Confirming = {} /\ ToldOk = {}
    BY <1>1, <1>2, Zenon DEF Answered, Confirming, ToldOk
  <2> QED
    BY <2>1, Zenon DEF AnswerInv
<1> QED
  BY <1>4, <1>5, <1>6, Zenon DEF PublishInv
=============================================================================
