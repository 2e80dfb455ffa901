--------------------------- MODULE RelayTransport ---------------------------
(***************************************************************************)
(* RelayTransport (src/transport.rs) once connected: the bridge between    *)
(* the local Codex client and the relay, from connect's Ok(Self {..}) to   *)
(* the end of bridge_local or bridge_stdio.                                *)
(*                                                                         *)
(* The bridge is one task whose select! takes either the next local        *)
(* message or the next relay frame and handles it to the end:              *)
(*   Forward*    a local message, through outgoing_app_segments            *)
(*   CloseLocal  the end of the local connection                           *)
(*   Observe     a relay frame, through observe_server_envelope and the    *)
(*               Reassembler                                               *)
(* Around it, external to src/: the local client, the host's app server,   *)
(* and the relay, which may hold, repeat and reorder the host's frames as  *)
(* the surroundings allow.                                                 *)
(*                                                                         *)
(* Abstractions.  A stream id is the number of streams taken before it     *)
(* (Uuid::new_v4 never repeats).  Client, environment and acknowledgement  *)
(* fields, ping and pong, and the bytes of payloads are left out; a        *)
(* message sent by the client is one entry of the wire however many        *)
(* segments carry it (module Segmentation).                                *)
(***************************************************************************)
EXTENDS Naturals, Sequences, FiniteSets, SequencesExt

CONSTANTS
  Surroundings,   \* what may go on around the bridge, one of them in a behaviour
  MaxStream,      \* bound on the streams the client takes after the first
  MaxLocal,       \* bound on the messages the local client sends
  MaxServer,      \* bound on the messages the host sends
  ChannelSize,    \* the local messages waiting at the bridge, 32 in the code
  MaxAssemblies,  \* MAX_CONCURRENT_ASSEMBLIES
  MaxMessageBytes \* MAX_MESSAGE_BYTES, a segment being one byte

Freedoms == {
  "reordering",     \* the relay delivers frames in any order, any number of times
  "repeating",      \* the relay delivers again frames it has delivered
  "reply order"}    \* the host answers requests in another order than theirs

AllLocalKinds == {"initialize", "request", "answer", "notification", "close"}
AllServerKinds == {"result", "error", "request", "notification", "garbled"}

(* The freedoms of the relay and the host, the kinds of messages that are  *)
(* sent and in how many segments, and bounds on how many.                  *)
ASSUME SurroundingsAssumption ==
  \A a \in Surroundings :
    /\ a.freedoms \subseteq Freedoms
    /\ a.localKinds \subseteq AllLocalKinds /\ a.serverKinds \subseteq AllServerKinds
    /\ a.parts \subseteq {1, 2}
    /\ a.maxLocal \in 0 .. MaxLocal /\ a.maxServer \in 0 .. MaxServer
ASSUME BoundsAssumption ==
  /\ MaxStream \in Nat /\ MaxLocal \in Nat /\ MaxServer \in Nat
  /\ ChannelSize \in Nat \ {0}
  /\ MaxAssemblies \in Nat /\ MaxMessageBytes \in Nat

(* What is sent at all, in one segment or in two.                          *)
LocalKinds == UNION {a.localKinds : a \in Surroundings}
ServerKinds == UNION {a.serverKinds : a \in Surroundings}
PartCounts == UNION {a.parts : a \in Surroundings}
SegmentedKinds == UNION {a.serverKinds : a \in {b \in Surroundings : 2 \in b.parts}}

NoId == 0                  \* JSON-RPC ids are numbers from 1
LocalIds == 1 .. MaxLocal
None == 0                  \* seen_server_sequence is None; sequences start at 1
StreamIds == 0 .. MaxStream

LocalMessages == [kind : LocalKinds, id : LocalIds \cup {NoId}]

(* of is the client's message a reply is about, which an error sent        *)
(* without an id does not tell: a result names its request, an error does  *)
(* not, and a request of the host has an id as good as any of the client's.*)
PayloadsOf(kinds) ==
  {p \in [kind : kinds, id : LocalIds \cup {NoId}, of : LocalIds \cup {NoId}] :
     CASE p.kind = "result"  -> p.of # NoId /\ p.id = p.of
       [] p.kind = "error"   -> p.of # NoId /\ p.id = NoId
       [] p.kind = "request" -> p.of = NoId /\ p.id # NoId
       [] OTHER              -> p.of = NoId /\ p.id = NoId}

HostPayloads == PayloadsOf(ServerKinds)

Message(s, n, p, parts) ==
  [stream |-> s, seq |-> n, kind |-> p.kind, id |-> p.id, of |-> p.of, parts |-> parts]

ServerMessages ==
  {Message(s, n, p, parts) : s \in StreamIds, n \in 1 .. MaxServer, p \in HostPayloads, parts \in PartCounts}

VARIABLES
  around,       \* the surroundings of this behaviour
  state,        \* "bridging", "closed", or the error the bridge ended with
  stream,       \* stream_id
  nextSeq,      \* next_client_sequence
  pending,      \* pending_request_ids
  seen,         \* seen_server_sequence
  assemblies,   \* reassembler.assemblies
  buffered,     \* reassembler.buffered_bytes
  inbox,        \* local messages the bridge has not taken yet
  wire,         \* the envelopes the relay got from the bridge
  toLocal,      \* the messages the local client got from the bridge
  localSent,    \* the messages the local client has sent
  sent,         \* the messages the host has sent, in order
  cursor        \* the relay's place in the host's frames, when in order

reassembler == <<assemblies, buffered>>
bridge == <<state, stream, nextSeq, pending, seen, assemblies, buffered>>
vars == <<around, bridge, inbox, wire, toLocal, localSent, sent, cursor>>

-----------------------------------------------------------------------------
(* The reassembler, whose chunks are single bytes of a host's message.     *)
ChunkOf(m, part) == [len |-> 1, data |-> [message |-> m, part |-> part]]

(* The slip of a key that leaves the sequence number out.                  *)
SegmentOfStreamOnly(m, part) ==
  [key |-> <<m.stream, 1>>, id |-> part - 1, count |-> m.parts,
   size |-> m.parts, chunk |-> ChunkOf(m, part)]

SegmentOf(m, part) ==
  [key |-> <<m.stream, m.seq>>, id |-> part - 1, count |-> m.parts,
   size |-> m.parts, chunk |-> ChunkOf(m, part)]

SegmentedMessages ==
  {Message(s, n, p, 2) : s \in StreamIds, n \in 1 .. MaxServer, p \in PayloadsOf(SegmentedKinds)}

(* A garbled payload is complete but no JSON object.                       *)
ObjectTexts ==
  {[i \in 0 .. m.parts - 1 |-> ChunkOf(m, i + 1)] :
      m \in {x \in SegmentedMessages : x.kind # "garbled"}}

R == INSTANCE Reassembler WITH
       Keys <- StreamIds \X (1 .. MaxServer),
       Data <- [message : SegmentedMessages, part : {1, 2}],
       Segments <- {SegmentOf(m, p) : m \in SegmentedMessages, p \in {1, 2}},
       Objects <- ObjectTexts,
       MaxSegments <- 2,
       MaxChunk <- 1

Elements(q) == {q[i] : i \in DOMAIN q}

TypeOK ==
  /\ around \in Surroundings
  /\ state \in {"bridging", "closed", "connection failed", "segment refused",
                "too many incomplete", "sequence gap", "no pending request"}
  /\ stream \in StreamIds
  /\ nextSeq \in 1 .. MaxLocal + 1
  /\ pending \in Seq(LocalIds)
  /\ seen \in {None} \cup 1 .. MaxServer
  /\ R!TypeOK
  /\ inbox \in Seq(LocalMessages) /\ Len(inbox) <= ChannelSize
  /\ localSent \in Seq(LocalMessages)
  /\ sent \in Seq(ServerMessages)
  /\ cursor.message \in 1 .. Len(sent) + 1 /\ cursor.part \in {1, 2}

(* connect: one stream id taken, nothing sent or seen on it.               *)
Init ==
  /\ around \in Surroundings
  /\ state = "bridging"
  /\ stream = 0
  /\ nextSeq = 1
  /\ pending = <<>>
  /\ seen = None
  /\ R!Init
  /\ inbox = <<>>
  /\ wire = <<>>
  /\ toLocal = <<>>
  /\ localSent = <<>>
  /\ sent = <<>>
  /\ cursor = [message |-> 1, part |-> 1]

Bridging == state = "bridging"

Fail(why) == state' = why

-----------------------------------------------------------------------------
(* The local client: external, seen through what the bridge reads from it. *)

(* A request takes an id it has not used; only what the client has been    *)
(* asked can be answered, and only once.                                   *)
MayAnswer(id) ==
  /\ \E d \in Elements(toLocal) : d.kind = "request" /\ d.id = id
  /\ [kind |-> "answer", id |-> id] \notin Elements(localSent)

LocalSends(m) ==
  /\ Bridging
  /\ m.kind \in around.localKinds
  /\ Len(localSent) < around.maxLocal
  /\ Len(inbox) < ChannelSize
  /\ \A l \in Elements(localSent) : l.kind # "close"
  /\ m.kind \in {"initialize", "request"} => m.id = Len(localSent) + 1
  /\ m.kind \in {"notification", "close"} => m.id = NoId
  /\ m.kind = "answer" => MayAnswer(m.id)
  /\ m.kind = "initialize" => Cardinality({i \in DOMAIN localSent : localSent[i].kind = "initialize"}) < MaxStream
  /\ localSent' = Append(localSent, m)
  /\ inbox' = Append(inbox, m)
  /\ UNCHANGED <<bridge, wire, toLocal, sent, cursor>>

-----------------------------------------------------------------------------
(* The host and the relay: external.                                       *)

(* The requests of a stream that the host has had and not answered.        *)
Unanswered(s) ==
  {w \in Elements(wire) : /\ w.stream = s /\ w.kind \in {"initialize", "request"}
                          /\ \A m \in Elements(sent) : m.of # w.id}

OnStreamCount(s) == Cardinality({i \in DOMAIN sent : sent[i].stream = s})

IsReply(m) == m.kind \in {"result", "error"}

(* The host knows the streams it has heard on.  It answers each request    *)
(* once, with the result or with an error that does not name the request.  *)
HostSends(s, payload, parts) ==
  /\ Bridging
  /\ payload.kind \in around.serverKinds /\ parts \in around.parts
  /\ \E w \in Elements(wire) : w.stream = s
  /\ Len(sent) < around.maxServer
  /\ IsReply(payload) =>
       \E w \in Unanswered(s) :
         /\ payload.of = w.id
         /\ "reply order" \in around.freedoms \/ \A v \in Unanswered(s) : w.seq <= v.seq
  /\ payload.kind = "garbled" => parts = 2
  /\ sent' = Append(sent, Message(s, OnStreamCount(s) + 1, payload, parts))
  /\ UNCHANGED <<bridge, inbox, wire, toLocal, localSent, cursor>>

(* Which frame the relay delivers next, and its place after it.            *)
InOrder(i, p) == i = cursor.message /\ p = cursor.part

Delivers(i, p) ==
  \/ "reordering" \in around.freedoms /\ UNCHANGED cursor
  \/ /\ "repeating" \in around.freedoms
     /\ i < cursor.message
     /\ UNCHANGED cursor
  \/ /\ "reordering" \notin around.freedoms /\ InOrder(i, p)
     /\ cursor' = IF p < sent[i].parts THEN [message |-> i, part |-> p + 1]
                                       ELSE [message |-> i + 1, part |-> 1]

(* Either connection breaks or brings what cannot be parsed, or a message  *)
(* is too long to pass on: the bridge ends without telling the host.       *)
ConnectionFails ==
  /\ Bridging
  /\ Fail("connection failed")
  /\ UNCHANGED <<stream, nextSeq, pending, seen, reassembler, inbox, wire, toLocal, localSent, sent, cursor>>

-----------------------------------------------------------------------------
(* outgoing_app_segments, for the local message at the head of the inbox.  *)

TakesLocal(kinds) ==
  /\ Bridging
  /\ inbox # <<>> /\ Head(inbox).kind \in kinds
  /\ inbox' = Tail(inbox)
  /\ UNCHANGED <<toLocal, localSent, sent, cursor>>

Envelope(m, s, n) == [stream |-> s, seq |-> n, kind |-> m.kind, id |-> m.id]

Outgoing(m, s, n) ==
  /\ wire' = Append(wire, Envelope(m, s, n))
  /\ nextSeq' = n + 1

(* The slip of a new stream that goes on with the numbers of the old one.  *)
ForwardInitializeKeepingSequence ==
  /\ TakesLocal({"initialize"})
  /\ stream' = stream + 1
  /\ seen' = None
  /\ pending' = <<Head(inbox).id>>
  /\ assemblies' = [k \in {} |-> {}] /\ buffered' = 0
  /\ Outgoing(Head(inbox), stream + 1, nextSeq)
  /\ UNCHANGED state

(* The slip of a new stream that goes on waiting for the old one's numbers.*)
ForwardInitializeKeepingSeen ==
  /\ TakesLocal({"initialize"})
  /\ stream' = stream + 1
  /\ pending' = <<Head(inbox).id>>
  /\ assemblies' = [k \in {} |-> {}] /\ buffered' = 0
  /\ Outgoing(Head(inbox), stream + 1, 1)
  /\ UNCHANGED <<state, seen>>

(* The slip of clearing the pending ids after initialize's own is there.   *)
ForwardInitializeNotPending ==
  /\ TakesLocal({"initialize"})
  /\ stream' = stream + 1
  /\ seen' = None
  /\ pending' = <<>>
  /\ assemblies' = [k \in {} |-> {}] /\ buffered' = 0
  /\ Outgoing(Head(inbox), stream + 1, 1)
  /\ UNCHANGED state

(* initialize takes a new stream and forgets everything about the old one. *)
ForwardInitialize ==
  /\ TakesLocal({"initialize"})
  /\ stream' = stream + 1
  /\ seen' = None
  /\ pending' = <<Head(inbox).id>>
  /\ assemblies' = [k \in {} |-> {}] /\ buffered' = 0
  /\ Outgoing(Head(inbox), stream + 1, 1)
  /\ UNCHANGED state

(* The id of any other message is pending too, be it a request's or that   *)
(* of an answer to the host.                                               *)
ForwardOther ==
  /\ TakesLocal({"request", "answer", "notification"})
  /\ pending' = IF Head(inbox).id = NoId THEN pending ELSE Append(pending, Head(inbox).id)
  /\ Outgoing(Head(inbox), stream, nextSeq)
  /\ UNCHANGED <<state, stream, seen, reassembler>>

(* The local side ends: client_closed takes the next number of the stream. *)
(* Whether it could be sent is not looked at, the bridge ends well anyhow. *)
CloseLocal ==
  /\ TakesLocal({"close"})
  /\ state' = "closed"
  /\ \/ wire' = Append(wire, Envelope(Head(inbox), stream, nextSeq))
     \/ UNCHANGED wire
  /\ UNCHANGED <<stream, nextSeq, pending, seen, reassembler>>

-----------------------------------------------------------------------------
(* observe_server_envelope, from the sequence check on, for a message that *)
(* is complete.                                                            *)

(* The slip that takes any later message for the next.                     *)
IsNextOrLater(m) == seen = None \/ m.seq > seen

IsNext(m) == seen = None \/ m.seq = seen + 1

IsOld(m) == seen # None /\ m.seq <= seen

ToLocal(m, id) ==
  toLocal' = Append(toLocal, [stream |-> m.stream, seq |-> m.seq, kind |-> m.kind,
                              id |-> id, of |-> m.of, parts |-> m.parts])

IgnoreOld(m) ==
  /\ IsOld(m)
  /\ UNCHANGED <<state, pending, seen, toLocal>>

FailOnGap(m) ==
  /\ ~ IsOld(m) /\ ~ IsNext(m)
  /\ Fail("sequence gap")
  /\ UNCHANGED <<pending, seen, toLocal>>

(* The slip of reading the oldest pending id without removing it.          *)
DeliverErrorKeepingPending(m) ==
  /\ IsNext(m) /\ m.kind = "error"
  /\ seen' = m.seq
  /\ IF pending = <<>>
       THEN Fail("no pending request") /\ UNCHANGED <<pending, toLocal>>
       ELSE ToLocal(m, Head(pending)) /\ UNCHANGED <<state, pending>>

(* The slip of answering for the newest pending request.                   *)
DeliverErrorToNewest(m) ==
  /\ IsNext(m) /\ m.kind = "error"
  /\ seen' = m.seq
  /\ IF pending = <<>>
       THEN Fail("no pending request") /\ UNCHANGED <<pending, toLocal>>
       ELSE ToLocal(m, Last(pending)) /\ pending' = Front(pending) /\ UNCHANGED state

(* An error without an id is given that of the oldest pending request.     *)
DeliverError(m) ==
  /\ IsNext(m) /\ m.kind = "error"
  /\ seen' = m.seq
  /\ IF pending = <<>>
       THEN Fail("no pending request") /\ UNCHANGED <<pending, toLocal>>
       ELSE ToLocal(m, Head(pending)) /\ pending' = Tail(pending) /\ UNCHANGED state

(* Whatever bears the id of a pending request settles it.                  *)
DeliverOther(m) ==
  /\ IsNext(m) /\ m.kind # "error"
  /\ seen' = m.seq
  /\ pending' = IF m.id \in Elements(pending) THEN RemoveFirst(pending, m.id) ELSE pending
  /\ ToLocal(m, m.id)
  /\ UNCHANGED state

Accept(m) == IgnoreOld(m) \/ FailOnGap(m) \/ DeliverError(m) \/ DeliverOther(m)

IgnoreStale(m) ==
  /\ m.stream # stream
  /\ UNCHANGED <<bridge, toLocal>>

ObserveWhole(m) ==
  /\ m.stream = stream /\ m.parts = 1
  /\ Accept(m)
  /\ UNCHANGED reassembler

(* The host's segments are well formed, so only the slots can refuse one; a*)
(* malformed one ends the bridge as ConnectionFails does.                  *)
ObserveSegment(m, part) ==
  /\ m.stream = stream /\ m.parts > 1
  /\ LET s == SegmentOf(m, part) IN
     \/ R!Refuse(s) /\ Fail("too many incomplete") /\ UNCHANGED <<pending, seen, toLocal>>
     \/ R!Discard(s) /\ Fail("segment refused") /\ UNCHANGED <<pending, seen, toLocal>>
     \/ R!Reject(s) /\ Fail("segment refused") /\ UNCHANGED <<pending, seen, toLocal>>
     \/ R!Hold(s) /\ UNCHANGED <<state, pending, seen, toLocal>>
     \/ R!Return(s) /\ Accept(R!Stored(s).chunks[0].data.message)

Observe(i, part) ==
  /\ Bridging
  /\ i \in DOMAIN sent /\ part \in 1 .. sent[i].parts
  /\ Delivers(i, part)
  /\ \/ IgnoreStale(sent[i])
     \/ ObserveWhole(sent[i]) /\ UNCHANGED <<stream, nextSeq>>
     \/ ObserveSegment(sent[i], part) /\ UNCHANGED <<stream, nextSeq>>
  /\ UNCHANGED <<inbox, wire, localSent, sent>>

-----------------------------------------------------------------------------
TakeLocal == ForwardInitialize \/ ForwardOther \/ CloseLocal

TakeFrame == \E i \in DOMAIN sent, part \in {1, 2} : Observe(i, part)

Step ==
  \/ \E m \in LocalMessages : LocalSends(m)
  \/ \E s \in StreamIds, p \in HostPayloads, n \in PartCounts : HostSends(s, p, n)
  \/ TakeLocal
  \/ TakeFrame
  \/ ConnectionFails

Next == Step /\ UNCHANGED around

Spec == Init /\ [][Next]_vars

(* select! polls both sides, so neither is passed over for ever; that the  *)
(* relay goes on delivering is an assumption about it.                     *)
FairSpec ==
  /\ Spec
  /\ WF_vars(TakeLocal /\ UNCHANGED around) /\ WF_vars(TakeFrame /\ UNCHANGED around)

-----------------------------------------------------------------------------
(* Safety, whatever the relay and the host do.                             *)

Shape(e) == [kind |-> e.kind, id |-> e.id]

(* What the relay gets is what the local client sent, in its order and     *)
(* without a gap, up to where the bridge ended; on each stream the         *)
(* envelopes count up from 1, client_closed included when it gets there,   *)
(* and a stream once left is never used again.                             *)
WireIsFaithful ==
  /\ IsPrefix([i \in DOMAIN wire |-> Shape(wire[i])], localSent)
  /\ \A i \in DOMAIN wire :
       /\ wire[i].seq = Cardinality({j \in 1 .. i : wire[j].stream = wire[i].stream})
       /\ \A j \in 1 .. i : wire[j].stream <= wire[i].stream

(* An id is owed at most one error for each time it was sent on this       *)
(* stream: the ids still pending and those of the errors delivered never   *)
(* exceed the messages that bore them.                                     *)
ErrorsAreOwed ==
  \A id \in LocalIds :
    Cardinality({i \in DOMAIN pending : pending[i] = id})
      + Cardinality({i \in DOMAIN toLocal : /\ toLocal[i].stream = stream
                                            /\ toLocal[i].kind = "error" /\ toLocal[i].id = id})
    <= Cardinality({i \in DOMAIN wire : wire[i].stream = stream /\ wire[i].id = id})

(* An assembly only ever holds segments of one message the host sent, each *)
(* in its own place, and one on the stream the client is on: those of a    *)
(* stream it has left hold no slot and no byte.                            *)
AssembliesAreUnmixed ==
  \A k \in DOMAIN assemblies :
    \E m \in Elements(sent) :
      /\ <<m.stream, m.seq>> = k /\ m.stream = stream
      /\ \A i \in DOMAIN assemblies[k].chunks : assemblies[k].chunks[i] = ChunkOf(m, i + 1)

(* The host's own message behind one the client was given.                 *)
AsSent(d) == [d EXCEPT !.id = IF d.kind = "error" THEN NoId ELSE @]

Promise == INSTANCE StreamDelivery WITH
             delivered <- [i \in DOMAIN toLocal |-> AsSent(toLocal[i])],
             up <- Bridging

(* The bridge implements StreamDelivery: per stream in order, once,        *)
(* complete and unmixed, and nothing from a stream the client has left.    *)
ImplementsStreamDelivery == Promise!Spec

-----------------------------------------------------------------------------
(* With a relay that delivers in order and a host that answers in order.   *)

(* The bridge gives up only because a connection does, or over a message   *)
(* that is none: segments, slots, sequences and pending ids suffice.       *)
OrderlyRelayIsEnough ==
  \/ state \in {"bridging", "closed", "connection failed"}
  \/ state = "segment refused" /\ \E m \in Elements(sent) : m.kind = "garbled"

(* The error the client gets for a request is the one the host sent for it,*)
(* though the host's message does not name the request.                    *)
ErrorsReachTheirRequest ==
  \A d \in Elements(toLocal) : d.kind = "error" => d.id = d.of

(* Neither side starves the other: what the local client sends reaches the *)
(* relay, and what the host sends on the stream the client is on, and stays*)
(* on, reaches the client, unless the bridge ends.                         *)
EveryMessageArrives ==
  /\ \A n \in 1 .. MaxLocal : (Len(localSent) >= n) ~> (Len(wire) >= n \/ ~ Bridging)
  /\ \A s \in StreamIds, n \in 1 .. MaxServer :
       (OnStreamCount(s) >= n) ~>
         (\/ \E d \in Elements(toLocal) : d.stream = s /\ d.seq = n
          \/ ~ Bridging \/ stream # s)

-----------------------------------------------------------------------------
(* What the code's own words say, and its behaviour contradicts.           *)

RepliesTo(id) == {d \in Elements(toLocal) : d.stream = stream /\ IsReply(d) /\ d.of = id}

(* "remote-control error has no pending request": the bridge ends so only  *)
(* when every request made on the stream has had its reply.                *)
NoPendingRequestIsTrue ==
  state = "no pending request" =>
    \A w \in Elements(wire) :
      w.stream = stream /\ w.kind \in {"initialize", "request"} => RepliesTo(w.id) # {}

-----------------------------------------------------------------------------
(* What one might expect, and does not hold: no run checks these.          *)

(* The errors the client gets name requests that wait for a reply: ones it *)
(* has made, and to which nothing has come back yet.  TLC refutes it with  *)
(* an "answer" of the client's: its id is made pending too, and stays.     *)
ErrorsNameWaitingRequests ==
  \A i \in DOMAIN toLocal :
    toLocal[i].kind = "error" =>
      /\ \E w \in Elements(wire) : w.kind \in {"initialize", "request"} /\ w.id = toLocal[i].id
      /\ \A j \in 1 .. i - 1 : ~ (IsReply(toLocal[j]) /\ toLocal[j].id = toLocal[i].id)

(* "too many incomplete remote-control server messages": the bridge ends so*)
(* only when the slots are taken by messages not delivered yet.  TLC       *)
(* refutes it with a "repeating" relay: a segment of a message already     *)
(* delivered takes a slot again.                                           *)
TooManyIncompleteIsTrue ==
  state = "too many incomplete" =>
    Cardinality({k \in DOMAIN assemblies : seen = None \/ k[2] > seen}) >= MaxAssemblies
=============================================================================
