------------------------ MODULE RelayTransportProofs ------------------------
(***************************************************************************)
(* Proofs about RelayTransport, for any surroundings (a relay that holds,  *)
(* repeats and reorders, a host that answers in any order) and any bounds, *)
(* and at the end for those that keep to their order.                      *)
(***************************************************************************)
EXTENDS RelayTransport, Integers, SequenceTheorems, FiniteSetTheorems, WellFoundedInduction, TLAPS

(* What the bridge writes to the relay, and to the local client.           *)
Envelopes == [stream : Nat, seq : Nat, kind : AllLocalKinds, id : Nat]

Deliveries ==
  [stream : Nat, seq : Nat, kind : AllServerKinds, id : Nat, of : Nat, parts : {1, 2}]

Typed ==
  /\ around \in Surroundings
  /\ stream \in Nat /\ nextSeq \in Nat /\ pending \in Seq(Nat) /\ seen \in Nat
  /\ inbox \in Seq(LocalMessages) /\ localSent \in Seq(LocalMessages)
  /\ wire \in Seq(Envelopes) /\ toLocal \in Seq(Deliveries) /\ sent \in Seq(ServerMessages)

-----------------------------------------------------------------------------
(* The messages of the two sides.                                          *)

LEMMA MessageForm ==
  ASSUME NEW m \in ServerMessages
  PROVE  /\ m \in Deliveries /\ m.seq \in 1 .. MaxServer
         /\ m.kind = "error" => m.id = NoId
<1>1. PICK s \in StreamIds, n \in 1 .. MaxServer, p \in HostPayloads, parts \in PartCounts :
        m = Message(s, n, p, parts)
  BY DEF ServerMessages
<1>2. parts \in {1, 2}
  BY SurroundingsAssumption DEF PartCounts
<1>3. p.kind \in AllServerKinds
  BY SurroundingsAssumption DEF HostPayloads, PayloadsOf, ServerKinds
<1>4. s \in Nat /\ n \in Nat /\ p.id \in Nat /\ p.of \in Nat
  BY BoundsAssumption DEF StreamIds, HostPayloads, PayloadsOf, LocalIds, NoId
<1>5. p.kind = "error" => p.id = NoId
  BY DEF HostPayloads, PayloadsOf
<1> QED
  BY <1>1, <1>2, <1>3, <1>4, <1>5 DEF Message, Deliveries

LEMMA LocalMessageForm ==
  ASSUME NEW m \in LocalMessages
  PROVE  m \in [kind : AllLocalKinds, id : Nat]
<1>1. m.kind \in AllLocalKinds
  BY SurroundingsAssumption DEF LocalMessages, LocalKinds
<1>2. m.id \in Nat
  BY BoundsAssumption DEF LocalMessages, LocalIds, NoId
<1> QED
  BY <1>1, <1>2 DEF LocalMessages

LEMMA SentTyped ==
  ASSUME Typed, NEW m \in Elements(sent)
  PROVE  m \in ServerMessages
<1>1. PICK i \in DOMAIN sent : m = sent[i]
  BY DEF Elements
<1> QED
  BY <1>1, LenProperties, ElementOfSeq DEF Typed

-----------------------------------------------------------------------------
(* The host's numbers name its messages, one each.                         *)
SentInv ==
  /\ \A i \in DOMAIN sent : sent[i].seq <= OnStreamCount(sent[i].stream)
  /\ \A i, j \in DOMAIN sent :
       sent[i].stream = sent[j].stream /\ sent[i].seq = sent[j].seq => i = j

(* What has been delivered is of this stream and those before it, and the  *)
(* last of it is where the bridge is on this one.                          *)
DeliveredInv ==
  /\ \A i \in DOMAIN toLocal : toLocal[i].stream <= stream
  /\ Bridging /\ seen = None => \A i \in DOMAIN toLocal : toLocal[i].stream # stream
  /\ Bridging /\ seen # None =>
       /\ toLocal # <<>>
       /\ toLocal[Len(toLocal)].stream = stream /\ toLocal[Len(toLocal)].seq = seen

-----------------------------------------------------------------------------
(* Reassembly.                                                             *)

(* The assembly a segment goes to holds nothing of another message.        *)
LEMMA StoredIsUnmixed ==
  ASSUME Typed, SentInv, AssembliesAreUnmixed,
         NEW m \in Elements(sent), m.stream = stream, NEW part \in 1 .. m.parts,
         NEW i \in DOMAIN R!Stored(SegmentOf(m, part)).chunks
  PROVE  R!Stored(SegmentOf(m, part)).chunks[i] = ChunkOf(m, i + 1)
<1> DEFINE s == SegmentOf(m, part)
<1>1. s.key = <<m.stream, m.seq>> /\ s.id = part - 1 /\ s.chunk = ChunkOf(m, part)
  BY DEF SegmentOf
<1>2. ASSUME NEW j \in DOMAIN R!Entry(s).chunks
      PROVE  R!Entry(s).chunks[j] = ChunkOf(m, j + 1)
  <2>1. CASE R!IsOpen(s.key)
    <3>1. PICK n \in Elements(sent) :
            /\ <<n.stream, n.seq>> = s.key
            /\ \A x \in DOMAIN assemblies[s.key].chunks : assemblies[s.key].chunks[x] = ChunkOf(n, x + 1)
      BY <2>1 DEF AssembliesAreUnmixed, R!IsOpen
    <3>2. n = m
      BY <1>1, <3>1 DEF SentInv, Elements
    <3> QED
      BY <1>2, <2>1, <3>1, <3>2 DEF R!Entry
  <2>2. CASE ~ R!IsOpen(s.key)
    BY <1>2, <2>2 DEF R!Entry, R!NewAssembly
  <2> QED
    BY <2>1, <2>2
<1>3. CASE R!IsRepeat(s)
  BY <1>2, <1>3 DEF R!Stored
<1>4. CASE ~ R!IsRepeat(s)
  <2>1. R!Stored(s).chunks = [x \in DOMAIN R!Entry(s).chunks \cup {s.id} |->
                               IF x = s.id THEN s.chunk ELSE R!Entry(s).chunks[x]]
    BY <1>4 DEF R!Stored
  <2>2. part \in Int
    OBVIOUS
  <2>3. CASE i = s.id
    BY <1>1, <2>1, <2>2, <2>3
  <2>4. CASE i # s.id
    BY <1>2, <2>1, <2>4
  <2> QED
    BY <2>3, <2>4
<1> QED
  BY <1>3, <1>4

(* When the last segment is in, the first is of the message, and so is what*)
(* is given back.                                                          *)
LEMMA ReturnIsTheMessage ==
  ASSUME Typed, SentInv, AssembliesAreUnmixed,
         NEW m \in Elements(sent), m.stream = stream, m.parts > 1, NEW part \in 1 .. m.parts,
         R!Return(SegmentOf(m, part))
  PROVE  R!Stored(SegmentOf(m, part)).chunks[0].data.message = m
<1> DEFINE s == SegmentOf(m, part)
<1>1. R!IsComplete(R!Stored(s)) /\ R!SameMetadata(s)
  BY DEF R!Return, R!Complete, R!Poisonous
<1>2. R!Stored(s).count = m.parts
  BY <1>1 DEF R!SameMetadata, R!Stored, SegmentOf
<1>3. m.parts \in {1, 2}
  BY SentTyped, MessageForm DEF Deliveries
<1>4. 0 \in DOMAIN R!Stored(s).chunks
  BY <1>1, <1>2, <1>3 DEF R!IsComplete, R!Ids
<1>5. R!Stored(s).chunks[0] = ChunkOf(m, 1)
  BY <1>4, StoredIsUnmixed
<1> QED
  BY <1>5 DEF ChunkOf

LEMMA SegmentKeepsUnmixed ==
  ASSUME Typed, SentInv, AssembliesAreUnmixed, UNCHANGED <<sent, stream>>,
         NEW m \in Elements(sent), m.stream = stream, NEW part \in 1 .. m.parts,
         LET s == SegmentOf(m, part) IN
           R!Refuse(s) \/ R!Discard(s) \/ R!Reject(s) \/ R!Hold(s) \/ R!Return(s)
  PROVE  AssembliesAreUnmixed'
<1> DEFINE s == SegmentOf(m, part)
<1>1. CASE R!Refuse(s)
  BY <1>1 DEF R!Refuse, R!vars, AssembliesAreUnmixed
<1>2. CASE R!Drop(s.key)
  BY <1>2 DEF R!Drop, AssembliesAreUnmixed
<1>3. CASE R!Hold(s)
  <2>1. assemblies' = [j \in DOMAIN assemblies \cup {s.key} |->
                         IF j = s.key THEN R!Stored(s) ELSE assemblies[j]]
    BY <1>3 DEF R!Hold, R!Put
  <2>2. s.key = <<m.stream, m.seq>>
    BY DEF SegmentOf
  <2>3. \A i \in DOMAIN R!Stored(s).chunks : R!Stored(s).chunks[i] = ChunkOf(m, i + 1)
    BY StoredIsUnmixed
  <2> QED
    BY <2>1, <2>2, <2>3 DEF AssembliesAreUnmixed
<1> QED
  BY <1>1, <1>2, <1>3 DEF R!Discard, R!Remove, R!Reject, R!Return, R!Complete

-----------------------------------------------------------------------------
(* What a relay frame comes to.                                            *)

(* A message is given to the local client.                                 *)
Delivery(m) ==
  /\ m.stream = stream /\ IsNext(m)
  /\ seen' = m.seq /\ UNCHANGED state
  /\ \/ m.kind = "error" /\ pending # <<>> /\ ToLocal(m, Head(pending)) /\ pending' = Tail(pending)
     \/ /\ m.kind # "error" /\ ToLocal(m, m.id)
        /\ pending' = IF m.id \in Elements(pending) THEN RemoveFirst(pending, m.id) ELSE pending

(* The bridge ends over the frame.                                         *)
Failure ==
  /\ state' \notin {"bridging", "closed"} /\ seen' \in Nat
  /\ UNCHANGED <<pending, toLocal>>

LEMMA AcceptCases ==
  ASSUME Typed, NEW m \in Elements(sent), m.stream = stream, Accept(m)
  PROVE  UNCHANGED <<state, pending, seen, toLocal>> \/ Failure \/ Delivery(m)
<1>1. m.seq \in Nat
  BY SentTyped, MessageForm
<1>2. CASE IgnoreOld(m)
  BY <1>2 DEF IgnoreOld
<1>3. CASE FailOnGap(m)
  BY <1>3 DEF FailOnGap, Fail, Failure, Typed
<1>4. CASE DeliverError(m)
  <2>1. CASE pending = <<>>
    BY <1>1, <1>4, <2>1 DEF DeliverError, Fail, Failure
  <2>2. CASE pending # <<>>
    BY <1>4, <2>2 DEF DeliverError, Delivery
  <2> QED
    BY <2>1, <2>2
<1>5. CASE DeliverOther(m)
  BY <1>5 DEF DeliverOther, Delivery
<1> QED
  BY <1>2, <1>3, <1>4, <1>5 DEF Accept

LEMMA ObserveCases ==
  ASSUME Typed, SentInv, AssembliesAreUnmixed,
         NEW i, NEW part, Observe(i, part)
  PROVE  /\ Bridging /\ UNCHANGED <<stream, nextSeq, inbox, wire, localSent, sent>>
         /\ \/ UNCHANGED <<state, pending, seen, toLocal>>
            \/ Failure
            \/ \E m \in Elements(sent) : Delivery(m)
         /\ AssembliesAreUnmixed'
<1> DEFINE m == sent[i]
<1>1. m \in Elements(sent) /\ part \in 1 .. m.parts
  BY DEF Observe, Elements
<1>2. CASE IgnoreStale(m)
  BY <1>2 DEF Observe, IgnoreStale, bridge, AssembliesAreUnmixed
<1>3. CASE ObserveWhole(m) /\ UNCHANGED <<stream, nextSeq>>
  <2>1. Accept(m) /\ m.stream = stream /\ UNCHANGED reassembler
    BY <1>3 DEF ObserveWhole
  <2>2. AssembliesAreUnmixed'
    BY <1>3, <2>1 DEF Observe, reassembler, AssembliesAreUnmixed
  <2> QED
    BY <1>1, <1>3, <2>1, <2>2, AcceptCases DEF Observe
<1>4. CASE ObserveSegment(m, part) /\ UNCHANGED <<stream, nextSeq>>
  <2> DEFINE s == SegmentOf(m, part)
  <2>1. m.stream = stream /\ m.parts > 1
    BY <1>4 DEF ObserveSegment
  <2>2. /\ R!Refuse(s) \/ R!Discard(s) \/ R!Reject(s) \/ R!Hold(s) \/ R!Return(s)
        /\ UNCHANGED sent
    BY <1>4 DEF ObserveSegment, Observe
  <2>3. AssembliesAreUnmixed'
    BY <1>1, <1>4, <2>1, <2>2, SegmentKeepsUnmixed
  <2>4. CASE R!Return(s) /\ Accept(R!Stored(s).chunks[0].data.message)
    <3>1. Accept(m)
      BY <1>1, <2>1, <2>4, ReturnIsTheMessage
    <3> QED
      BY <1>1, <1>4, <2>1, <2>3, <3>1, AcceptCases DEF Observe
  <2>5. CASE Fail("too many incomplete") /\ UNCHANGED <<pending, seen, toLocal>>
    BY <1>4, <2>3, <2>5 DEF Observe, Fail, Failure, Typed
  <2>6. CASE Fail("segment refused") /\ UNCHANGED <<pending, seen, toLocal>>
    BY <1>4, <2>3, <2>6 DEF Observe, Fail, Failure, Typed
  <2>7. CASE UNCHANGED <<state, pending, seen, toLocal>>
    BY <1>4, <2>3, <2>7 DEF Observe
  <2> QED
    BY <1>4, <2>4, <2>5, <2>6, <2>7 DEF ObserveSegment
<1> QED
  BY <1>2, <1>3, <1>4 DEF Observe

-----------------------------------------------------------------------------
(* Counting places of a sequence.                                          *)

LEMMA PlacesCount ==
  ASSUME NEW n \in Nat, NEW T, T \subseteq 1 .. n
  PROVE  /\ IsFiniteSet(T) /\ Cardinality(T) \in Nat /\ Cardinality(T) <= n
         /\ Cardinality(T \cup {n + 1}) = Cardinality(T) + 1
<1>1. IsFiniteSet(1 .. n) /\ Cardinality(1 .. n) = n
  BY FS_Interval
<1>2. IsFiniteSet(T) /\ Cardinality(T) <= n
  BY <1>1, FS_Subset
<1>3. n + 1 \notin T
  OBVIOUS
<1> QED
  BY <1>2, <1>3, FS_CardinalityType, FS_AddElement

(* Append, with the places of the elements.                                *)
LEMMA Appended ==
  ASSUME NEW S, NEW q \in Seq(S), NEW e \in S
  PROVE  /\ Append(q, e) \in Seq(S) /\ Len(q) \in Nat
         /\ DOMAIN q = 1 .. Len(q) /\ DOMAIN Append(q, e) = 1 .. Len(q) + 1
         /\ \A i \in 1 .. Len(q) : Append(q, e)[i] = q[i] /\ q[i] \in S
         /\ Append(q, e)[Len(q) + 1] = e
<1>1. Append(q, e) \in Seq(S) /\ Len(Append(q, e)) = Len(q) + 1
  BY AppendProperties
<1> QED
  BY <1>1, AppendProperties, LenProperties, ElementOfSeq

(* An element taken out: those behind it move up by one.                   *)
LEMMA Removed ==
  ASSUME NEW S, NEW q \in Seq(S), NEW k \in 1 .. Len(q)
  PROVE  /\ RemoveAt(q, k) \in Seq(S) /\ Len(RemoveAt(q, k)) = Len(q) - 1
         /\ \A j \in 1 .. Len(q) - 1 : RemoveAt(q, k)[j] = IF j < k THEN q[j] ELSE q[j + 1]
<1> DEFINE a == SubSeq(q, 1, k - 1)
           b == SubSeq(q, k + 1, Len(q))
<1>1. Len(q) \in Nat /\ \A i \in 1 .. Len(q) : q[i] \in S
  BY LenProperties, ElementOfSeq
<1>2. /\ a \in Seq(S) /\ Len(a) = k - 1
      /\ \A i \in 1 .. k - 1 : a[i] = q[i]
  <2>1. \A i \in 1 .. k - 1 : q[i] \in S
    BY <1>1
  <2> QED
    BY <1>1, <2>1, SubSeqProperties
<1>3. /\ b \in Seq(S) /\ Len(b) = Len(q) - k
      /\ \A i \in 1 .. Len(q) - k : b[i] = q[i + k]
  <2>1. \A i \in k + 1 .. Len(q) : q[i] \in S
    BY <1>1
  <2> QED
    BY <1>1, <2>1, SubSeqProperties
<1>4. /\ a \o b \in Seq(S) /\ Len(a \o b) = Len(q) - 1
      /\ \A i \in 1 .. Len(q) - 1 : (a \o b)[i] = IF i <= k - 1 THEN a[i] ELSE b[i - (k - 1)]
  <2> HIDE DEF a, b
  <2> QED
    BY <1>1, <1>2, <1>3, ConcatProperties
<1>5. RemoveAt(q, k) = a \o b
  BY DEF RemoveAt
<1>6. ASSUME NEW j \in 1 .. Len(q) - 1
      PROVE  (a \o b)[j] = IF j < k THEN q[j] ELSE q[j + 1]
  <2> HIDE DEF a, b
  <2>1. CASE j < k
    BY <1>1, <1>2, <1>4, <2>1
  <2>2. CASE ~ (j < k)
    <3>1. j - (k - 1) \in 1 .. Len(q) - k /\ j - (k - 1) + k = j + 1
      BY <1>1, <2>2
    <3> QED
      BY <1>1, <1>3, <1>4, <2>2, <3>1
  <2> QED
    BY <2>1, <2>2
<1> QED
  BY <1>4, <1>5, <1>6

Places(q, e) == {j \in DOMAIN q : q[j] = e}

(* Which takes the place out of those where the element was.               *)
LEMMA RemovedCount ==
  ASSUME NEW S, NEW q \in Seq(S), NEW k \in 1 .. Len(q), NEW e
  PROVE  Cardinality(Places(RemoveAt(q, k), e)) = Cardinality(Places(q, e) \ {k})
<1> DEFINE r == RemoveAt(q, k)
           n == Len(q)
           A == {j \in DOMAIN r : r[j] = e}
           B == {j \in DOMAIN q : q[j] = e} \ {k}
           f == [j \in A |-> IF j < k THEN j ELSE j + 1]
<1>1. /\ n \in Nat /\ DOMAIN q = 1 .. n /\ DOMAIN r = 1 .. n - 1
      /\ \A j \in 1 .. n - 1 : r[j] = IF j < k THEN q[j] ELSE q[j + 1]
  BY Removed, LenProperties
<1> k \in 1 .. n
  OBVIOUS
<1> HIDE DEF r, n
<1>2. ASSUME NEW j \in A
      PROVE  j \in Nat /\ f[j] \in B
  <2>1. j \in 1 .. n - 1 /\ r[j] = e
    BY <1>1
  <2>2. f[j] \in 1 .. n /\ f[j] # k /\ q[f[j]] = e
    BY <1>1, <2>1
  <2> QED
    BY <1>1, <2>1, <2>2
<1>3. \A i, j \in A : f[i] = f[j] => i = j
  BY <1>2
<1>4. ASSUME NEW i \in B
      PROVE  \E j \in A : f[j] = i
  <2>1. i \in 1 .. n /\ i # k /\ q[i] = e
    BY <1>1
  <2>2. CASE i < k
    <3>1. i \in 1 .. n - 1 /\ r[i] = e
      BY <1>1, <2>1, <2>2
    <3>2. i \in A /\ f[i] = i
      BY <1>1, <2>2, <3>1
    <3> QED
      BY <3>2
  <2>3. CASE ~ (i < k)
    <3>1. i - 1 \in 1 .. n - 1 /\ ~ (i - 1 < k) /\ i - 1 + 1 = i
      BY <1>1, <2>1, <2>3
    <3>2. r[i - 1] = e
      BY <1>1, <2>1, <3>1
    <3>3. i - 1 \in A /\ f[i - 1] = i
      BY <1>1, <3>1, <3>2
    <3> QED
      BY <3>3
  <2> QED
    BY <2>2, <2>3
<1>5. f \in Bijection(A, B)
  <2> HIDE DEF A, B
  <2> QED
    BY <1>2, <1>3, <1>4 DEF Bijection, Injection, Surjection, IsInjective
<1>6. IsFiniteSet(A)
  <2>1. A \subseteq 1 .. n
    BY <1>1
  <2> QED
    BY <1>1, <2>1, PlacesCount
<1> QED
  <2> HIDE DEF A, B, f
  <2>1. ExistsBijection(A, B)
    BY <1>5 DEF ExistsBijection
  <2>2. Cardinality(B) = Cardinality(A)
    BY <1>6, <2>1, FS_Bijection
  <2> QED
    BY <2>2 DEF A, B, r, Places

Less == OpToRel(<, Nat)

(* A set of natural numbers that is not empty has a least element.         *)
LEMMA LeastExists ==
  ASSUME NEW T, T \subseteq Nat, T # {}
  PROVE  Min(T) \in T
<1>1. IsWellFoundedOn(Less, Nat)
  BY ONLY NatLessThanWellFounded DEF Less
<1>2. PICK x \in T : \A y \in T : ~ (<<y, x>> \in Less)
  BY <1>1, WFMin
<1>3. \A i, j \in Nat : <<i, j>> \in Less <=> i < j
  BY DEF Less, OpToRel
<1>4. ASSUME NEW y \in T
      PROVE  x <= y
  <2>1. x \in Nat /\ y \in Nat /\ ~ (y < x)
    BY <1>2, <1>3
  <2> QED
    BY <2>1
<1> QED
  BY <1>4 DEF Min

(* RemoveFirst and Tail take one place out.                                *)
LEMMA RemoveFirstRemoves ==
  ASSUME NEW S, NEW q \in Seq(S), NEW e \in Elements(q)
  PROVE  \E k \in 1 .. Len(q) : q[k] = e /\ RemoveFirst(q, e) = RemoveAt(q, k)
<1> DEFINE I == {i \in 1 .. Len(q) : q[i] = e}
<1>1. Len(q) \in Nat /\ \E i \in 1 .. Len(q) : q[i] = e
  BY LenProperties DEF Elements
<1>2. I \subseteq Nat /\ I # {}
  BY <1>1
<1>3. Min(I) \in I
  <2> HIDE DEF I
  <2> QED
    BY <1>2, LeastExists
<1>4. SelectInSeq(q, LAMBDA v : v = e) = Min(I)
  BY <1>2 DEF SelectInSeq
<1>5. RemoveFirst(q, e) = RemoveAt(q, Min(I))
  BY <1>1, <1>4 DEF RemoveFirst
<1> QED
  BY <1>3, <1>5

LEMMA TailRemoves ==
  ASSUME NEW S, NEW q \in Seq(S), q # <<>>
  PROVE  /\ 1 \in 1 .. Len(q) /\ Head(q) = q[1] /\ Head(q) \in S
         /\ Tail(q) = RemoveAt(q, 1)
<1>1. Len(q) \in Nat \ {0}
  BY EmptySeq
<1>2. 1 \in 1 .. Len(q)
  BY <1>1
<1>3. /\ Tail(q) \in Seq(S) /\ Len(Tail(q)) = Len(q) - 1
      /\ \A i \in 1 .. Len(q) - 1 : Tail(q)[i] = q[i + 1]
  BY HeadTailProperties
<1>4. /\ RemoveAt(q, 1) \in Seq(S) /\ Len(RemoveAt(q, 1)) = Len(q) - 1
      /\ \A i \in 1 .. Len(q) - 1 : RemoveAt(q, 1)[i] = q[i + 1]
  BY <1>1, <1>2, Removed
<1>5. Tail(q) = RemoveAt(q, 1)
  BY <1>1, <1>3, <1>4, SeqEqual
<1> QED
  BY <1>2, <1>5, HeadTailProperties

-----------------------------------------------------------------------------
(* The next message of the inbox, as the bridge takes it.                  *)
LEMMA Taken ==
  ASSUME Typed, NEW kinds, TakesLocal(kinds)
  PROVE  /\ Head(inbox) \in LocalMessages /\ Head(inbox).kind \in AllLocalKinds /\ Head(inbox).id \in Nat
         /\ inbox' \in Seq(LocalMessages)
         /\ Bridging /\ Head(inbox).kind \in kinds /\ UNCHANGED <<toLocal, localSent, sent, cursor>>
<1>1. inbox \in Seq(LocalMessages) /\ inbox # <<>>
  BY DEF TakesLocal, Typed
<1>2. Head(inbox) \in LocalMessages /\ Tail(inbox) \in Seq(LocalMessages)
  BY <1>1, HeadTailProperties
<1> QED
  BY <1>2, LocalMessageForm DEF TakesLocal

LEMMA OutgoingTyped ==
  ASSUME Typed, NEW m \in LocalMessages, NEW s \in Nat, NEW n \in Nat, Outgoing(m, s, n)
  PROVE  wire' \in Seq(Envelopes) /\ nextSeq' \in Nat
<1>1. Envelope(m, s, n) \in Envelopes
  BY LocalMessageForm DEF Envelope, Envelopes
<1> QED
  BY <1>1, AppendProperties DEF Outgoing, Typed

(* The host's next message is one, and numbered past the stream's others.  *)
LEMMA HostSendsTyped ==
  ASSUME Typed,
         NEW s \in StreamIds, NEW p \in HostPayloads, NEW n \in PartCounts, HostSends(s, p, n)
  PROVE  /\ Message(s, OnStreamCount(s) + 1, p, n) \in ServerMessages
         /\ sent' \in Seq(ServerMessages)
<1>1. Len(sent) \in Nat /\ DOMAIN sent = 1 .. Len(sent)
  BY LenProperties DEF Typed
<1>2. OnStreamCount(s) \in Nat /\ OnStreamCount(s) <= Len(sent)
  BY <1>1, PlacesCount DEF OnStreamCount
<1>3. Len(sent) < around.maxServer /\ around.maxServer \in 0 .. MaxServer /\ MaxServer \in Nat
  BY SurroundingsAssumption, BoundsAssumption DEF HostSends, Typed
<1>4. OnStreamCount(s) + 1 \in 1 .. MaxServer
  BY <1>1, <1>2, <1>3
<1>5. Message(s, OnStreamCount(s) + 1, p, n) \in ServerMessages
  BY <1>4 DEF ServerMessages
<1> QED
  BY <1>5, AppendProperties DEF HostSends, Typed

LEMMA DeliveryTyped ==
  ASSUME Typed, NEW m \in Elements(sent), Delivery(m)
  PROVE  seen' \in Nat /\ pending' \in Seq(Nat) /\ toLocal' \in Seq(Deliveries)
<1>1. m \in Deliveries /\ m.seq \in Nat
  BY SentTyped, MessageForm
<1>2. ASSUME NEW id \in Nat, ToLocal(m, id)
      PROVE  toLocal' \in Seq(Deliveries)
  <2> DEFINE d == [stream |-> m.stream, seq |-> m.seq, kind |-> m.kind,
                   id |-> id, of |-> m.of, parts |-> m.parts]
  <2>1. d \in Deliveries
    BY <1>1 DEF Deliveries
  <2> HIDE DEF d
  <2>2. toLocal' = Append(toLocal, d)
    BY <1>2 DEF ToLocal, d
  <2> QED
    BY <2>1, <2>2, AppendProperties DEF Typed
<1>3. pending \in Seq(Nat)
  BY DEF Typed
<1>4. CASE m.kind = "error"
  <2>1. pending # <<>> /\ ToLocal(m, Head(pending)) /\ pending' = Tail(pending)
    BY <1>4 DEF Delivery
  <2> QED
    BY <1>1, <1>2, <1>3, <2>1, HeadTailProperties DEF Delivery
<1>5. CASE m.kind # "error"
  <2>1. m.id \in Nat
    BY <1>1 DEF Deliveries
  <2>2. pending' \in Seq(Nat)
    BY <1>3, <1>5, RemoveFirstRemoves, Removed DEF Delivery
  <2> QED
    BY <1>1, <1>2, <1>5, <2>1, <2>2 DEF Delivery
<1> QED
  BY <1>4, <1>5

LEMMA NextTyped ==
  ASSUME Typed, SentInv, AssembliesAreUnmixed, [Next]_vars
  PROVE  Typed'
<1> USE DEF bridge, reassembler
<1>1. ASSUME NEW m \in LocalMessages, LocalSends(m)
      PROVE  Typed'
  <2>1. localSent' \in Seq(LocalMessages) /\ inbox' \in Seq(LocalMessages)
    BY <1>1, AppendProperties DEF LocalSends, Typed
  <2> QED
    BY <1>1, <2>1 DEF LocalSends, Typed, Next, vars
<1>2. ASSUME NEW s \in StreamIds, NEW p \in HostPayloads, NEW n \in PartCounts, HostSends(s, p, n)
      PROVE  Typed'
  BY <1>2, HostSendsTyped DEF HostSends, Typed, Next, vars
<1>3. CASE ForwardInitialize
  <2>1. Head(inbox) \in LocalMessages /\ Head(inbox).id \in Nat /\ inbox' \in Seq(LocalMessages)
        /\ UNCHANGED <<toLocal, localSent, sent>>
    BY <1>3, Taken DEF ForwardInitialize
  <2>2. stream + 1 \in Nat
    BY DEF Typed
  <2>3. wire' \in Seq(Envelopes) /\ nextSeq' \in Nat
    BY <1>3, <2>1, <2>2, OutgoingTyped DEF ForwardInitialize
  <2>4. <<Head(inbox).id>> \in Seq(Nat)
    BY <2>1
  <2> QED
    BY <1>3, <2>1, <2>2, <2>3, <2>4 DEF ForwardInitialize, Typed, None, Next, vars
<1>4. CASE ForwardOther
  <2>1. Head(inbox) \in LocalMessages /\ Head(inbox).id \in Nat /\ inbox' \in Seq(LocalMessages)
        /\ UNCHANGED <<toLocal, localSent, sent>>
    BY <1>4, Taken DEF ForwardOther
  <2>2. wire' \in Seq(Envelopes) /\ nextSeq' \in Nat
    BY <1>4, <2>1, OutgoingTyped DEF ForwardOther, Typed
  <2>3. pending' \in Seq(Nat)
    BY <1>4, <2>1, AppendProperties DEF ForwardOther, Typed
  <2> QED
    BY <1>4, <2>1, <2>2, <2>3 DEF ForwardOther, Typed, Next, vars
<1>5. CASE CloseLocal
  <2>1. Head(inbox) \in LocalMessages /\ inbox' \in Seq(LocalMessages)
        /\ UNCHANGED <<toLocal, localSent, sent>>
    BY <1>5, Taken DEF CloseLocal
  <2>2. Envelope(Head(inbox), stream, nextSeq) \in Envelopes
    BY <2>1, LocalMessageForm DEF Envelope, Envelopes, Typed
  <2>3. wire' \in Seq(Envelopes)
    <3> DEFINE e == Envelope(Head(inbox), stream, nextSeq)
    <3>1. e \in Envelopes /\ wire \in Seq(Envelopes) /\ (wire' = Append(wire, e) \/ wire' = wire)
      BY <1>5, <2>2 DEF CloseLocal, Typed
    <3> HIDE DEF e
    <3>2. Append(wire, e) \in Seq(Envelopes)
      BY <3>1, AppendProperties
    <3> QED
      BY <3>1, <3>2
  <2> QED
    BY <1>5, <2>1, <2>3 DEF CloseLocal, Typed, Next, vars
<1>6. ASSUME NEW i \in DOMAIN sent, NEW part \in {1, 2}, Observe(i, part)
      PROVE  Typed'
  <2>1. UNCHANGED <<stream, nextSeq, inbox, wire, localSent, sent, around>>
    BY <1>6, ObserveCases DEF Next, vars
  <2>2. seen' \in Nat /\ pending' \in Seq(Nat) /\ toLocal' \in Seq(Deliveries)
    <3>1. CASE UNCHANGED <<state, pending, seen, toLocal>>
      BY <3>1 DEF Typed
    <3>2. CASE Failure
      BY <3>2 DEF Failure, Typed
    <3>3. CASE \E m \in Elements(sent) : Delivery(m)
      BY <3>3, DeliveryTyped
    <3> QED
      BY <1>6, <3>1, <3>2, <3>3, ObserveCases
  <2> QED
    BY <2>1, <2>2 DEF Typed
<1>7. CASE ConnectionFails
  BY <1>7 DEF ConnectionFails, Typed, Next, vars
<1>8. CASE UNCHANGED vars
  BY <1>8 DEF vars, Typed
<1> QED
  BY <1>1, <1>2, <1>3, <1>4, <1>5, <1>6, <1>7, <1>8 DEF Next, Step, TakeLocal, TakeFrame

-----------------------------------------------------------------------------
(* The host's next number is past all those of the stream.                 *)
LEMMA HostSendsKeepsSentInv ==
  ASSUME Typed, SentInv,
         NEW s \in StreamIds, NEW p \in HostPayloads, NEW n \in PartCounts, HostSends(s, p, n)
  PROVE  SentInv'
<1> DEFINE m == Message(s, OnStreamCount(s) + 1, p, n)
           k == Len(sent)
           On(x) == {i \in DOMAIN sent : sent[i].stream = x}
           Count(x) == Cardinality({i \in DOMAIN sent' : sent'[i].stream = x})
<1>1. m \in ServerMessages /\ m.stream = s /\ m.seq = OnStreamCount(s) + 1
  <2>1. m \in ServerMessages
    BY HostSendsTyped
  <2> QED
    BY <2>1 DEF Message
<1>2. /\ k \in Nat /\ DOMAIN sent = 1 .. k /\ DOMAIN sent' = 1 .. k + 1
      /\ \A i \in 1 .. k : sent'[i] = sent[i] /\ sent[i] \in ServerMessages
      /\ sent'[k + 1] = m
  <2>1. sent' = Append(sent, m)
    BY DEF HostSends
  <2> HIDE DEF m
  <2> QED
    BY <1>1, <2>1, Appended DEF Typed
<1> HIDE DEF m, k
<1>3. \A x : On(x) \subseteq 1 .. k
  BY <1>2
<1>4. \A x : OnStreamCount(x) = Cardinality(On(x)) /\ OnStreamCount(x) \in Nat
  BY <1>2, <1>3, PlacesCount DEF OnStreamCount
<1>5. ASSUME NEW x
      PROVE  Count(x) = IF x = s THEN OnStreamCount(x) + 1 ELSE OnStreamCount(x)
  <2>1. CASE x = s
    <3>1. {i \in DOMAIN sent' : sent'[i].stream = x} = On(x) \cup {k + 1}
      BY <1>1, <1>2, <2>1
    <3>2. Cardinality(On(x) \cup {k + 1}) = Cardinality(On(x)) + 1
      BY <1>2, <1>3, PlacesCount
    <3> QED
      BY <1>4, <2>1, <3>1, <3>2 DEF OnStreamCount
  <2>2. CASE x # s
    <3>1. {i \in DOMAIN sent' : sent'[i].stream = x} = On(x)
      BY <1>1, <1>2, <2>2
    <3> QED
      BY <1>4, <2>2, <3>1 DEF OnStreamCount
  <2> QED
    BY <2>1, <2>2
<1> HIDE DEF Count
<1>6. \A i \in 1 .. k : sent[i].seq \in Nat
  BY <1>2, MessageForm
<1>7. ASSUME NEW i \in DOMAIN sent'
      PROVE  sent'[i].seq <= Count(sent'[i].stream)
  <2>1. CASE i \in 1 .. k
    <3>1. sent[i].seq <= OnStreamCount(sent[i].stream)
      BY <1>2, <2>1 DEF SentInv
    <3>2. OnStreamCount(sent[i].stream) <= Count(sent[i].stream)
      BY <1>4, <1>5
    <3> QED
      BY <1>2, <1>4, <1>5, <1>6, <2>1, <3>1, <3>2
  <2>2. CASE i = k + 1
    BY <1>1, <1>2, <1>4, <1>5, <2>2
  <2> QED
    BY <1>2, <2>1, <2>2
<1>8. ASSUME NEW i \in 1 .. k, sent[i].stream = s
      PROVE  sent[i].seq # m.seq
  <2>1. sent[i].seq <= OnStreamCount(s)
    BY <1>2, <1>8 DEF SentInv
  <2>2. sent[i].seq \in Nat /\ OnStreamCount(s) \in Nat /\ m.seq = OnStreamCount(s) + 1
    BY <1>1, <1>4, <1>6, <1>8
  <2> QED
    BY <2>1, <2>2
<1>9. ASSUME NEW i \in DOMAIN sent', NEW j \in DOMAIN sent',
             sent'[i].stream = sent'[j].stream, sent'[i].seq = sent'[j].seq
      PROVE  i = j
  <2>1. CASE i \in 1 .. k /\ j \in 1 .. k
    BY <1>2, <1>9, <2>1 DEF SentInv
  <2>2. CASE i \in 1 .. k /\ j = k + 1
    BY <1>1, <1>2, <1>8, <1>9, <2>2
  <2>3. CASE i = k + 1 /\ j \in 1 .. k
    BY <1>1, <1>2, <1>8, <1>9, <2>3
  <2> QED
    BY <1>2, <2>1, <2>2, <2>3
<1> QED
  BY <1>7, <1>9 DEF SentInv, OnStreamCount, Count

LEMMA NextKeepsSentInv ==
  ASSUME Typed, SentInv, AssembliesAreUnmixed, [Next]_vars
  PROVE  SentInv'
<1>1. UNCHANGED sent => SentInv'
  BY DEF SentInv, OnStreamCount
<1>2. ASSUME NEW s \in StreamIds, NEW p \in HostPayloads, NEW n \in PartCounts, HostSends(s, p, n)
      PROVE  SentInv'
  BY <1>2, HostSendsKeepsSentInv
<1>3. ASSUME NEW i \in DOMAIN sent, NEW part \in {1, 2}, Observe(i, part)
      PROVE  UNCHANGED sent
  BY <1>3 DEF Observe
<1> QED
  BY <1>1, <1>2, <1>3
     DEF Next, Step, TakeLocal, TakeFrame, TakesLocal, LocalSends, ForwardInitialize, ForwardOther, CloseLocal,
         ConnectionFails, vars

LEMMA NextKeepsUnmixed ==
  ASSUME Typed, SentInv, AssembliesAreUnmixed, [Next]_vars
  PROVE  AssembliesAreUnmixed'
<1> USE DEF bridge, reassembler
<1>1. CASE UNCHANGED <<assemblies, stream, sent>>
  BY <1>1 DEF AssembliesAreUnmixed
<1>2. ASSUME NEW s \in StreamIds, NEW p \in HostPayloads, NEW n \in PartCounts, HostSends(s, p, n)
      PROVE  AssembliesAreUnmixed'
  <2>1. sent' = Append(sent, Message(s, OnStreamCount(s) + 1, p, n)) /\ UNCHANGED <<assemblies, stream>>
    BY <1>2 DEF HostSends
  <2>2. /\ DOMAIN sent \subseteq DOMAIN sent'
        /\ \A i \in DOMAIN sent : sent'[i] = sent[i]
    <3> DEFINE m == Message(s, OnStreamCount(s) + 1, p, n)
    <3>1. m \in ServerMessages
      BY <1>2, HostSendsTyped
    <3> HIDE DEF m
    <3>2. sent' = Append(sent, m)
      BY <2>1 DEF m
    <3> QED
      BY <3>1, <3>2, Appended DEF Typed
  <2>3. Elements(sent) \subseteq Elements(sent')
    BY <2>2 DEF Elements
  <2> QED
    BY <2>1, <2>3 DEF AssembliesAreUnmixed
<1>3. CASE ForwardInitialize
  BY <1>3 DEF ForwardInitialize, AssembliesAreUnmixed
<1>4. ASSUME NEW i \in DOMAIN sent, NEW part \in {1, 2}, Observe(i, part)
      PROVE  AssembliesAreUnmixed'
  BY <1>4, ObserveCases
<1> QED
  BY <1>1, <1>2, <1>3, <1>4
     DEF Next, Step, TakeLocal, TakeFrame, TakesLocal, LocalSends, ForwardOther, CloseLocal, ConnectionFails, vars

(* A delivery adds to what was delivered, on the stream and at its place.  *)
LEMMA DeliveryAppends ==
  ASSUME Typed, NEW m \in Elements(sent), Delivery(m)
  PROVE  /\ DOMAIN toLocal = 1 .. Len(toLocal) /\ DOMAIN toLocal' = 1 .. Len(toLocal) + 1
         /\ Len(toLocal) \in Nat /\ Len(toLocal') = Len(toLocal) + 1
         /\ \A i \in 1 .. Len(toLocal) : toLocal'[i] = toLocal[i] /\ toLocal[i] \in Deliveries
         /\ LET d == toLocal'[Len(toLocal) + 1] IN
              /\ d.stream = m.stream /\ d.seq = m.seq /\ AsSent(d) = m
              /\ d.kind = m.kind
              /\ m.kind = "error" => d.id = Head(pending)
<1> DEFINE Given(id) == [stream |-> m.stream, seq |-> m.seq, kind |-> m.kind,
                         id |-> id, of |-> m.of, parts |-> m.parts]
<1>1. m \in Deliveries /\ (m.kind = "error" => m.id = NoId)
  BY SentTyped, MessageForm
<1>2. PICK id : toLocal' = Append(toLocal, Given(id)) /\ (m.kind = "error" => id = Head(pending))
                /\ (m.kind # "error" => id = m.id)
  BY DEF Delivery, ToLocal
<1>3. toLocal \in Seq(Deliveries) /\ toLocal' \in Seq(Deliveries)
  BY DeliveryTyped DEF Typed
<1>4. /\ Len(toLocal) \in Nat /\ DOMAIN toLocal = 1 .. Len(toLocal)
      /\ \A i \in 1 .. Len(toLocal) : toLocal[i] \in Deliveries
  BY <1>3, LenProperties, ElementOfSeq
<1>5. /\ Len(toLocal') = Len(toLocal) + 1
      /\ \A i \in 1 .. Len(toLocal) : toLocal'[i] = toLocal[i]
      /\ toLocal'[Len(toLocal) + 1] = Given(id)
  <2> DEFINE d == Given(id)
  <2> HIDE DEF d
  <2>1. toLocal' = Append(toLocal, d)
    BY <1>2 DEF d
  <2> QED
    BY <1>3, <1>4, <2>1 DEF d
<1>6. DOMAIN toLocal' = 1 .. Len(toLocal) + 1
  BY <1>3, <1>5, LenProperties
<1>7. AsSent(Given(id)) = m
  BY <1>1, <1>2 DEF AsSent, Deliveries
<1> QED
  BY <1>2, <1>4, <1>5, <1>6, <1>7

LEMMA NextKeepsDeliveredInv ==
  ASSUME Typed, SentInv, AssembliesAreUnmixed, DeliveredInv, [Next]_vars
  PROVE  DeliveredInv'
<1> USE DEF bridge, reassembler
<1>1. CASE UNCHANGED <<state, stream, seen, toLocal>>
  BY <1>1 DEF DeliveredInv, Bridging
<1>2. CASE ForwardInitialize
  <2>1. UNCHANGED toLocal /\ stream' = stream + 1 /\ seen' = None
    BY <1>2, Taken DEF ForwardInitialize
  <2>2. \A i \in DOMAIN toLocal : toLocal[i].stream \in Nat
    <3>1. toLocal \in Seq(Deliveries)
      BY DEF Typed
    <3>2. \A i \in DOMAIN toLocal : toLocal[i] \in Deliveries
      BY <3>1, LenProperties, ElementOfSeq
    <3> QED
      BY <3>2 DEF Deliveries
  <2> QED
    BY <2>1, <2>2 DEF DeliveredInv, Typed
<1>3. CASE ~ Bridging' /\ UNCHANGED <<stream, toLocal>>
  BY <1>3 DEF DeliveredInv
<1>4. ASSUME NEW i \in DOMAIN sent, NEW part \in {1, 2}, Observe(i, part)
      PROVE  DeliveredInv'
  <2>1. UNCHANGED stream
    BY <1>4, ObserveCases
  <2>2. CASE Failure
    BY <1>3, <2>1, <2>2 DEF Failure, Bridging
  <2>3. ASSUME NEW m \in Elements(sent), Delivery(m)
        PROVE  DeliveredInv'
    <3>1. m.stream = stream /\ seen' = m.seq /\ m.seq # None
      BY <2>3, SentTyped, MessageForm DEF Delivery, None
    <3>2. /\ Len(toLocal) \in Nat /\ DOMAIN toLocal' = 1 .. Len(toLocal) + 1
          /\ Len(toLocal') = Len(toLocal) + 1 /\ DOMAIN toLocal = 1 .. Len(toLocal)
          /\ \A x \in 1 .. Len(toLocal) : toLocal'[x] = toLocal[x]
          /\ toLocal'[Len(toLocal) + 1].stream = m.stream /\ toLocal'[Len(toLocal) + 1].seq = m.seq
      BY <2>3, DeliveryAppends
    <3>3. ASSUME NEW x \in DOMAIN toLocal'
          PROVE  toLocal'[x].stream <= stream
      <4>1. CASE x \in 1 .. Len(toLocal)
        BY <3>2, <4>1 DEF DeliveredInv
      <4>2. CASE x = Len(toLocal) + 1
        BY <3>1, <3>2, <4>2 DEF Typed
      <4> QED
        BY <3>2, <4>1, <4>2
    <3>4. toLocal' # <<>>
      BY <3>2
    <3> QED
      BY <2>1, <3>1, <3>2, <3>3, <3>4 DEF DeliveredInv
  <2> QED
    BY <1>1, <1>4, <2>1, <2>2, <2>3, ObserveCases
<1>5. CASE CloseLocal
  BY <1>3, <1>5, Taken DEF CloseLocal, Bridging
<1>6. CASE ConnectionFails
  BY <1>3, <1>6 DEF ConnectionFails, Fail, Bridging
<1> QED
  BY <1>1, <1>2, <1>4, <1>5, <1>6
     DEF Next, Step, TakeLocal, TakeFrame, TakesLocal, LocalSends, HostSends, ForwardOther, vars

-----------------------------------------------------------------------------
(* The inductive invariant of the bridge's reading side.                   *)
ReadingInv == Typed /\ SentInv /\ AssembliesAreUnmixed /\ DeliveredInv

LEMMA InitEstablishesReadingInv ==
  ASSUME Init
  PROVE  ReadingInv
<1>1. Typed
  BY BoundsAssumption DEF Init, Typed, None
<1>2. SentInv /\ DeliveredInv
  BY DEF Init, SentInv, DeliveredInv, None, Bridging
<1>3. AssembliesAreUnmixed
  BY DEF Init, R!Init, AssembliesAreUnmixed
<1> QED
  BY <1>1, <1>2, <1>3 DEF ReadingInv

(* Whatever the relay repeats, holds or reorders, what the bridge knows of *)
(* the host's messages is typed, numbered and in its place.                *)
THEOREM BridgeReadingInv == Spec => []ReadingInv
<1>1. Init => ReadingInv
  BY InitEstablishesReadingInv
<1>2. ReadingInv /\ [Next]_vars => ReadingInv'
  BY NextTyped, NextKeepsSentInv, NextKeepsUnmixed, NextKeepsDeliveredInv DEF ReadingInv
<1> QED
  BY <1>1, <1>2, PTL DEF Spec

(* Segments of two messages never meet in an assembly, and none of a stream*)
(* the client has left holds a slot (observe_server_envelope and the       *)
(* reassembler's keys), for every relay and every bound.                   *)
THEOREM AlwaysUnmixed == Spec => []AssembliesAreUnmixed
<1>1. ReadingInv => AssembliesAreUnmixed
  BY DEF ReadingInv
<1> QED
  BY <1>1, BridgeReadingInv, PTL

-----------------------------------------------------------------------------
(* What the bridge promises.                                               *)
Given == [i \in DOMAIN toLocal |-> AsSent(toLocal[i])]

LEMMA GivenTyped ==
  ASSUME Typed
  PROVE  /\ Given \in Seq(Deliveries) /\ Len(Given) = Len(toLocal) /\ Len(toLocal) \in Nat
         /\ DOMAIN Given = 1 .. Len(toLocal)
         /\ \A i \in 1 .. Len(toLocal) :
              Given[i].stream = toLocal[i].stream /\ Given[i].seq = toLocal[i].seq
<1>1. toLocal \in Seq(Deliveries)
  BY DEF Typed
<1>2. /\ Len(toLocal) \in Nat /\ DOMAIN toLocal = 1 .. Len(toLocal)
      /\ \A i \in 1 .. Len(toLocal) : toLocal[i] \in Deliveries
  BY <1>1, LenProperties, ElementOfSeq
<1>3. ASSUME NEW d \in Deliveries
      PROVE  AsSent(d) \in Deliveries /\ AsSent(d).stream = d.stream /\ AsSent(d).seq = d.seq
  BY DEF AsSent, Deliveries, NoId
<1>4. Given \in [1 .. Len(toLocal) -> Deliveries]
  BY <1>2, <1>3 DEF Given
<1>5. Given \in Seq(Deliveries) /\ Len(Given) = Len(toLocal)
  BY <1>2, <1>4, LenProperties
<1> QED
  BY <1>2, <1>3, <1>5 DEF Given

(* Each delivery is the promise's: the host's own message, the next of the *)
(* stream or the first of it.                                              *)
LEMMA DeliveryIsPromised ==
  ASSUME ReadingInv, Bridging, NEW m \in Elements(sent), Delivery(m), UNCHANGED <<stream, sent>>
  PROVE  Promise!Deliver(m)
<1> USE DEF ReadingInv
<1> DEFINE n == Len(toLocal)
<1>1. /\ Given \in Seq(Deliveries) /\ Len(Given) = n /\ n \in Nat /\ DOMAIN Given = 1 .. n
      /\ \A i \in 1 .. n : Given[i].stream = toLocal[i].stream /\ Given[i].seq = toLocal[i].seq
  BY GivenTyped
<1>2. /\ DOMAIN toLocal = 1 .. n /\ DOMAIN toLocal' = 1 .. n + 1
      /\ \A i \in 1 .. n : toLocal'[i] = toLocal[i]
      /\ AsSent(toLocal'[n + 1]) = m
  BY DeliveryAppends
<1>3. m \in Deliveries
  BY SentTyped, MessageForm
<1>4. Given' = Append(Given, m)
  <2>1. /\ DOMAIN Append(Given, m) = 1 .. n + 1
        /\ \A i \in 1 .. n : Append(Given, m)[i] = Given[i]
        /\ Append(Given, m)[n + 1] = m
        /\ Append(Given, m) \in Seq(Deliveries)
    BY <1>1, <1>3, Appended
  <2>2. Given' = [i \in DOMAIN toLocal' |-> AsSent(toLocal'[i])]
    BY DEF Given, AsSent
  <2>3. ASSUME NEW i \in 1 .. n + 1
        PROVE  Given'[i] = Append(Given, m)[i]
    <3>1. CASE i \in 1 .. n
      BY <1>2, <2>1, <2>2, <3>1 DEF Given
    <3>2. CASE i = n + 1
      BY <1>2, <2>1, <2>2, <3>2
    <3> QED
      BY <1>1, <3>1, <3>2
  <2>4. DOMAIN Given' = 1 .. n + 1 /\ Given' = [i \in 1 .. n + 1 |-> Given'[i]]
    BY <1>2, <2>2
  <2>5. Append(Given, m) = [i \in 1 .. n + 1 |-> Append(Given, m)[i]]
    BY <2>1, LenProperties
  <2> HIDE DEF Given
  <2> QED
    BY <2>3, <2>4, <2>5
<1>5. CASE seen = None
  <2>1. \A i \in 1 .. n : Given[i].stream # stream
    BY <1>1, <1>2, <1>5 DEF DeliveredInv
  <2>2. Promise!IsFirst
    BY <1>1, <2>1 DEF Promise!IsFirst, Promise!Elements, Given
  <2> QED
    BY <1>4, <2>2 DEF Promise!Deliver, Delivery, Given, Bridging
<1>6. CASE seen # None
  <2>1. toLocal # <<>> /\ toLocal[n].stream = stream /\ toLocal[n].seq = seen
    BY <1>6 DEF DeliveredInv
  <2>2. n \in 1 .. n
    <3>1. n # 0
      BY <2>1, EmptySeq DEF Typed
    <3> QED
      BY <1>1, <3>1
  <2>3. m.seq = seen + 1 /\ m.stream = stream
    BY <1>6 DEF Delivery, IsNext
  <2>4. Given[Len(Given)].stream = m.stream /\ m.seq = Given[Len(Given)].seq + 1
    BY <1>1, <2>1, <2>2, <2>3
  <2>5. Promise!Follows(m)
    BY <2>4 DEF Promise!Follows, Given
  <2> QED
    BY <1>4, <2>5 DEF Promise!Deliver, Delivery, Given, Bridging
<1> QED
  BY <1>5, <1>6

LEMMA StepIsPromised ==
  ASSUME ReadingInv, [Next]_vars
  PROVE  [Promise!Next]_Promise!vars
<1> USE DEF bridge, reassembler
<1>1. CASE UNCHANGED <<state, stream, toLocal, sent>>
  <2>1. UNCHANGED Promise!vars
    BY <1>1 DEF Promise!vars, Bridging, AsSent
  <2> QED
    BY <2>1
<1>2. CASE Bridging /\ ~ Bridging' /\ UNCHANGED <<stream, toLocal, sent>>
  <2>1. Promise!GoDown
    BY <1>2 DEF Promise!GoDown, AsSent
  <2> QED
    BY <2>1 DEF Promise!Next
<1>3. ASSUME NEW s \in StreamIds, NEW p \in HostPayloads, NEW n \in PartCounts, HostSends(s, p, n)
      PROVE  Promise!Next
  <2> DEFINE m == Message(s, OnStreamCount(s) + 1, p, n)
  <2>1. m \in ServerMessages
    BY <1>3, HostSendsTyped DEF ReadingInv
  <2>2. m.stream = s /\ m.seq = OnStreamCount(s) + 1
    BY DEF Message
  <2>3. OnStreamCount(s) = Cardinality({i \in DOMAIN sent : sent[i].stream = s}) /\ OnStreamCount(s) \in Nat
    <3>1. Len(sent) \in Nat /\ DOMAIN sent = 1 .. Len(sent)
      BY LenProperties DEF ReadingInv, Typed
    <3> QED
      BY <3>1, PlacesCount DEF OnStreamCount
  <2>4. sent' = Append(sent, m) /\ UNCHANGED <<state, stream, toLocal>>
    BY <1>3 DEF HostSends
  <2> HIDE DEF m
  <2>5. m.seq = 1 + Cardinality({i \in DOMAIN sent : sent[i].stream = m.stream})
    BY <2>2, <2>3
  <2>6. Promise!Send(m)
    <3>1. Promise!Cardinality({i \in DOMAIN sent : sent[i].stream = m.stream})
            = Cardinality({i \in DOMAIN sent : sent[i].stream = m.stream})
      BY ONLY Zenon DEF Promise!Cardinality, Cardinality
    <3> QED
      BY ONLY <2>4, <2>5, <3>1 DEF Promise!Send, Bridging, AsSent
  <2> QED
    BY <2>1, <2>6 DEF Promise!Next
<1>4. CASE ForwardInitialize
  <2>1. Promise!Reopen
    BY <1>4, Taken DEF ForwardInitialize, Promise!Reopen, Bridging, AsSent, ReadingInv
  <2> QED
    BY <2>1 DEF Promise!Next
<1>5. ASSUME NEW i \in DOMAIN sent, NEW part \in {1, 2}, Observe(i, part)
      PROVE  [Promise!Next]_Promise!vars
  <2>1. Bridging /\ UNCHANGED <<stream, sent>>
    BY <1>5, ObserveCases DEF ReadingInv
  <2>2. CASE Failure
    BY <1>2, <2>1, <2>2 DEF Failure, Bridging
  <2>3. ASSUME NEW m \in Elements(sent), Delivery(m)
        PROVE  Promise!Next
    <3>1. Promise!Deliver(m)
      BY <2>1, <2>3, DeliveryIsPromised
    <3>2. m \in Promise!Elements(sent)
      BY DEF Elements, Promise!Elements
    <3> QED
      BY <3>1, <3>2 DEF Promise!Next
  <2> QED
    BY <1>1, <1>5, <2>1, <2>2, <2>3, ObserveCases DEF ReadingInv
<1>6. CASE CloseLocal
  BY <1>2, <1>6, Taken DEF CloseLocal, Bridging, ReadingInv
<1>7. CASE ConnectionFails
  BY <1>2, <1>7 DEF ConnectionFails, Fail, Bridging
<1> QED
  BY <1>1, <1>3, <1>4, <1>5, <1>6, <1>7
     DEF Next, Step, TakeLocal, TakeFrame, TakesLocal, LocalSends, ForwardOther, vars

(* The bridge implements StreamDelivery: whatever the relay holds, repeats *)
(* or reorders, the client gets the host's messages of a stream in order,  *)
(* each once, complete and unmixed, and none of a stream it has left.      *)
THEOREM BridgeImplementsStreamDelivery == Spec => ImplementsStreamDelivery
<1>1. Init => Promise!Init
  BY DEF Init, Promise!Init, Bridging
<1>2. ReadingInv /\ [Next]_vars => [Promise!Next]_Promise!vars
  BY StepIsPromised
<1> QED
  BY <1>1, <1>2, BridgeReadingInv, PTL DEF Spec, ImplementsStreamDelivery, Promise!Spec

-----------------------------------------------------------------------------
(* What the relay gets.                                                    *)

(* The wire has the first of what was sent, and as long as the bridge goes *)
(* on the inbox has the rest.                                              *)
NothingLost ==
  /\ Len(wire) <= Len(localSent)
  /\ \A i \in DOMAIN wire : Shape(wire[i]) = localSent[i]
  /\ Bridging => /\ Len(localSent) = Len(wire) + Len(inbox)
                 /\ \A i \in DOMAIN inbox : inbox[i] = localSent[Len(wire) + i]

(* The envelopes of a stream count up, streams are taken in order, and the *)
(* next number is past those of the current one.                           *)
Numbered ==
  /\ \A i \in DOMAIN wire :
       /\ wire[i].seq = Cardinality({j \in 1 .. i : wire[j].stream = wire[i].stream})
       /\ wire[i].stream <= stream
       /\ \A j \in 1 .. i : wire[j].stream <= wire[i].stream
  /\ Bridging => nextSeq = 1 + Cardinality({j \in DOMAIN wire : wire[j].stream = stream})

(* The bridge sends the message at the head of the inbox.                  *)
Sends(s, n) ==
  /\ Bridging /\ inbox # <<>> /\ inbox' = Tail(inbox) /\ UNCHANGED localSent
  /\ wire' = Append(wire, Envelope(Head(inbox), s, n)) /\ stream' = s

LEMMA LensTyped ==
  ASSUME Typed
  PROVE  /\ DOMAIN wire = 1 .. Len(wire) /\ DOMAIN inbox = 1 .. Len(inbox)
         /\ DOMAIN localSent = 1 .. Len(localSent)
         /\ Len(wire) \in Nat /\ Len(inbox) \in Nat /\ Len(localSent) \in Nat
         /\ \A i \in 1 .. Len(wire) : wire[i] \in Envelopes
         /\ \A i \in 1 .. Len(localSent) : localSent[i] \in LocalMessages
BY LenProperties, ElementOfSeq DEF Typed

LEMMA SendsKeepsNothingLost ==
  ASSUME Typed, NothingLost, NEW s \in Nat, NEW n \in Nat, Sends(s, n)
  PROVE  NothingLost'
<1> DEFINE e == Envelope(Head(inbox), s, n)
           k == Len(wire)
<1>1. /\ Head(inbox) \in LocalMessages /\ Head(inbox) = inbox[1] /\ Len(inbox) # 0
      /\ inbox' \in Seq(LocalMessages) /\ Len(inbox') = Len(inbox) - 1
      /\ \A i \in 1 .. Len(inbox) - 1 : inbox'[i] = inbox[i + 1]
  <2>1. inbox \in Seq(LocalMessages) /\ inbox # <<>>
    BY DEF Typed, Sends
  <2>2. Len(inbox) # 0
    BY <2>1, EmptySeq
  <2> QED
    BY <2>1, <2>2, HeadTailProperties DEF Sends
<1>2. e \in Envelopes
  BY <1>1, LocalMessageForm DEF Envelope, Envelopes
<1>3. Shape(e) = Head(inbox)
  BY <1>1 DEF Shape, Envelope, LocalMessages
<1>4. /\ k \in Nat /\ DOMAIN wire = 1 .. k /\ DOMAIN wire' = 1 .. k + 1 /\ Len(wire') = k + 1
      /\ \A i \in 1 .. k : wire'[i] = wire[i]
      /\ wire'[k + 1] = e
  <2>1. wire' = Append(wire, e)
    BY DEF Sends
  <2> HIDE DEF e
  <2> QED
    BY <1>2, <2>1, Appended, LensTyped, AppendProperties DEF Typed
<1> HIDE DEF e, k
<1>5. DOMAIN inbox' = 1 .. Len(inbox) - 1 /\ DOMAIN inbox = 1 .. Len(inbox) /\ Len(inbox) \in Nat
      /\ Len(localSent) \in Nat /\ UNCHANGED localSent /\ DOMAIN localSent = 1 .. Len(localSent)
  BY <1>1, LensTyped, LenProperties DEF Sends
<1>6. Len(localSent) = k + Len(inbox) /\ Head(inbox) = localSent[k + 1]
  <2>1. 1 \in DOMAIN inbox
    BY <1>1, <1>5
  <2>2. inbox[1] = localSent[k + 1]
    BY <2>1 DEF NothingLost, Sends, k
  <2> QED
    BY <1>1, <2>2 DEF NothingLost, Sends, k
<1>7. Len(localSent') = Len(wire') + Len(inbox')
  BY <1>1, <1>4, <1>5, <1>6
<1>8. ASSUME NEW i \in DOMAIN inbox'
      PROVE  inbox'[i] = localSent'[Len(wire') + i]
  <2>1. i + 1 \in 1 .. Len(inbox) /\ inbox'[i] = inbox[i + 1]
    BY <1>1, <1>5
  <2>2. inbox[i + 1] = localSent[k + (i + 1)]
    BY <1>5, <2>1 DEF NothingLost, Sends, k
  <2>3. k + (i + 1) = (k + 1) + i
    BY <1>4, <1>5
  <2> QED
    BY <1>4, <1>5, <2>1, <2>2, <2>3
<1>9. ASSUME NEW i \in DOMAIN wire'
      PROVE  Shape(wire'[i]) = localSent'[i]
  <2>1. CASE i \in 1 .. k
    BY <1>4, <1>5, <2>1 DEF NothingLost
  <2>2. CASE i = k + 1
    BY <1>3, <1>4, <1>5, <1>6, <2>2
  <2> QED
    BY <1>4, <2>1, <2>2
<1>10. Len(wire') <= Len(localSent')
  BY <1>1, <1>4, <1>5, <1>6
<1> QED
  BY <1>7, <1>8, <1>9, <1>10 DEF NothingLost, Shape

LEMMA SendsKeepsNumbered ==
  ASSUME Typed, Numbered, NEW s \in Nat, NEW n \in Nat, Sends(s, n), s >= stream,
         n = 1 + Cardinality({j \in DOMAIN wire : wire[j].stream = s}),
         nextSeq' = n + 1 \/ ~ Bridging'
  PROVE  Numbered'
<1> DEFINE e == Envelope(Head(inbox), s, n)
           k == Len(wire)
           On == {j \in DOMAIN wire : wire[j].stream = s}
<1>1. e \in Envelopes /\ e.stream = s /\ e.seq = n
  <2>1. Head(inbox) \in LocalMessages
    BY HeadTailProperties DEF Typed, Sends
  <2> QED
    BY <2>1, LocalMessageForm DEF Envelope, Envelopes
<1>2. /\ k \in Nat /\ DOMAIN wire = 1 .. k /\ DOMAIN wire' = 1 .. k + 1
      /\ \A i \in 1 .. k : wire'[i] = wire[i] /\ wire[i] \in Envelopes
      /\ wire'[k + 1] = e
  <2>1. wire' = Append(wire, e)
    BY DEF Sends
  <2> HIDE DEF e
  <2> QED
    BY <1>1, <2>1, Appended, LensTyped DEF Typed
<1>3. stream' = s /\ stream \in Nat
  BY DEF Sends, Typed
<1> HIDE DEF e, k
<1>4. On \subseteq 1 .. k /\ {j \in 1 .. k + 1 : wire'[j].stream = s} = On \cup {k + 1}
  BY <1>1, <1>2
<1>5. Cardinality({j \in 1 .. k + 1 : wire'[j].stream = s}) = n
      /\ Cardinality(On) \in Nat
  <2>1. Cardinality(On) \in Nat /\ Cardinality(On \cup {k + 1}) = Cardinality(On) + 1
    BY <1>2, <1>4, PlacesCount
  <2>2. n = 1 + Cardinality(On)
    OBVIOUS
  <2> DEFINE c == Cardinality(On)
             d == Cardinality(On \cup {k + 1})
  <2>3. d = n /\ c \in Nat
    <3> HIDE DEF c, d, On
    <3>1. c \in Nat /\ d = c + 1 /\ n = 1 + c
      BY <2>1, <2>2 DEF c, d
    <3> QED
      BY ONLY <3>1
  <2> QED
    BY <1>4, <2>3
<1>6. ASSUME NEW i \in DOMAIN wire'
      PROVE  /\ wire'[i].seq = Cardinality({j \in 1 .. i : wire'[j].stream = wire'[i].stream})
             /\ wire'[i].stream <= s
             /\ \A j \in 1 .. i : wire'[j].stream <= wire'[i].stream
  <2>1. CASE i \in 1 .. k
    <3>1. \A j \in 1 .. i : wire'[j] = wire[j]
      BY <1>2, <2>1
    <3>2. {j \in 1 .. i : wire'[j].stream = wire'[i].stream} = {j \in 1 .. i : wire[j].stream = wire[i].stream}
      BY <1>2, <2>1, <3>1
    <3>3. wire[i].stream <= stream /\ wire[i].stream \in Nat
      BY <1>2, <2>1 DEF Numbered, Envelopes
    <3>4. wire'[i].stream <= s
      BY <1>2, <1>3, <2>1, <3>3
    <3>5. /\ wire[i].seq = Cardinality({j \in 1 .. i : wire[j].stream = wire[i].stream})
          /\ \A j \in 1 .. i : wire[j].stream <= wire[i].stream
      BY <1>2, <2>1 DEF Numbered
    <3>6. wire'[i] = wire[i]
      BY <1>2, <2>1
    <3>7. wire'[i].seq = Cardinality({j \in 1 .. i : wire'[j].stream = wire'[i].stream})
      BY <3>2, <3>5, <3>6
    <3> QED
      BY <3>1, <3>4, <3>5, <3>6, <3>7
  <2>2. CASE i = k + 1
    <3>1. wire'[i].stream = s /\ wire'[i].seq = n
      BY <1>1, <1>2, <2>2
    <3>2. ASSUME NEW j \in 1 .. i
          PROVE  wire'[j].stream <= s
      <4>1. CASE j \in 1 .. k
        <5>1. wire[j].stream <= stream /\ wire[j].stream \in Nat
          BY <1>2, <4>1 DEF Numbered, Envelopes
        <5> QED
          BY <1>2, <1>3, <4>1, <5>1
      <4>2. CASE j = k + 1
        BY <2>2, <3>1, <4>2
      <4> QED
        BY <1>2, <2>2, <4>1, <4>2
    <3> QED
      BY <1>5, <2>2, <3>1, <3>2
  <2> QED
    BY <1>2, <2>1, <2>2
<1>7. Bridging' => nextSeq' = 1 + Cardinality({j \in DOMAIN wire' : wire'[j].stream = s})
  <2>1. DOMAIN wire' = 1 .. k + 1
    BY <1>2
  <2>2. Cardinality({j \in DOMAIN wire' : wire'[j].stream = s}) = n
    BY <1>5, <2>1
  <2>3. n + 1 = 1 + n
    OBVIOUS
  <2> QED
    BY ONLY <2>2, <2>3, nextSeq' = n + 1 \/ ~ Bridging'
<1> QED
  BY <1>3, <1>6, <1>7 DEF Numbered

LEMMA NextKeepsWire ==
  ASSUME ReadingInv, NothingLost, Numbered, [Next]_vars
  PROVE  NothingLost' /\ Numbered'
<1> USE DEF bridge, reassembler, ReadingInv
<1>1. UNCHANGED <<wire, stream, state, nextSeq>> => Numbered'
  BY DEF Numbered, Bridging
<1>2. ASSUME UNCHANGED <<wire, localSent, stream, nextSeq>>, Bridging' => Bridging /\ UNCHANGED inbox
      PROVE  NothingLost' /\ Numbered'
  <2>1. NothingLost'
    BY <1>2 DEF NothingLost, Shape
  <2>2. Numbered'
    BY <1>2 DEF Numbered
  <2> QED
    BY <2>1, <2>2
<1>3. ASSUME NEW m \in LocalMessages, LocalSends(m)
      PROVE  NothingLost' /\ Numbered'
  <2>1. UNCHANGED <<wire, stream, state, nextSeq>> /\ state = "bridging"
    BY <1>3 DEF LocalSends, Bridging
  <2>2. /\ inbox' = Append(inbox, m) /\ localSent' = Append(localSent, m)
        /\ inbox \in Seq(LocalMessages) /\ localSent \in Seq(LocalMessages)
    BY <1>3 DEF LocalSends, Typed
  <2>3. /\ DOMAIN inbox = 1 .. Len(inbox) /\ DOMAIN inbox' = 1 .. Len(inbox) + 1
        /\ \A i \in 1 .. Len(inbox) : inbox'[i] = inbox[i]
        /\ inbox'[Len(inbox) + 1] = m /\ Len(inbox') = Len(inbox) + 1 /\ Len(inbox) \in Nat
    BY <2>2, Appended, AppendProperties
  <2>4. /\ DOMAIN localSent = 1 .. Len(localSent) /\ DOMAIN localSent' = 1 .. Len(localSent) + 1
        /\ \A i \in 1 .. Len(localSent) : localSent'[i] = localSent[i]
        /\ localSent'[Len(localSent) + 1] = m
        /\ Len(localSent') = Len(localSent) + 1 /\ Len(localSent) \in Nat
    BY <2>2, Appended, AppendProperties
  <2>5. Len(wire) \in Nat /\ Len(localSent) = Len(wire) + Len(inbox) /\ DOMAIN wire = 1 .. Len(wire)
    BY <2>1, LensTyped DEF NothingLost, Bridging
  <2>6. ASSUME NEW i \in DOMAIN inbox'
        PROVE  inbox'[i] = localSent'[Len(wire') + i]
    <3>1. CASE i \in 1 .. Len(inbox)
      <4>1. inbox[i] = localSent[Len(wire) + i]
        BY <2>1, <2>3, <3>1 DEF NothingLost, Bridging
      <4>2. Len(wire) + i \in 1 .. Len(localSent)
        BY <2>3, <2>5, <3>1
      <4> QED
        BY <2>1, <2>3, <2>4, <3>1, <4>1, <4>2
    <3>2. CASE i = Len(inbox) + 1
      <4>1. Len(wire) + i = Len(localSent) + 1
        BY <2>3, <2>5, <3>2
      <4> QED
        BY <2>1, <2>3, <2>4, <3>2, <4>1
    <3> QED
      BY <2>3, <3>1, <3>2
  <2>7. ASSUME NEW i \in DOMAIN wire'
        PROVE  Shape(wire'[i]) = localSent'[i]
    <3>1. i \in DOMAIN wire /\ i \in 1 .. Len(localSent)
      BY <2>1, <2>3, <2>5
    <3> QED
      BY <2>1, <2>4, <3>1 DEF NothingLost
  <2>8. Len(localSent') = Len(wire') + Len(inbox') /\ Len(wire') <= Len(localSent')
    BY <2>1, <2>3, <2>4, <2>5
  <2> QED
    BY <1>1, <2>1, <2>6, <2>7, <2>8 DEF NothingLost, Shape
<1>4. CASE ForwardInitialize
  <2>1. stream \in Nat /\ stream + 1 \in Nat
    BY DEF Typed
  <2>2. Sends(stream + 1, 1) /\ nextSeq' = 1 + 1
    BY <1>4 DEF ForwardInitialize, TakesLocal, Outgoing, Sends
  <2>3. NothingLost'
    BY <2>1, <2>2, SendsKeepsNothingLost
  <2>4. {j \in DOMAIN wire : wire[j].stream = stream + 1} = {}
    <3>1. \A j \in DOMAIN wire : wire[j].stream <= stream /\ wire[j].stream \in Nat
      BY LensTyped DEF Numbered, Envelopes
    <3> QED
      BY <2>1, <3>1
  <2>5. 1 = 1 + Cardinality({j \in DOMAIN wire : wire[j].stream = stream + 1})
    BY <2>4, FS_EmptySet
  <2>6. Numbered'
    BY <2>1, <2>2, <2>5, SendsKeepsNumbered
  <2> QED
    BY <2>3, <2>6
<1>5. CASE ForwardOther
  <2>1. stream \in Nat /\ nextSeq \in Nat
    BY DEF Typed
  <2>2. Sends(stream, nextSeq) /\ nextSeq' = nextSeq + 1
    BY <1>5 DEF ForwardOther, TakesLocal, Outgoing, Sends
  <2>3. NothingLost'
    BY <2>1, <2>2, SendsKeepsNothingLost
  <2>4. nextSeq = 1 + Cardinality({j \in DOMAIN wire : wire[j].stream = stream})
    BY <2>2 DEF Numbered, Sends
  <2>5. Numbered'
    BY <2>1, <2>2, <2>4, SendsKeepsNumbered
  <2> QED
    BY <2>3, <2>5
<1>6. CASE CloseLocal
  <2>1. stream \in Nat /\ nextSeq \in Nat
    BY DEF Typed
  <2>2. state' = "closed" /\ UNCHANGED <<localSent, stream, nextSeq>>
    BY <1>6 DEF CloseLocal, TakesLocal
  <2>3. CASE UNCHANGED wire
    BY <1>2, <2>2, <2>3 DEF Bridging
  <2>4. CASE wire' # wire
    <3>1. Sends(stream, nextSeq)
      BY <1>6, <2>4 DEF CloseLocal, TakesLocal, Sends
    <3>2. NothingLost'
      BY <2>1, <3>1, SendsKeepsNothingLost
    <3>3. nextSeq = 1 + Cardinality({j \in DOMAIN wire : wire[j].stream = stream})
      BY <3>1 DEF Numbered, Sends
    <3>4. Numbered'
      BY <2>1, <2>2, <3>1, <3>3, SendsKeepsNumbered DEF Bridging
    <3> QED
      BY <3>2, <3>4
  <2> QED
    BY <2>3, <2>4
<1>7. ASSUME NEW i \in DOMAIN sent, NEW part \in {1, 2}, Observe(i, part)
      PROVE  NothingLost' /\ Numbered'
  <2>1. UNCHANGED <<wire, inbox, localSent, stream, nextSeq>>
    BY <1>7, ObserveCases
  <2>2. Bridging
    BY <1>7 DEF Observe, Bridging
  <2> QED
    BY <1>2, <2>1, <2>2
<1>8. CASE ConnectionFails
  BY <1>2, <1>8 DEF ConnectionFails, Fail, Bridging
<1>9. CASE UNCHANGED vars \/ \E s \in StreamIds, p \in HostPayloads, n \in PartCounts : HostSends(s, p, n)
  <2>1. UNCHANGED <<wire, inbox, localSent, stream, nextSeq, state>>
    BY <1>9 DEF HostSends, vars
  <2> QED
    BY <1>2, <2>1 DEF Bridging
<1> QED
  BY <1>3, <1>4, <1>5, <1>6, <1>7, <1>8, <1>9 DEF Next, Step, TakeLocal, TakeFrame

LEMMA WireFollows ==
  ASSUME Typed, NothingLost, Numbered
  PROVE  WireIsFaithful
<1> DEFINE k == Len(wire)
           q == [i \in DOMAIN wire |-> Shape(wire[i])]
<1>1. /\ k \in Nat /\ DOMAIN wire = 1 .. k /\ Len(localSent) \in Nat /\ Len(inbox) \in Nat
      /\ \A i \in 1 .. Len(localSent) : localSent[i] \in LocalMessages
  BY LensTyped
<1>2. k <= Len(localSent)
  BY DEF NothingLost
<1>3. \A i \in 1 .. k : q[i] = localSent[i] /\ q[i] \in LocalMessages
  BY <1>1, <1>2 DEF NothingLost
<1>4. q \in [1 .. k -> LocalMessages]
  BY <1>1, <1>3
<1>5. q \in Seq(LocalMessages) /\ Len(q) = k
  BY <1>1, <1>4, LenProperties
<1> HIDE DEF k, q
<1>6. /\ SubSeq(q, 1, k) \in Seq(LocalMessages) /\ Len(SubSeq(q, 1, k)) = k
      /\ \A i \in 1 .. k : SubSeq(q, 1, k)[i] = q[i]
  <2>1. \A i \in 1 .. k : q[i] \in LocalMessages
    BY <1>3
  <2> QED
    BY <1>1, <1>5, <2>1, SubSeqProperties
<1>7. /\ SubSeq(localSent, 1, k) \in Seq(LocalMessages) /\ Len(SubSeq(localSent, 1, k)) = k
      /\ \A i \in 1 .. k : SubSeq(localSent, 1, k)[i] = localSent[i]
  <2>1. \A i \in 1 .. k : localSent[i] \in LocalMessages
    BY <1>1, <1>2
  <2> QED
    BY <1>1, <1>2, <2>1, SubSeqProperties DEF Typed
<1>8. SubSeq(q, 1, k) = SubSeq(localSent, 1, k)
  BY <1>3, <1>6, <1>7, SeqEqual
<1>9. IsPrefix(q, localSent)
  BY <1>2, <1>5, <1>8 DEF IsPrefix
<1> QED
  BY <1>9 DEF WireIsFaithful, Numbered, q

(* What the relay gets is what the local client sent, in its order, and    *)
(* counted from 1 on streams that only go up (outgoing_app_segments and    *)
(* the end of bridge_local, whose client_closed may get lost), for every   *)
(* number of messages and streams.                                         *)
THEOREM AlwaysFaithfulWire == Spec => []WireIsFaithful
<1>1. Init => NothingLost /\ Numbered
  BY FS_EmptySet DEF Init, NothingLost, Numbered, Bridging
<1>2. ReadingInv /\ NothingLost /\ Numbered /\ [Next]_vars => NothingLost' /\ Numbered'
  BY NextKeepsWire
<1>3. ReadingInv /\ NothingLost /\ Numbered => WireIsFaithful
  BY WireFollows DEF ReadingInv
<1> QED
  BY <1>1, <1>2, <1>3, BridgeReadingInv, PTL DEF Spec

-----------------------------------------------------------------------------
(* Errors, and the ids they are given.                                     *)

PendingPlaces(id) == Places(pending, id)

ErrorPlaces(id) ==
  {i \in DOMAIN toLocal : toLocal[i].stream = stream /\ toLocal[i].kind = "error" /\ toLocal[i].id = id}

WirePlaces(id) == {i \in DOMAIN wire : wire[i].stream = stream /\ wire[i].id = id}

LEMMA PlacesTyped ==
  ASSUME Typed, NEW id
  PROVE  /\ IsFiniteSet(PendingPlaces(id)) /\ Cardinality(PendingPlaces(id)) \in Nat
         /\ IsFiniteSet(ErrorPlaces(id)) /\ Cardinality(ErrorPlaces(id)) \in Nat
         /\ IsFiniteSet(WirePlaces(id)) /\ Cardinality(WirePlaces(id)) \in Nat
<1>1. Len(pending) \in Nat /\ PendingPlaces(id) \subseteq 1 .. Len(pending)
  BY LenProperties DEF Typed, PendingPlaces, Places
<1>2. Len(toLocal) \in Nat /\ ErrorPlaces(id) \subseteq 1 .. Len(toLocal)
  BY LenProperties DEF Typed, ErrorPlaces
<1>3. Len(wire) \in Nat /\ WirePlaces(id) \subseteq 1 .. Len(wire)
  BY LenProperties DEF Typed, WirePlaces
<1> QED
  BY <1>1, <1>2, <1>3, PlacesCount

(* One place fewer for what is taken out, and as many for the rest.        *)
LEMMA TakenOut ==
  ASSUME Typed, NEW k \in 1 .. Len(pending), pending' = RemoveAt(pending, k), NEW id
  PROVE  Cardinality(PendingPlaces(id)') =
           IF pending[k] = id THEN Cardinality(PendingPlaces(id)) - 1 ELSE Cardinality(PendingPlaces(id))
<1>1. pending \in Seq(Nat) /\ DOMAIN pending = 1 .. Len(pending)
  BY LenProperties DEF Typed
<1>2. Cardinality(PendingPlaces(id)') = Cardinality(PendingPlaces(id) \ {k})
  <2>1. Cardinality(Places(RemoveAt(pending, k), id)) = Cardinality(Places(pending, id) \ {k})
    BY <1>1, RemovedCount
  <2> QED
    BY <2>1 DEF PendingPlaces, Places
<1>3. IsFiniteSet(PendingPlaces(id))
  BY PlacesTyped
<1>4. CASE pending[k] = id
  <2>1. k \in PendingPlaces(id)
    BY <1>1, <1>4 DEF PendingPlaces, Places
  <2>2. Cardinality(PendingPlaces(id) \ {k}) = Cardinality(PendingPlaces(id)) - 1
    BY <1>3, <2>1, FS_RemoveElement
  <2> QED
    BY <1>2, <1>4, <2>2
<1>5. CASE pending[k] # id
  <2>1. PendingPlaces(id) \ {k} = PendingPlaces(id)
    BY <1>5 DEF PendingPlaces, Places
  <2> QED
    BY <1>2, <1>5, <2>1
<1> QED
  BY <1>4, <1>5

(* A message settles at most one place, an error exactly the first, for    *)
(* which it stands.                                                        *)
LEMMA DeliveryKeepsErrorsOwed ==
  ASSUME ReadingInv, ErrorsAreOwed, NEW m \in Elements(sent), Delivery(m), UNCHANGED <<stream, wire>>
  PROVE  ErrorsAreOwed'
<1> USE DEF ReadingInv
<1> DEFINE n == Len(toLocal)
<1>1. /\ DOMAIN toLocal = 1 .. n /\ DOMAIN toLocal' = 1 .. n + 1 /\ n \in Nat
      /\ \A i \in 1 .. n : toLocal'[i] = toLocal[i]
      /\ toLocal'[n + 1].stream = m.stream /\ toLocal'[n + 1].kind = m.kind
      /\ m.kind = "error" => toLocal'[n + 1].id = Head(pending)
  BY DeliveryAppends
<1>2. m.stream = stream /\ pending \in Seq(Nat)
  BY DEF Delivery, Typed
<1> HIDE DEF n
<1>3. ASSUME NEW id \in LocalIds
      PROVE  Cardinality(PendingPlaces(id)') + Cardinality(ErrorPlaces(id)')
               <= Cardinality(PendingPlaces(id)) + Cardinality(ErrorPlaces(id))
  <2>1. Cardinality(PendingPlaces(id)) \in Nat /\ Cardinality(ErrorPlaces(id)) \in Nat
    BY PlacesTyped
  <2>2. ErrorPlaces(id) \subseteq 1 .. n
    BY <1>1 DEF ErrorPlaces
  <2>3. CASE m.kind = "error"
    <3>1. pending # <<>> /\ pending' = Tail(pending)
      BY <2>3 DEF Delivery
    <3>2. 1 \in 1 .. Len(pending) /\ Head(pending) = pending[1] /\ Tail(pending) = RemoveAt(pending, 1)
      BY <1>2, <3>1, TailRemoves
    <3>3. Cardinality(PendingPlaces(id)') =
            IF Head(pending) = id THEN Cardinality(PendingPlaces(id)) - 1 ELSE Cardinality(PendingPlaces(id))
      BY <3>1, <3>2, TakenOut
    <3>4. CASE Head(pending) = id
      <4>1. ErrorPlaces(id)' = ErrorPlaces(id) \cup {n + 1}
        BY <1>1, <1>2, <2>3, <3>4 DEF ErrorPlaces
      <4>2. Cardinality(ErrorPlaces(id)') = Cardinality(ErrorPlaces(id)) + 1
        BY <1>1, <2>2, <4>1, PlacesCount
      <4> QED
        BY <2>1, <3>3, <3>4, <4>2
    <3>5. CASE Head(pending) # id
      <4>1. ErrorPlaces(id)' = ErrorPlaces(id)
        BY <1>1, <1>2, <2>3, <3>5 DEF ErrorPlaces
      <4> QED
        BY <2>1, <3>3, <3>5, <4>1
    <3> QED
      BY <3>4, <3>5
  <2>4. CASE m.kind # "error"
    <3>1. ErrorPlaces(id)' = ErrorPlaces(id)
      BY <1>1, <1>2, <2>4 DEF ErrorPlaces
    <3>2. CASE m.id \in Elements(pending)
      <4>1. pending' = RemoveFirst(pending, m.id)
        BY <2>4, <3>2 DEF Delivery
      <4>2. PICK k \in 1 .. Len(pending) : RemoveFirst(pending, m.id) = RemoveAt(pending, k)
        BY <1>2, <3>2, RemoveFirstRemoves
      <4>3. Cardinality(PendingPlaces(id)') =
              IF pending[k] = id THEN Cardinality(PendingPlaces(id)) - 1 ELSE Cardinality(PendingPlaces(id))
        BY <4>1, <4>2, TakenOut
      <4> QED
        BY <2>1, <3>1, <4>3
    <3>3. CASE m.id \notin Elements(pending)
      <4>1. PendingPlaces(id)' = PendingPlaces(id)
        BY <2>4, <3>3 DEF Delivery, PendingPlaces, Places
      <4> QED
        BY <2>1, <3>1, <4>1
    <3> QED
      BY <3>2, <3>3
  <2> QED
    BY <2>3, <2>4
<1>4. ASSUME NEW id \in LocalIds
      PROVE  Cardinality(PendingPlaces(id)') + Cardinality(ErrorPlaces(id)') <= Cardinality(WirePlaces(id)')
  <2>1. Cardinality(PendingPlaces(id)) + Cardinality(ErrorPlaces(id)) <= Cardinality(WirePlaces(id))
    BY DEF ErrorsAreOwed, PendingPlaces, Places, ErrorPlaces, WirePlaces
  <2>2. WirePlaces(id)' = WirePlaces(id)
    BY DEF WirePlaces
  <2>3. /\ Cardinality(PendingPlaces(id)) \in Nat /\ Cardinality(ErrorPlaces(id)) \in Nat
        /\ Cardinality(WirePlaces(id)) \in Nat
    BY PlacesTyped
  <2>4. Cardinality(PendingPlaces(id)') \in Nat /\ Cardinality(ErrorPlaces(id)') \in Nat
    <3>1. pending' \in Seq(Nat) /\ toLocal' \in Seq(Deliveries)
      BY DeliveryTyped
    <3>2. Len(pending') \in Nat /\ PendingPlaces(id)' \subseteq 1 .. Len(pending')
      BY <3>1, LenProperties DEF PendingPlaces, Places
    <3>3. Len(toLocal') \in Nat /\ ErrorPlaces(id)' \subseteq 1 .. Len(toLocal')
      BY <3>1, LenProperties DEF ErrorPlaces
    <3> QED
      BY <3>2, <3>3, PlacesCount
  <2> QED
    BY <1>3, <2>1, <2>2, <2>3, <2>4
<1> QED
  BY <1>4 DEF ErrorsAreOwed, PendingPlaces, Places, ErrorPlaces, WirePlaces

(* A message put on the wire has its id owed once more.                    *)
LEMMA WireGrows ==
  ASSUME Typed, NEW m \in LocalMessages, NEW n \in Nat, wire' = Append(wire, Envelope(m, stream', n)),
         stream' \in Nat, NEW id
  PROVE  /\ stream' = stream =>
              Cardinality(WirePlaces(id)') = Cardinality(WirePlaces(id)) + (IF m.id = id THEN 1 ELSE 0)
         /\ m.id = id => \E i \in DOMAIN wire' : i \in WirePlaces(id)'
<1> DEFINE e == Envelope(m, stream', n)
           k == Len(wire)
<1>1. e \in Envelopes /\ e.stream = stream' /\ e.id = m.id
  BY LocalMessageForm DEF Envelope, Envelopes
<1>2. /\ k \in Nat /\ DOMAIN wire = 1 .. k /\ DOMAIN wire' = 1 .. k + 1
      /\ \A i \in 1 .. k : wire'[i] = wire[i]
      /\ wire'[k + 1] = e
  <2>1. wire' = Append(wire, e)
    OBVIOUS
  <2> HIDE DEF e
  <2> QED
    BY <1>1, <2>1, Appended DEF Typed
<1> HIDE DEF e, k
<1>3. ASSUME stream' = stream
      PROVE  Cardinality(WirePlaces(id)') = Cardinality(WirePlaces(id)) + (IF m.id = id THEN 1 ELSE 0)
  <2>1. WirePlaces(id) \subseteq 1 .. k
    BY <1>2 DEF WirePlaces
  <2>2. CASE m.id = id
    <3>1. WirePlaces(id)' = WirePlaces(id) \cup {k + 1}
      BY <1>1, <1>2, <1>3, <2>2 DEF WirePlaces
    <3>2. Cardinality(WirePlaces(id) \cup {k + 1}) = Cardinality(WirePlaces(id)) + 1
      BY <1>2, <2>1, PlacesCount
    <3> QED
      BY <2>2, <3>1, <3>2
  <2>3. CASE m.id # id
    <3>1. WirePlaces(id)' = WirePlaces(id)
      BY <1>1, <1>2, <1>3, <2>3 DEF WirePlaces
    <3>2. Cardinality(WirePlaces(id)) \in Nat
      BY PlacesTyped
    <3> QED
      BY <2>3, <3>1, <3>2
  <2> QED
    BY <2>2, <2>3
<1>4. ASSUME m.id = id
      PROVE  \E i \in DOMAIN wire' : i \in WirePlaces(id)'
  <2>1. k + 1 \in DOMAIN wire' /\ k + 1 \in WirePlaces(id)'
    BY <1>1, <1>2, <1>4 DEF WirePlaces
  <2> QED
    BY <2>1
<1> QED
  BY <1>3, <1>4

LEMMA NextKeepsErrorsOwed ==
  ASSUME ReadingInv, ErrorsAreOwed, [Next]_vars
  PROVE  ErrorsAreOwed'
<1> USE DEF bridge, reassembler, ReadingInv
<1>0. /\ Typed'
      /\ \A id \in LocalIds :
           Cardinality(PendingPlaces(id)) + Cardinality(ErrorPlaces(id)) <= Cardinality(WirePlaces(id))
      /\ \A id \in LocalIds :
           /\ Cardinality(PendingPlaces(id)) \in Nat /\ Cardinality(ErrorPlaces(id)) \in Nat
           /\ Cardinality(WirePlaces(id)) \in Nat
  <2>1. Typed'
    BY NextTyped
  <2>2. \A id \in LocalIds :
           Cardinality(PendingPlaces(id)) + Cardinality(ErrorPlaces(id)) <= Cardinality(WirePlaces(id))
    BY DEF ErrorsAreOwed, PendingPlaces, Places, ErrorPlaces, WirePlaces
  <2> QED
    BY <2>1, <2>2, PlacesTyped
<1>1. SUFFICES ASSUME NEW id \in LocalIds
      PROVE (Cardinality(PendingPlaces(id)) + Cardinality(ErrorPlaces(id)) <= Cardinality(WirePlaces(id)))'
         \/ ErrorsAreOwed'
  BY <1>1 DEF ErrorsAreOwed, PendingPlaces, Places, ErrorPlaces, WirePlaces
<1>2. CASE UNCHANGED <<pending, toLocal, stream, wire>>
  BY <1>0, <1>2 DEF PendingPlaces, Places, ErrorPlaces, WirePlaces
<1>3. CASE ForwardInitialize
  <2>1. Head(inbox) \in LocalMessages /\ Head(inbox).id \in Nat /\ UNCHANGED toLocal
    BY <1>3, Taken DEF ForwardInitialize
  <2>2. stream' = stream + 1 /\ stream' \in Nat /\ pending' = <<Head(inbox).id>>
        /\ wire' = Append(wire, Envelope(Head(inbox), stream', 1))
    BY <1>0, <1>3 DEF ForwardInitialize, Outgoing, Typed
  <2>3. ErrorPlaces(id)' = {}
    <3>1. toLocal \in Seq(Deliveries)
      BY DEF Typed
    <3>2. \A i \in DOMAIN toLocal : toLocal[i] \in Deliveries
      BY <3>1, LenProperties, ElementOfSeq
    <3>3. \A i \in DOMAIN toLocal : toLocal[i].stream # stream'
      BY <2>2, <3>2 DEF DeliveredInv, Deliveries, Typed
    <3> QED
      BY <2>1, <3>3 DEF ErrorPlaces
  <2>4. IsFiniteSet(WirePlaces(id)') /\ Cardinality(WirePlaces(id)') \in Nat
    <3>1. wire' \in Seq(Envelopes)
      BY <1>0 DEF Typed
    <3>2. Len(wire') \in Nat /\ WirePlaces(id)' \subseteq 1 .. Len(wire')
      BY <3>1, LenProperties DEF WirePlaces
    <3> QED
      BY <3>2, PlacesCount
  <2>5. CASE Head(inbox).id = id
    <3>1. PendingPlaces(id)' = {1}
      BY <2>2, <2>5 DEF PendingPlaces, Places
    <3>2. WirePlaces(id)' # {}
      BY <2>1, <2>2, <2>5, WireGrows
    <3>3. Cardinality(WirePlaces(id)') # 0
      BY <2>4, <3>2, FS_EmptySet
    <3>4. Cardinality({1}) = 1 /\ Cardinality({}) = 0
      BY FS_Singleton, FS_EmptySet
    <3> QED
      BY <2>3, <2>4, <3>1, <3>3, <3>4
  <2>6. CASE Head(inbox).id # id
    <3>1. PendingPlaces(id)' = {}
      BY <2>2, <2>6 DEF PendingPlaces, Places
    <3>2. Cardinality({}) = 0
      BY FS_EmptySet
    <3> QED
      BY <2>3, <2>4, <3>1, <3>2
  <2> QED
    BY <2>5, <2>6
<1>4. CASE ForwardOther
  <2>1. Head(inbox) \in LocalMessages /\ Head(inbox).id \in Nat /\ UNCHANGED <<toLocal, stream>>
        /\ wire' = Append(wire, Envelope(Head(inbox), stream', nextSeq)) /\ stream' \in Nat /\ nextSeq \in Nat
    BY <1>4, Taken DEF ForwardOther, Outgoing, Typed
  <2>2. Cardinality(WirePlaces(id)')
          = Cardinality(WirePlaces(id)) + (IF Head(inbox).id = id THEN 1 ELSE 0)
    BY <2>1, WireGrows
  <2>3. ErrorPlaces(id)' = ErrorPlaces(id)
    BY <2>1 DEF ErrorPlaces
  <2>4. CASE Head(inbox).id = NoId
    <3>1. PendingPlaces(id)' = PendingPlaces(id)
      BY <1>4, <2>4 DEF ForwardOther, PendingPlaces, Places
    <3> QED
      BY <1>0, <2>2, <2>3, <3>1
  <2>5. CASE Head(inbox).id # NoId
    <3> DEFINE h == Head(inbox).id
    <3>1. pending' = Append(pending, h) /\ pending \in Seq(Nat) /\ h \in Nat
      BY <1>4, <2>1, <2>5 DEF ForwardOther, Typed
    <3> HIDE DEF h
    <3>2. /\ DOMAIN pending = 1 .. Len(pending) /\ DOMAIN pending' = 1 .. Len(pending) + 1
          /\ \A i \in 1 .. Len(pending) : pending'[i] = pending[i]
          /\ pending'[Len(pending) + 1] = h /\ Len(pending) \in Nat
      BY <3>1, Appended
    <3>3. CASE h = id
      <4>1. PendingPlaces(id)' = PendingPlaces(id) \cup {Len(pending) + 1}
        BY <3>2, <3>3 DEF PendingPlaces, Places
      <4>2. PendingPlaces(id) \subseteq 1 .. Len(pending)
        BY <3>2 DEF PendingPlaces, Places
      <4>3. Cardinality(PendingPlaces(id)') = Cardinality(PendingPlaces(id)) + 1
        BY <3>2, <4>1, <4>2, PlacesCount
      <4> QED
        BY <1>0, <2>2, <2>3, <3>3, <4>3 DEF h
    <3>4. CASE h # id
      <4>1. PendingPlaces(id)' = PendingPlaces(id)
        BY <3>2, <3>4 DEF PendingPlaces, Places
      <4> QED
        BY <1>0, <2>2, <2>3, <3>4, <4>1 DEF h
    <3> QED
      BY <3>3, <3>4
  <2> QED
    BY <2>4, <2>5
<1>5. CASE CloseLocal
  <2>1. Head(inbox) \in LocalMessages /\ UNCHANGED <<toLocal, stream, pending>>
        /\ stream' \in Nat /\ nextSeq \in Nat
    BY <1>5, Taken DEF CloseLocal, Typed
  <2>2. ErrorPlaces(id)' = ErrorPlaces(id) /\ PendingPlaces(id)' = PendingPlaces(id)
    BY <2>1 DEF ErrorPlaces, PendingPlaces, Places
  <2>3. CASE UNCHANGED wire
    BY <1>0, <2>1, <2>2, <2>3 DEF WirePlaces
  <2>4. CASE wire' # wire
    <3>1. wire' = Append(wire, Envelope(Head(inbox), stream', nextSeq))
      BY <1>5, <2>1, <2>4 DEF CloseLocal
    <3>2. Cardinality(WirePlaces(id)')
            = Cardinality(WirePlaces(id)) + (IF Head(inbox).id = id THEN 1 ELSE 0)
      BY <2>1, <3>1, WireGrows
    <3> QED
      BY <1>0, <2>2, <3>2
  <2> QED
    BY <2>3, <2>4
<1>6. ASSUME NEW i \in DOMAIN sent, NEW part \in {1, 2}, Observe(i, part)
      PROVE  ErrorsAreOwed' \/ UNCHANGED <<pending, toLocal, stream, wire>>
  BY <1>6, ObserveCases, DeliveryKeepsErrorsOwed DEF Failure
<1> QED
  BY <1>2, <1>3, <1>4, <1>5, <1>6
     DEF Next, Step, TakeLocal, TakeFrame, LocalSends, HostSends, ConnectionFails, vars

(* An id is named by no more errors than messages of the stream bore it    *)
(* (pending_request_ids in outgoing_app_segments and                       *)
(* observe_server_envelope), whatever the relay and the host do.           *)
THEOREM AlwaysOwed == Spec => []ErrorsAreOwed
<1>1. Init => ErrorsAreOwed
  BY FS_EmptySet DEF Init, ErrorsAreOwed
<1>2. ReadingInv /\ ErrorsAreOwed /\ [Next]_vars => ErrorsAreOwed'
  BY NextKeepsErrorsOwed
<1> QED
  BY <1>1, <1>2, BridgeReadingInv, PTL DEF Spec

-----------------------------------------------------------------------------
(* A relay and a host that keep to their order.                            *)

(* Frames come in order and once, the host answers in order, and only the  *)
(* client asks: the id of an answer to the host is taken for a request's,  *)
(* and errors then go astray (see ErrorsNameWaitingRequests).              *)
KeepsOrder(a) ==
  a.freedoms = {} /\ "answer" \notin a.localKinds /\ "request" \notin a.serverKinds

(* The table has room for one message in two segments of a byte.           *)
RoomForOne == MaxAssemblies >= 1 /\ MaxMessageBytes >= 2

RequestKinds == {"initialize", "request"}

(* The client's ids are the places of its requests.                        *)
IdsArePlaces ==
  \A i \in DOMAIN localSent :
    /\ localSent[i].kind \in RequestKinds => localSent[i].id = i
    /\ localSent[i].kind \notin RequestKinds => localSent[i].id = NoId

Asked(s) == {i \in DOMAIN wire : wire[i].stream = s /\ wire[i].kind \in RequestKinds}

OnStream(s, n) == {j \in 1 .. n : sent[j].stream = s}

(* What the host sends: numbered without a gap, in segments the reassembler*)
(* knows, only the garbled not an object.                                  *)
SentInOrder ==
  \A i \in DOMAIN sent :
    /\ sent[i].stream <= stream /\ sent[i].kind # "request"
    /\ sent[i].seq = Cardinality(OnStream(sent[i].stream, i))
    /\ sent[i].parts = 2 => sent[i] \in SegmentedMessages
    /\ sent[i].kind = "garbled" => sent[i].parts = 2

(* Each request of a stream is answered once, and after those before it.   *)
AnsweredInOrder ==
  \A i \in DOMAIN sent : IsReply(sent[i]) =>
    /\ sent[i].of \in Asked(sent[i].stream)
    /\ \A j \in 1 .. i - 1 : sent[j].of # sent[i].of
    /\ \A id \in Asked(sent[i].stream) : id < sent[i].of => \E j \in 1 .. i - 1 : sent[j].of = id

CursorInPlace ==
  /\ cursor \in [message : 1 .. Len(sent) + 1, part : {1, 2}]
  /\ cursor.part = 2 => cursor.message \in 1 .. Len(sent) /\ sent[cursor.message].parts = 2

(* The frames that have passed.                                            *)
Passed == cursor.message - 1

HalfOf(m) ==
  [count |-> 2, size |-> 2, received |-> 1, chunks |-> [i \in {0} |-> ChunkOf(m, 1)]]

Halfway == cursor.part = 2 /\ sent[cursor.message].stream = stream

(* The table holds the first half of the message the relay is halfway      *)
(* through, if that is of this stream, and else nothing.                   *)
TableInOrder ==
  /\ Halfway =>
       /\ assemblies = [k \in {<<stream, sent[cursor.message].seq>>} |-> HalfOf(sent[cursor.message])]
       /\ buffered = 1
  /\ ~ Halfway => DOMAIN assemblies = {} /\ buffered = 0

Awaited == {id \in Asked(stream) : \A j \in 1 .. Passed : sent[j].of # id}

(* The pending ids are those of the stream's requests that no reply has    *)
(* passed for, in their order.                                             *)
PendingInOrder ==
  /\ Elements(pending) = Awaited
  /\ \A i, j \in DOMAIN pending : i < j => pending[i] < pending[j]

LEMMA PayloadForm ==
  ASSUME NEW m \in ServerMessages
  PROVE  /\ m.kind \in AllServerKinds
         /\ m.kind = "result" => m.of # NoId /\ m.id = m.of
         /\ m.kind = "error" => m.of # NoId
         /\ m.kind \in {"notification", "garbled"} => m.of = NoId /\ m.id = NoId
<1>1. PICK s \in StreamIds, n \in 1 .. MaxServer, p \in HostPayloads, parts \in PartCounts :
        m = Message(s, n, p, parts)
  BY DEF ServerMessages
<1>2. m.kind = p.kind /\ m.id = p.id /\ m.of = p.of
  BY <1>1 DEF Message
<1>3. /\ p.kind = "result" => p.of # NoId /\ p.id = p.of
      /\ p.kind = "error" => p.of # NoId
      /\ p.kind \in {"notification", "garbled"} => p.of = NoId /\ p.id = NoId
  BY DEF HostPayloads, PayloadsOf
<1> QED
  BY <1>2, <1>3, MessageForm DEF Deliveries

LEMMA SentLens ==
  ASSUME Typed
  PROVE  /\ Len(sent) \in Nat /\ DOMAIN sent = 1 .. Len(sent)
         /\ \A i \in 1 .. Len(sent) : sent[i] \in ServerMessages /\ sent[i] \in Elements(sent)
BY LenProperties, ElementOfSeq DEF Typed, Elements

LEMMA AskedTyped ==
  ASSUME Typed
  PROVE  /\ \A s : Asked(s) \subseteq 1 .. Len(wire)
         /\ \A s, t, id : id \in Asked(s) /\ id \in Asked(t) => s = t
BY LensTyped DEF Asked

(* One more message is on its own stream.                                  *)
LEMMA OneMoreOnStream ==
  ASSUME NEW n \in Nat, NEW s
  PROVE  /\ Cardinality(OnStream(s, n)) \in Nat
         /\ Cardinality(OnStream(s, n + 1))
              = Cardinality(OnStream(s, n)) + (IF sent[n + 1].stream = s THEN 1 ELSE 0)
<1>1. OnStream(s, n) \subseteq 1 .. n
  BY DEF OnStream
<1>2. /\ Cardinality(OnStream(s, n)) \in Nat
      /\ Cardinality(OnStream(s, n) \cup {n + 1}) = Cardinality(OnStream(s, n)) + 1
  BY <1>1, PlacesCount
<1>3. sent[n + 1].stream = s => OnStream(s, n + 1) = OnStream(s, n) \cup {n + 1}
  BY DEF OnStream
<1>4. sent[n + 1].stream # s => OnStream(s, n + 1) = OnStream(s, n)
  BY DEF OnStream
<1> QED
  BY <1>2, <1>3, <1>4

-----------------------------------------------------------------------------
(* What the client sends, and what the bridge makes of it.                 *)

LEMMA LocalSendsKeepsIds ==
  ASSUME Typed, IdsArePlaces, KeepsOrder(around), NEW m \in LocalMessages, LocalSends(m)
  PROVE  IdsArePlaces'
<1>1. m.kind \in RequestKinds => m.id = Len(localSent) + 1
  BY DEF LocalSends, RequestKinds
<1>2. m.kind \notin RequestKinds => m.id = NoId
  BY LocalMessageForm DEF LocalSends, RequestKinds, AllLocalKinds, KeepsOrder
<1>3. localSent' = Append(localSent, m) /\ localSent \in Seq(LocalMessages)
  BY DEF LocalSends, Typed
<1>4. /\ DOMAIN localSent = 1 .. Len(localSent) /\ DOMAIN localSent' = 1 .. Len(localSent) + 1
      /\ \A i \in 1 .. Len(localSent) : localSent'[i] = localSent[i]
      /\ localSent'[Len(localSent) + 1] = m /\ Len(localSent) \in Nat
  BY <1>3, Appended
<1>5. ASSUME NEW i \in DOMAIN localSent'
      PROVE  /\ localSent'[i].kind \in RequestKinds => localSent'[i].id = i
             /\ localSent'[i].kind \notin RequestKinds => localSent'[i].id = NoId
  <2>1. CASE i \in 1 .. Len(localSent)
    BY <1>4, <2>1 DEF IdsArePlaces
  <2>2. CASE i = Len(localSent) + 1
    BY <1>1, <1>2, <1>4, <2>2
  <2> QED
    BY <1>4, <1>5, <2>1, <2>2
<1> QED
  BY <1>5 DEF IdsArePlaces

(* A message of the inbox is asked at its place, past all others.          *)
LEMMA SendsAsks ==
  ASSUME Typed, NothingLost, IdsArePlaces, NEW s \in Nat, NEW n \in Nat, Sends(s, n)
  PROVE  LET h == Head(inbox) IN
         /\ Len(wire) \in Nat
         /\ \A t : Asked(t)' = Asked(t) \cup
                     (IF t = s /\ h.kind \in RequestKinds THEN {Len(wire) + 1} ELSE {})
         /\ h.kind \in RequestKinds => h.id = Len(wire) + 1
         /\ h.kind \notin RequestKinds => h.id = NoId
<1> DEFINE e == Envelope(Head(inbox), s, n)
           k == Len(wire)
<1>1. inbox \in Seq(LocalMessages) /\ inbox # <<>>
  BY DEF Typed, Sends
<1>2. Head(inbox) \in LocalMessages /\ Head(inbox) = inbox[1] /\ 1 \in DOMAIN inbox
  BY <1>1, TailRemoves, LenProperties
<1>3. e \in Envelopes /\ e.stream = s /\ e.kind = Head(inbox).kind
  BY <1>2, LocalMessageForm DEF Envelope, Envelopes
<1>4. /\ k \in Nat /\ DOMAIN wire = 1 .. k /\ DOMAIN wire' = 1 .. k + 1
      /\ \A i \in 1 .. k : wire'[i] = wire[i]
      /\ wire'[k + 1] = e
  <2>1. wire' = Append(wire, e)
    BY DEF Sends
  <2> HIDE DEF e
  <2> QED
    BY <1>3, <2>1, Appended DEF Typed
<1>5. Head(inbox) = localSent[k + 1] /\ k + 1 \in DOMAIN localSent
  <2>1. inbox[1] = localSent[k + 1]
    BY <1>2 DEF NothingLost, Sends
  <2>2. k + 1 \in 1 .. Len(localSent)
    BY <1>2, LensTyped DEF NothingLost, Sends
  <2> QED
    BY <1>2, <2>1, <2>2, LensTyped
<1> HIDE DEF e, k
<1>6. ASSUME NEW t
      PROVE  Asked(t)' = Asked(t) \cup
                     (IF t = s /\ Head(inbox).kind \in RequestKinds THEN {k + 1} ELSE {})
  BY <1>3, <1>4 DEF Asked
<1> QED
  BY <1>4, <1>5, <1>6 DEF IdsArePlaces, k
LEMMA OfIsAsked ==
  ASSUME Typed, SentInOrder, AnsweredInOrder, NEW j \in 1 .. Len(sent)
  PROVE  sent[j].of \in 0 .. Len(wire)
<1>1. sent[j] \in ServerMessages /\ j \in DOMAIN sent /\ sent[j].kind # "request"
  BY SentLens DEF SentInOrder
<1>2. CASE IsReply(sent[j])
  BY <1>1, <1>2, AskedTyped, LensTyped DEF AnsweredInOrder
<1>3. CASE ~ IsReply(sent[j])
  <2>1. sent[j].of = NoId
    BY <1>1, <1>3, PayloadForm DEF IsReply, AllServerKinds
  <2> QED
    BY <2>1, LensTyped DEF NoId
<1> QED
  BY <1>2, <1>3

LEMMA SendsKeepsAnswers ==
  ASSUME Typed, NothingLost, IdsArePlaces, SentInOrder, AnsweredInOrder,
         NEW s \in Nat, NEW n \in Nat, Sends(s, n), s >= stream, UNCHANGED <<sent, localSent>>
  PROVE  IdsArePlaces' /\ SentInOrder' /\ AnsweredInOrder'
<1>1. IdsArePlaces'
  BY DEF IdsArePlaces
<1>2. SentInOrder'
  <2>1. stream' = s /\ stream \in Nat
    BY DEF Sends, Typed
  <2>2. ASSUME NEW i \in DOMAIN sent
        PROVE  sent[i].stream <= stream'
    <3>1. sent[i].stream \in Nat /\ sent[i].stream <= stream
      BY SentLens, MessageForm DEF SentInOrder, Deliveries
    <3> QED
      BY <2>1, <3>1
  <2> QED
    BY <2>2 DEF SentInOrder, OnStream
<1>3. ASSUME NEW i \in DOMAIN sent, IsReply(sent[i])
      PROVE  /\ sent[i].of \in Asked(sent[i].stream)'
             /\ \A j \in 1 .. i - 1 : sent[j].of # sent[i].of
             /\ \A id \in Asked(sent[i].stream)' : id < sent[i].of => \E j \in 1 .. i - 1 : sent[j].of = id
  <2> DEFINE t == sent[i].stream
  <2>1. /\ sent[i].of \in Asked(t)
        /\ \A j \in 1 .. i - 1 : sent[j].of # sent[i].of
        /\ \A id \in Asked(t) : id < sent[i].of => \E j \in 1 .. i - 1 : sent[j].of = id
    BY <1>3 DEF AnsweredInOrder
  <2>2. Asked(t) \subseteq Asked(t)' /\ Asked(t)' \subseteq Asked(t) \cup {Len(wire) + 1}
    <3>1. PICK x : x = t
      OBVIOUS
    <3>2. Asked(x) \subseteq Asked(x)' /\ Asked(x)' \subseteq Asked(x) \cup {Len(wire) + 1}
      BY SendsAsks
    <3> QED
      BY <3>1, <3>2
  <2>3. ~ (Len(wire) + 1 < sent[i].of)
    BY <2>1, AskedTyped, LensTyped
  <2> QED
    BY <2>1, <2>2, <2>3
<1>4. AnsweredInOrder'
  BY <1>3 DEF AnsweredInOrder, IsReply
<1> QED
  BY <1>1, <1>2, <1>4

(* A stream just taken has had nothing from the host.                      *)
LEMMA NewStreamIsInOrder ==
  ASSUME Typed, NothingLost, Numbered, IdsArePlaces, SentInOrder, AnsweredInOrder, CursorInPlace,
         ForwardInitialize
  PROVE  seen' = Cardinality(OnStream(stream, Passed)') /\ TableInOrder' /\ PendingInOrder'
<1>1. /\ stream' = stream + 1 /\ seen' = None /\ UNCHANGED <<sent, cursor>>
      /\ pending' = <<Head(inbox).id>> /\ Head(inbox).kind = "initialize"
      /\ assemblies' = [k \in {} |-> {}] /\ buffered' = 0
  BY DEF ForwardInitialize, TakesLocal
<1>2. stream \in Nat /\ cursor.message \in 1 .. Len(sent) + 1 /\ Len(sent) \in Nat /\ DOMAIN sent = 1 .. Len(sent)
  BY SentLens DEF Typed, CursorInPlace
<1>3. \A j \in 1 .. Len(sent) : sent[j].stream # stream + 1
  BY <1>2, SentLens, MessageForm DEF SentInOrder, Deliveries
<1>4. seen' = Cardinality(OnStream(stream, Passed)')
  <2>1. OnStream(stream, Passed)' = {}
    BY <1>1, <1>2, <1>3 DEF OnStream, Passed
  <2> QED
    BY <1>1, <2>1, FS_EmptySet DEF None
<1>5. TableInOrder'
  <2>1. ~ Halfway'
    BY <1>1, <1>2, <1>3 DEF Halfway, CursorInPlace
  <2> QED
    BY <1>1, <2>1 DEF TableInOrder
<1>6. PendingInOrder'
  <2> DEFINE k == Len(wire) + 1
  <2>1. Sends(stream + 1, 1) /\ stream + 1 \in Nat
    BY <1>2 DEF ForwardInitialize, TakesLocal, Outgoing, Sends
  <2>2. Asked(stream + 1) = {}
    <3>1. \A i \in DOMAIN wire : wire[i].stream <= stream /\ wire[i].stream \in Nat
      BY LensTyped DEF Numbered, Envelopes
    <3> QED
      BY <1>2, <3>1 DEF Asked
  <2>3. Head(inbox).id = k /\ k \in Nat /\ \A t : Asked(t)' = Asked(t) \cup (IF t = stream + 1 THEN {k} ELSE {})
    BY <1>1, <2>1, SendsAsks DEF RequestKinds
  <2>4. Asked(stream)' = {k}
    <3>1. PICK t : t = stream + 1
      OBVIOUS
    <3>2. Asked(t)' = {k}
      BY <2>2, <2>3, <3>1
    <3> QED
      BY <1>1, <3>1, <3>2 DEF Asked
  <2>5. \A j \in 1 .. Passed : sent[j].of # k
    <3>1. \A j \in 1 .. Len(sent) : sent[j].of \in 0 .. Len(wire)
      BY OfIsAsked
    <3> QED
      BY <1>2, <3>1, LensTyped DEF Passed
  <2>6. Awaited' = {k}
    BY <1>1, <2>4, <2>5 DEF Awaited, Passed
  <2>7. pending' = <<k>>
    BY <1>1, <2>3
  <2> QED
    BY <2>6, <2>7 DEF PendingInOrder, Elements
<1> QED
  BY <1>4, <1>5, <1>6

LEMMA ForwardKeepsPending ==
  ASSUME Typed, NothingLost, IdsArePlaces, SentInOrder, AnsweredInOrder, CursorInPlace, PendingInOrder,
         ForwardOther
  PROVE  PendingInOrder'
<1> DEFINE k == Len(wire) + 1
           h == Head(inbox)
<1>1. UNCHANGED <<stream, sent, cursor>>
      /\ pending' = IF h.id = NoId THEN pending ELSE Append(pending, h.id)
  BY DEF ForwardOther, TakesLocal
<1>2. Sends(stream, nextSeq) /\ stream \in Nat /\ nextSeq \in Nat
  BY DEF ForwardOther, TakesLocal, Outgoing, Sends, Typed
<1>3. /\ k \in Nat /\ k - 1 \in Nat
      /\ \A t : Asked(t)' = Asked(t) \cup (IF t = stream /\ h.kind \in RequestKinds THEN {k} ELSE {})
      /\ h.kind \in RequestKinds => h.id = k
      /\ h.kind \notin RequestKinds => h.id = NoId
  BY <1>2, SendsAsks
<1>4. \A j \in 1 .. Passed : sent[j].of \in 0 .. k - 1
  BY OfIsAsked, SentLens DEF Passed, CursorInPlace
<1>5. pending \in Seq(Nat) /\ DOMAIN pending = 1 .. Len(pending)
  BY LenProperties DEF Typed
<1>6. ASSUME NEW i \in 1 .. Len(pending)
      PROVE  pending[i] \in 1 .. k - 1
  <2>1. pending[i] \in Asked(stream)
    BY <1>5 DEF PendingInOrder, Elements, Awaited
  <2>2. k - 1 = Len(wire)
    BY LensTyped
  <2> QED
    BY <2>1, <2>2, AskedTyped
<1> HIDE DEF k, h
<1>7. CASE h.kind \in RequestKinds
  <2>1. pending' = Append(pending, k) /\ k # NoId
    BY <1>1, <1>3, <1>7 DEF NoId
  <2>2. /\ DOMAIN pending' = 1 .. Len(pending) + 1 /\ Len(pending) \in Nat
        /\ \A i \in 1 .. Len(pending) : pending'[i] = pending[i]
        /\ pending'[Len(pending) + 1] = k
    BY <1>3, <1>5, <2>1, Appended
  <2>3. Asked(stream)' = Asked(stream) \cup {k}
    <3>1. PICK t : t = stream
      OBVIOUS
    <3>2. Asked(t)' = Asked(t) \cup {k}
      BY <1>3, <1>7, <3>1
    <3> QED
      BY <1>1, <3>1, <3>2 DEF Asked
  <2>4. Awaited' = Awaited \cup {k}
    BY <1>1, <1>3, <1>4, <2>3 DEF Awaited, Passed
  <2>5. Elements(pending') = Elements(pending) \cup {k}
    BY <1>5, <2>2 DEF Elements
  <2>6. ASSUME NEW i \in DOMAIN pending', NEW j \in DOMAIN pending', i < j
        PROVE  pending'[i] < pending'[j]
    <3>1. CASE j \in 1 .. Len(pending)
      <4>1. i \in 1 .. Len(pending)
        BY <2>2, <2>6, <3>1
      <4>2. pending[i] < pending[j]
        BY <1>5, <2>6, <3>1, <4>1 DEF PendingInOrder
      <4> QED
        BY <2>2, <3>1, <4>1, <4>2
    <3>2. CASE j = Len(pending) + 1
      <4>1. i \in 1 .. Len(pending)
        BY <2>2, <2>6, <3>2
      <4>2. pending[i] \in 1 .. k - 1
        BY <1>6, <4>1
      <4>3. pending'[i] = pending[i] /\ pending'[j] = k
        BY <2>2, <3>2, <4>1
      <4> QED
        BY <1>3, <4>2, <4>3
    <3> QED
      BY <2>2, <3>1, <3>2
  <2> QED
    BY <2>4, <2>5, <2>6 DEF PendingInOrder, Elements
<1>8. CASE h.kind \notin RequestKinds
  <2>1. pending' = pending
    BY <1>1, <1>3, <1>8
  <2>2. Asked(stream)' = Asked(stream)
    <3>1. PICK t : t = stream
      OBVIOUS
    <3>2. Asked(t)' = Asked(t)
      BY <1>3, <1>8, <3>1
    <3> QED
      BY <1>1, <3>1, <3>2 DEF Asked
  <2>3. Awaited' = Awaited
    BY <1>1, <2>2 DEF Awaited, Passed
  <2> QED
    BY <2>1, <2>3 DEF PendingInOrder, Elements
<1> QED
  BY <1>7, <1>8
-----------------------------------------------------------------------------
(* What the host sends.                                                    *)

(* The requests of a stream, by their numbers and by their ids.            *)
LEMMA EarlierAsked ==
  ASSUME Typed, NothingLost, Numbered, IdsArePlaces, NEW s, NEW i \in Asked(s), NEW j \in Asked(s), i < j
  PROVE  wire[i].seq < wire[j].seq
<1>1. i \in 1 .. Len(wire) /\ j \in 1 .. Len(wire) /\ Len(wire) \in Nat
  BY AskedTyped, LensTyped
<1>2. wire[i].stream = s /\ wire[j].stream = s
  BY DEF Asked
<1> DEFINE S == {x \in 1 .. i : wire[x].stream = s}
           T == {x \in 1 .. j : wire[x].stream = s}
<1>3. wire[i].seq = Cardinality(S) /\ wire[j].seq = Cardinality(T)
  BY <1>1, <1>2, LensTyped DEF Numbered
<1>4. IsFiniteSet(S) /\ Cardinality(S) \in Nat /\ IsFiniteSet(T) /\ Cardinality(T) \in Nat
  <2>1. S \subseteq 1 .. i /\ T \subseteq 1 .. j /\ i \in Nat /\ j \in Nat
    BY <1>1
  <2> HIDE DEF S, T
  <2> QED
    BY <2>1, PlacesCount
<1>5. S \subseteq T /\ j \in T /\ j \notin S
  BY <1>1, <1>2
<1>6. Cardinality(S) < Cardinality(T)
  <2> HIDE DEF S, T
  <2>1. S # T
    BY <1>5
  <2>2. Cardinality(S) <= Cardinality(T)
    BY <1>4, <1>5, FS_Subset
  <2>3. Cardinality(S) # Cardinality(T)
    BY <1>4, <1>5, <2>1, FS_Subset
  <2> QED
    BY <1>4, <2>2, <2>3
<1> QED
  BY <1>3, <1>6

LEMMA HostSendsInOrder ==
  ASSUME Typed, NothingLost, Numbered, KeepsOrder(around), IdsArePlaces, SentInOrder, AnsweredInOrder,
         NEW s \in StreamIds, NEW p \in HostPayloads, NEW n \in PartCounts, HostSends(s, p, n)
  PROVE  SentInOrder' /\ AnsweredInOrder'
<1> DEFINE m == Message(s, OnStreamCount(s) + 1, p, n)
           k == Len(sent)
<1>1. m \in ServerMessages /\ m.stream = s /\ m.seq = OnStreamCount(s) + 1 /\ m.kind = p.kind
      /\ m.parts = n /\ m.of = p.of
  <2>1. m \in ServerMessages
    BY HostSendsTyped
  <2> QED
    BY <2>1 DEF Message
<1>2. /\ k \in Nat /\ DOMAIN sent = 1 .. k /\ DOMAIN sent' = 1 .. k + 1 /\ Len(sent') = k + 1
      /\ \A i \in 1 .. k : sent'[i] = sent[i] /\ sent[i] \in ServerMessages
      /\ sent'[k + 1] = m
  <2>1. sent' = Append(sent, m) /\ sent \in Seq(ServerMessages)
    BY DEF HostSends, Typed
  <2> HIDE DEF m
  <2> QED
    BY <1>1, <2>1, Appended, AppendProperties
<1>3. m.parts = 2 => m \in SegmentedMessages
  <2>1. around \in Surroundings /\ p.kind \in around.serverKinds /\ n \in around.parts
    BY DEF HostSends, Typed
  <2>2. n = 2 => p.kind \in SegmentedKinds
    BY <2>1 DEF SegmentedKinds
  <2>3. n = 2 => p \in PayloadsOf(SegmentedKinds)
    BY <2>2 DEF HostPayloads, PayloadsOf
  <2>4. OnStreamCount(s) + 1 \in 1 .. MaxServer
    BY <1>1, MessageForm
  <2> QED
    BY <1>1, <2>3, <2>4 DEF SegmentedMessages
<1> HIDE DEF m, k
<1>4. UNCHANGED <<wire, stream, state>> /\ (p.kind = "garbled" => n = 2) /\ p.kind \in around.serverKinds
      /\ \E w \in Elements(wire) : w.stream = s
  BY DEF HostSends, bridge
<1>5. s <= stream
  BY <1>4 DEF Numbered, Elements
<1>6. ASSUME NEW t, NEW i \in 1 .. k
      PROVE  OnStream(t, i)' = OnStream(t, i)
  <2>1. \A j \in 1 .. i : sent'[j] = sent[j]
    BY <1>2
  <2> QED
    BY <2>1 DEF OnStream
<1>7. ASSUME NEW c, c = k + 1
      PROVE  m.seq = Cardinality(OnStream(s, c)')
  <2>1. OnStream(s, c)' = {i \in DOMAIN sent : sent[i].stream = s} \cup {k + 1}
    BY <1>1, <1>2, <1>7 DEF OnStream
  <2>2. {i \in DOMAIN sent : sent[i].stream = s} \subseteq 1 .. k
    BY <1>2
  <2> QED
    BY <1>1, <1>2, <2>1, <2>2, PlacesCount DEF OnStreamCount
<1>8. ASSUME NEW i \in DOMAIN sent'
      PROVE  /\ sent'[i].stream <= stream' /\ sent'[i].kind # "request"
             /\ sent'[i].seq = Cardinality(OnStream(sent[i].stream, i)')
             /\ sent'[i].parts = 2 => sent'[i] \in SegmentedMessages
             /\ sent'[i].kind = "garbled" => sent'[i].parts = 2
  <2>1. CASE i \in 1 .. k
    <3>1. sent'[i] = sent[i] /\ i \in DOMAIN sent
      BY <1>2, <2>1
    <3>2. PICK t : t = sent[i].stream
      OBVIOUS
    <3>3. OnStream(t, i)' = OnStream(t, i)
      BY <1>6, <2>1
    <3>4. OnStream(sent[i].stream, i)' = OnStream(sent[i].stream, i)
      BY <3>1, <3>2, <3>3 DEF OnStream
    <3> QED
      BY <1>4, <3>1, <3>4 DEF SentInOrder
  <2>2. CASE i = k + 1
    <3>1. sent'[i] = m /\ OnStream(sent[i].stream, i)' = OnStream(s, i)'
      BY <1>1, <1>2, <2>2 DEF OnStream
    <3>2. m.seq = Cardinality(OnStream(s, i)')
      BY <1>7, <2>2
    <3> QED
      BY <1>1, <1>3, <1>4, <1>5, <3>1, <3>2 DEF KeepsOrder
  <2> QED
    BY <1>2, <1>8, <2>1, <2>2
<1>9. SentInOrder'
  BY <1>8 DEF SentInOrder
<1>10. \A t : Asked(t)' = Asked(t)
  BY <1>4 DEF Asked
<1>11. ASSUME IsReply(m)
       PROVE  /\ m.of \in Asked(s) /\ \A j \in 1 .. k : sent[j].of # m.of
              /\ \A id \in Asked(s) : id < m.of => \E j \in 1 .. k : sent[j].of = id
  <2>1. IsReply(p)
    BY <1>1, <1>11 DEF IsReply
  <2>2. PICK w \in Unanswered(s) : p.of = w.id /\ \A v \in Unanswered(s) : w.seq <= v.seq
    BY <2>1 DEF HostSends, KeepsOrder
  <2>3. PICK i \in DOMAIN wire : w = wire[i]
    BY DEF Unanswered, Elements
  <2>4. \A x \in DOMAIN wire : wire[x].kind \in RequestKinds => wire[x].id = x
    <3>1. \A x \in DOMAIN wire : wire[x].kind = localSent[x].kind /\ wire[x].id = localSent[x].id
      <4>1. ASSUME NEW x \in DOMAIN wire
            PROVE  wire[x].kind = localSent[x].kind /\ wire[x].id = localSent[x].id
        <5>1. localSent[x] = [kind |-> wire[x].kind, id |-> wire[x].id]
          BY DEF NothingLost, Shape
        <5> QED
          BY <5>1
      <4> QED
        BY <4>1
    <3>2. DOMAIN wire \subseteq DOMAIN localSent
      <4>1. Len(wire) <= Len(localSent)
        BY DEF NothingLost
      <4>2. /\ DOMAIN wire = 1 .. Len(wire) /\ DOMAIN localSent = 1 .. Len(localSent)
            /\ Len(wire) \in Nat /\ Len(localSent) \in Nat
        BY LensTyped
      <4> QED
        BY <4>1, <4>2
    <3> QED
      BY <3>1, <3>2 DEF IdsArePlaces
  <2>5. w.stream = s /\ w.kind \in RequestKinds /\ \A x \in Elements(sent) : x.of # w.id
    BY DEF Unanswered, RequestKinds
  <2>6. m.of = i /\ i \in Asked(s)
    BY <1>1, <2>2, <2>3, <2>4, <2>5 DEF Asked
  <2>7. \A j \in 1 .. k : sent[j].of # m.of
    BY <1>1, <1>2, <2>2, <2>5 DEF Elements
  <2>8. ASSUME NEW id \in Asked(s), id < m.of, \A j \in 1 .. k : sent[j].of # id
        PROVE  FALSE
    <3>1. wire[id].id = id /\ id \in DOMAIN wire /\ wire[id].stream = s /\ wire[id].kind \in RequestKinds
      BY <2>4 DEF Asked
    <3>2. wire[id] \in Unanswered(s)
      BY <1>2, <2>8, <3>1 DEF Unanswered, Elements, RequestKinds
    <3>3. wire[i].seq <= wire[id].seq
      BY <2>2, <2>3, <3>2
    <3>4. wire[id].seq < wire[i].seq
      BY <2>6, <2>8, EarlierAsked
    <3>5. wire[id].seq \in Nat /\ wire[i].seq \in Nat
      BY <2>3, <3>1, LensTyped DEF Envelopes
    <3> QED
      BY <3>3, <3>4, <3>5
  <2> QED
    BY <2>6, <2>7, <2>8
<1>12. ASSUME NEW i \in DOMAIN sent', IsReply(sent'[i])
       PROVE  /\ sent'[i].of \in Asked(sent[i].stream)'
              /\ \A j \in 1 .. i - 1 : sent'[j].of # sent'[i].of
              /\ \A id \in Asked(sent[i].stream)' : id < sent'[i].of => \E j \in 1 .. i - 1 : sent'[j].of = id
  <2>1. Asked(sent[i].stream)' = Asked(sent'[i].stream)
    BY <1>4 DEF Asked
  <2>2. CASE i \in 1 .. k
    <3>1. sent'[i] = sent[i] /\ i \in DOMAIN sent /\ \A j \in 1 .. i - 1 : sent'[j] = sent[j]
      BY <1>2, <2>2
    <3> QED
      BY <1>12, <2>1, <3>1 DEF AnsweredInOrder
  <2>3. CASE i = k + 1
    <3>1. sent'[i] = m /\ i - 1 = k /\ \A j \in 1 .. k : sent'[j] = sent[j]
      BY <1>2, <2>3
    <3> QED
      BY <1>1, <1>11, <1>12, <2>1, <3>1
  <2> QED
    BY <1>2, <1>12, <2>2, <2>3
<1>13. AnsweredInOrder'
  BY <1>12 DEF AnsweredInOrder, IsReply
<1> QED
  BY <1>9, <1>13
-----------------------------------------------------------------------------
(* What the relay delivers.                                                *)

Current == sent[cursor.message]

LEMMA CurrentTyped ==
  ASSUME Typed, CursorInPlace, SentInOrder, cursor.message \in DOMAIN sent
  PROVE  /\ Passed \in Nat /\ cursor.message = Passed + 1 /\ Passed + 1 \in 1 .. Len(sent)
         /\ Len(sent) \in Nat /\ DOMAIN sent = 1 .. Len(sent)
         /\ Current \in ServerMessages /\ Current \in Elements(sent) /\ Current \in Deliveries
         /\ Current = sent[Passed + 1]
         /\ Current.seq = Cardinality(OnStream(Current.stream, Passed))  + 1
<1>1. cursor.message \in Nat /\ cursor.message \in 1 .. Len(sent) /\ Len(sent) \in Nat /\ DOMAIN sent = 1 .. Len(sent)
  BY SentLens
<1>2. Current \in ServerMessages /\ Current \in Elements(sent) /\ Current \in Deliveries
  BY <1>1, SentLens, MessageForm DEF Current
<1>3. Passed \in Nat /\ cursor.message = Passed + 1
  BY <1>1 DEF Passed
<1>4. Current.seq = Cardinality(OnStream(Current.stream, Passed + 1))
  BY <1>1, <1>3 DEF Current, SentInOrder
<1>5. Cardinality(OnStream(Current.stream, Passed + 1)) = Cardinality(OnStream(Current.stream, Passed)) + 1
  BY <1>3, OneMoreOnStream DEF Current
<1> QED
  BY <1>1, <1>2, <1>3, <1>4, <1>5 DEF Current

(* The message the relay is at is the next of its stream.                  *)
LEMMA CurrentIsNext ==
  ASSUME Typed, CursorInPlace, SentInOrder, cursor.message \in DOMAIN sent, Current.stream = stream,
         seen = Cardinality(OnStream(stream, Passed))
  PROVE  IsNext(Current) /\ ~ IsOld(Current) /\ Current.seq = seen + 1
<1>1. Current.seq = seen + 1 /\ Passed \in Nat
  BY CurrentTyped
<1>2. seen \in Nat
  BY DEF Typed
<1> QED
  BY <1>1, <1>2 DEF IsNext, IsOld

(* The reply the relay is at is to the oldest pending request.             *)
LEMMA ReplyIsToTheOldest ==
  ASSUME Typed, CursorInPlace, SentInOrder, AnsweredInOrder, PendingInOrder,
         cursor.message \in DOMAIN sent, Current.stream = stream, IsReply(Current)
  PROVE  pending # <<>> /\ Head(pending) = Current.of
<1>1. /\ Passed \in Nat /\ cursor.message = Passed + 1 /\ Current = sent[Passed + 1] /\ Passed + 1 \in DOMAIN sent
  BY CurrentTyped
<1>2. /\ Current.of \in Asked(stream)
      /\ \A j \in 1 .. Passed : sent[j].of # Current.of
      /\ \A id \in Asked(stream) : id < Current.of => \E j \in 1 .. Passed : sent[j].of = id
  BY <1>1 DEF AnsweredInOrder
<1>3. Current.of \in Elements(pending)
  BY <1>2 DEF PendingInOrder, Awaited
<1>4. PICK i \in DOMAIN pending : pending[i] = Current.of
  BY <1>3 DEF Elements
<1>5. pending \in Seq(Nat) /\ DOMAIN pending = 1 .. Len(pending) /\ Len(pending) \in Nat /\ pending # <<>>
  BY <1>4, LenProperties, EmptySeq DEF Typed
<1>6. 1 \in DOMAIN pending /\ Head(pending) = pending[1] /\ pending[1] \in Nat
  BY <1>5, TailRemoves
<1>7. pending[1] \in Awaited
  BY <1>6 DEF PendingInOrder, Elements
<1>8. ~ (pending[1] < Current.of)
  BY <1>2, <1>7 DEF Awaited
<1>9. i = 1
  <2>1. CASE 1 < i
    BY <1>4, <1>6, <1>8, <2>1 DEF PendingInOrder
  <2> QED
    BY <1>5, <2>1
<1> QED
  BY <1>4, <1>5, <1>6, <1>9

(* And is no longer awaited when it has passed.                            *)
LEMMA AwaitedPasses ==
  ASSUME Typed, CursorInPlace, SentInOrder, AnsweredInOrder, cursor.message \in DOMAIN sent,
         UNCHANGED <<wire, stream, sent>>, cursor' = [message |-> cursor.message + 1, part |-> 1]
  PROVE  /\ Awaited' = Awaited \ {Current.of}
         /\ Current.stream # stream \/ ~ IsReply(Current) => Awaited' = Awaited
<1>1. Passed \in Nat /\ Passed' = Passed + 1 /\ Current = sent[Passed + 1] /\ Current \in ServerMessages
      /\ Passed + 1 \in DOMAIN sent
  BY CurrentTyped DEF Passed
<1>2. Asked(stream)' = Asked(stream)
  BY DEF Asked
<1>3. \A id : (\A j \in 1 .. Passed + 1 : sent[j].of # id) <=> (\A j \in 1 .. Passed : sent[j].of # id) /\ id # Current.of
  BY <1>1
<1>4. Awaited' = Awaited \ {Current.of}
  BY <1>1, <1>2, <1>3 DEF Awaited
<1>5. CASE ~ IsReply(Current)
  <2>1. Current.of = 0
    BY <1>1, <1>5, PayloadForm DEF SentInOrder, IsReply, AllServerKinds, NoId
  <2>2. 0 \notin Awaited
    BY AskedTyped DEF Awaited
  <2> QED
    BY <1>4, <1>5, <2>1, <2>2
<1>6. CASE Current.stream # stream /\ IsReply(Current)
  <2>1. Current.of \in Asked(Current.stream)
    BY <1>1, <1>6 DEF AnsweredInOrder
  <2>2. Current.of \notin Awaited
    BY <1>6, <2>1, AskedTyped DEF Awaited
  <2> QED
    BY <1>4, <1>6, <2>2
<1> QED
  BY <1>4, <1>5, <1>6

(* The oldest of a growing sequence taken out.                             *)
LEMMA TailOfGrowing ==
  ASSUME pending \in Seq(Nat), pending # <<>>,
         \A i, j \in DOMAIN pending : i < j => pending[i] < pending[j]
  PROVE  /\ Elements(Tail(pending)) = Elements(pending) \ {Head(pending)}
         /\ \A i, j \in DOMAIN Tail(pending) : i < j => Tail(pending)[i] < Tail(pending)[j]
         /\ RemoveFirst(pending, Head(pending)) = Tail(pending)
         /\ Head(pending) \in Elements(pending)
<1> DEFINE n == Len(pending)
           q == Tail(pending)
<1>1. /\ n \in Nat \ {0} /\ DOMAIN pending = 1 .. n /\ 1 \in 1 .. n
      /\ Head(pending) = pending[1]
  BY TailRemoves, LenProperties, EmptySeq
<1>2. /\ DOMAIN q = 1 .. n - 1 /\ \A i \in 1 .. n - 1 : q[i] = pending[i + 1]
  BY HeadTailProperties, LenProperties
<1>3. \A i \in 1 .. n : pending[i] \in Nat
  BY <1>1, ElementOfSeq
<1> HIDE DEF n, q
<1>4. \A i \in 2 .. n : pending[i] # pending[1]
  BY <1>1, <1>3
<1>5. ASSUME NEW i \in 1 .. n - 1, NEW j \in 1 .. n - 1, i < j
      PROVE  q[i] < q[j]
  <2>1. i + 1 \in DOMAIN pending /\ j + 1 \in DOMAIN pending /\ i + 1 < j + 1
    BY <1>1, <1>5
  <2>2. pending[i + 1] < pending[j + 1]
    BY <2>1
  <2> QED
    BY <1>2, <2>2
<1>6. Elements(q) = Elements(pending) \ {pending[1]}
  <2>1. ASSUME NEW i \in 1 .. n - 1
        PROVE  q[i] \in Elements(pending) \ {pending[1]}
    <3>1. i + 1 \in 2 .. n /\ i + 1 \in DOMAIN pending
      BY <1>1
    <3> QED
      BY <1>2, <1>4, <3>1 DEF Elements
  <2>2. ASSUME NEW i \in 1 .. n, pending[i] # pending[1]
        PROVE  pending[i] \in Elements(q)
    <3>1. i - 1 \in 1 .. n - 1 /\ (i - 1) + 1 = i
      BY <1>1, <2>2
    <3> QED
      BY <1>2, <3>1 DEF Elements
  <2>3. Elements(q) = {q[i] : i \in 1 .. n - 1} /\ Elements(pending) = {pending[i] : i \in 1 .. n}
    BY <1>1, <1>2 DEF Elements
  <2>4. Elements(q) \subseteq Elements(pending) \ {pending[1]}
    BY <2>1, <2>3
  <2>5. Elements(pending) \ {pending[1]} \subseteq Elements(q)
    BY <2>2, <2>3
  <2> QED
    BY <2>4, <2>5
<1>7. Head(pending) \in Elements(pending)
  BY <1>1 DEF Elements
<1>8. RemoveFirst(pending, Head(pending)) = q
  <2>1. PICK k \in 1 .. n : pending[k] = Head(pending) /\ RemoveFirst(pending, Head(pending)) = RemoveAt(pending, k)
    BY <1>7, RemoveFirstRemoves DEF n
  <2>2. k = 1
    BY <1>1, <1>4, <2>1
  <2> QED
    BY <2>1, <2>2, TailRemoves DEF q
<1> QED
  BY <1>1, <1>2, <1>5, <1>6, <1>7, <1>8 DEF q
(* A message taken in its turn reaches the client, an error as the reply   *)
(* it is, and the rest stays in order.                                     *)
LEMMA CurrentIsTaken ==
  ASSUME Typed, CursorInPlace, SentInOrder, AnsweredInOrder, PendingInOrder, ErrorsReachTheirRequest,
         Bridging, cursor.message \in DOMAIN sent, Current.stream = stream,
         seen = Cardinality(OnStream(stream, Passed)), Accept(Current),
         UNCHANGED <<wire, stream, sent>>, cursor' = [message |-> cursor.message + 1, part |-> 1]
  PROVE  /\ UNCHANGED state /\ seen' = Cardinality(OnStream(stream, Passed)')
         /\ PendingInOrder' /\ ErrorsReachTheirRequest'
<1> DEFINE m == Current
<1>1. /\ IsNext(m) /\ ~ IsOld(m) /\ m.seq = seen + 1 /\ m \in Elements(sent) /\ m \in ServerMessages
      /\ Passed \in Nat /\ Passed' = Passed + 1 /\ m = sent[Passed + 1] /\ m.kind # "request"
      /\ m.kind \in AllServerKinds
  BY CurrentIsNext, CurrentTyped, PayloadForm DEF Passed, SentInOrder
<1>2. pending \in Seq(Nat)
  BY DEF Typed
<1>3. IsReply(m) => pending # <<>> /\ Head(pending) = m.of
  BY ReplyIsToTheOldest
<1>4. /\ UNCHANGED state /\ seen' = m.seq
      /\ pending' = IF IsReply(m) THEN Tail(pending) ELSE pending
      /\ Delivery(m)
  <2>1. CASE DeliverError(m)
    <3>1. m.kind = "error" /\ IsReply(m)
      BY <2>1 DEF DeliverError, IsReply
    <3> QED
      BY <1>3, <2>1, <3>1 DEF DeliverError, Delivery
  <2>2. CASE DeliverOther(m)
    <3>1. Delivery(m) /\ UNCHANGED state /\ seen' = m.seq
      BY <2>2 DEF DeliverOther, Delivery
    <3>2. CASE IsReply(m)
      <4>1. m.id = Head(pending) /\ pending # <<>>
        BY <1>1, <1>3, <2>2, <3>2, PayloadForm DEF DeliverOther, IsReply
      <4>2. m.id \in Elements(pending) /\ RemoveFirst(pending, m.id) = Tail(pending)
        BY <1>2, <4>1, TailOfGrowing DEF PendingInOrder
      <4> QED
        BY <2>2, <3>1, <3>2, <4>2 DEF DeliverOther
    <3>3. CASE ~ IsReply(m)
      <4>1. m.id = 0
        BY <1>1, <3>3, PayloadForm DEF IsReply, AllServerKinds, NoId
      <4>2. m.id \notin Elements(pending)
        BY <4>1, AskedTyped DEF PendingInOrder, Awaited
      <4> QED
        BY <2>2, <3>1, <3>3, <4>2 DEF DeliverOther
    <3> QED
      BY <3>2, <3>3
  <2> QED
    BY <1>1, <2>1, <2>2 DEF Accept, IgnoreOld, FailOnGap
<1>5. seen' = Cardinality(OnStream(stream, Passed)')
  <2>1. Cardinality(OnStream(stream, Passed + 1)) = Cardinality(OnStream(stream, Passed)) + 1
    BY <1>1, OneMoreOnStream
  <2>2. OnStream(stream, Passed)' = OnStream(stream, Passed + 1)
    BY <1>1 DEF OnStream
  <2> QED
    BY <1>1, <1>4, <2>1, <2>2
<1>6. PendingInOrder'
  <2>1. CASE IsReply(m)
    <3>1. Awaited' = Awaited \ {Head(pending)}
      BY <1>3, <2>1, AwaitedPasses
    <3>2. pending' = Tail(pending) /\ pending # <<>>
      BY <1>3, <1>4, <2>1
    <3>3. /\ Elements(Tail(pending)) = Elements(pending) \ {Head(pending)}
          /\ \A i, j \in DOMAIN Tail(pending) : i < j => Tail(pending)[i] < Tail(pending)[j]
      BY <1>2, <3>2, TailOfGrowing DEF PendingInOrder
    <3>4. Elements(pending') = Elements(pending) \ {Head(pending)}
      BY <3>2, <3>3
    <3>5. \A i, j \in DOMAIN pending' : i < j => pending'[i] < pending'[j]
      BY <3>2, <3>3
    <3> QED
      BY <3>1, <3>4, <3>5 DEF PendingInOrder, Elements
  <2>2. CASE ~ IsReply(m)
    <3>1. Awaited' = Awaited
      BY <2>2, AwaitedPasses
    <3> QED
      BY <1>4, <2>2, <3>1 DEF PendingInOrder, Elements
  <2> QED
    BY <2>1, <2>2
<1>7. ErrorsReachTheirRequest'
  <2> DEFINE n == Len(toLocal)
  <2>1. /\ DOMAIN toLocal = 1 .. n /\ DOMAIN toLocal' = 1 .. n + 1 /\ n \in Nat
        /\ \A i \in 1 .. n : toLocal'[i] = toLocal[i]
        /\ toLocal'[n + 1].kind = m.kind /\ AsSent(toLocal'[n + 1]) = m
        /\ m.kind = "error" => toLocal'[n + 1].id = Head(pending)
    BY <1>1, <1>4, DeliveryAppends
  <2>2. toLocal' \in Seq(Deliveries)
    BY <1>1, <1>4, DeliveryTyped
  <2>3. toLocal'[n + 1] \in Deliveries
    BY <2>1, <2>2, ElementOfSeq, LenProperties
  <2>4. toLocal'[n + 1].of = m.of
    <3>1. \A d \in Deliveries : AsSent(d).of = d.of
      BY DEF AsSent, Deliveries
    <3> QED
      BY <2>1, <2>3, <3>1
  <2> HIDE DEF n
  <2>5. ASSUME NEW i \in DOMAIN toLocal', toLocal'[i].kind = "error"
        PROVE  toLocal'[i].id = toLocal'[i].of
    <3>1. CASE i \in 1 .. n
      BY <2>1, <2>5, <3>1 DEF ErrorsReachTheirRequest, Elements
    <3>2. CASE i = n + 1
      BY <1>3, <2>1, <2>4, <2>5, <3>2 DEF IsReply
    <3> QED
      BY <2>1, <2>5, <3>1, <3>2
  <2> QED
    BY <2>5 DEF ErrorsReachTheirRequest, Elements
<1> QED
  BY <1>4, <1>5, <1>6, <1>7

-----------------------------------------------------------------------------
(* The two halves of a message.                                            *)

LEMMA FirstHalf ==
  ASSUME Typed, RoomForOne, NEW m \in Elements(sent), m.parts = 2, m.stream = stream,
         DOMAIN assemblies = {}, buffered = 0,
         ObserveSegment(m, 1)
  PROVE  /\ UNCHANGED <<state, pending, seen, toLocal>>
         /\ assemblies' = [k \in {<<stream, m.seq>>} |-> HalfOf(m)] /\ buffered' = 1
<1> DEFINE s == SegmentOf(m, 1)
<1>1. /\ s.key = <<stream, m.seq>> /\ s.id = 0 /\ s.count = 2 /\ s.size = 2
      /\ s.chunk = ChunkOf(m, 1) /\ s.chunk.len = 1
  BY DEF SegmentOf, ChunkOf
<1>2. MaxMessageBytes \in Nat /\ MaxMessageBytes >= 2 /\ MaxAssemblies \in Nat /\ MaxAssemblies >= 1
  BY BoundsAssumption DEF RoomForOne
<1> HIDE DEF s
<1>3. R!Entry(s) = [count |-> 2, size |-> 2, received |-> 0, chunks |-> [i \in {} |-> {}]]
  BY <1>1 DEF R!Entry, R!IsOpen, R!NewAssembly
<1>4. R!Admitted(s)
  <2>1. Cardinality({}) = 0
    BY FS_EmptySet
  <2>2. R!Cardinality(DOMAIN assemblies) = Cardinality({})
    BY ONLY Zenon, DOMAIN assemblies = {} DEF R!Cardinality, Cardinality
  <2>3. R!HasSlot(s)
    BY <1>2, <2>1, <2>2 DEF R!HasSlot
  <2>4. R!WellFormed(s)
    BY <1>1, <1>2 DEF R!WellFormed
  <2> QED
    BY <2>3, <2>4 DEF R!Admitted
<1>5. ~ R!IsRepeat(s)
  BY <1>3 DEF R!IsRepeat
<1>6. ~ R!Poisonous(s)
  BY <1>1, <1>2, <1>3, <1>5 DEF R!Poisonous, R!SameMetadata, R!ChangedRepeat, R!Fits, R!MaxBuffered
<1>7. R!Stored(s) = HalfOf(m)
  <2>1. R!Stored(s) = [count |-> 2, size |-> 2, received |-> 1,
                       chunks |-> [i \in {} \cup {0} |-> IF i = 0 THEN ChunkOf(m, 1) ELSE R!Entry(s).chunks[i]]]
    BY <1>1, <1>3, <1>5 DEF R!Stored
  <2>2. [i \in {} \cup {0} |-> IF i = 0 THEN ChunkOf(m, 1) ELSE R!Entry(s).chunks[i]] = [i \in {0} |-> ChunkOf(m, 1)]
    OBVIOUS
  <2> QED
    BY <2>1, <2>2 DEF HalfOf
<1>8. ~ R!IsComplete(R!Stored(s))
  <2>1. DOMAIN R!Stored(s).chunks = {0} /\ R!Stored(s).count = 2
    BY <1>7 DEF HalfOf
  <2>2. 1 \in R!Ids(2)
    BY DEF R!Ids
  <2> QED
    BY <2>1, <2>2 DEF R!IsComplete
<1>9. R!Hold(s) /\ UNCHANGED <<state, pending, seen, toLocal>>
  BY <1>4, <1>6, <1>8 DEF ObserveSegment, R!Refuse, R!Discard, R!Reject, R!Return, R!Complete, s
<1>10. R!Added(s) = 1
  BY <1>3, <1>7 DEF R!Added, HalfOf
<1>11. assemblies' = [k \in {<<stream, m.seq>>} |-> HalfOf(m)]
  <2>1. assemblies' = [j \in {} \cup {<<stream, m.seq>>} |-> IF j = <<stream, m.seq>> THEN HalfOf(m) ELSE assemblies[j]]
    BY <1>1, <1>7, <1>9 DEF R!Hold, R!Put
  <2> QED
    BY <2>1
<1>12. buffered' = 1
  BY <1>9, <1>10 DEF R!Hold
<1> QED
  BY <1>9, <1>11, <1>12

LEMMA SecondHalf ==
  ASSUME Typed, RoomForOne, SentInv, AssembliesAreUnmixed,
         NEW m \in Elements(sent), m.parts = 2, m.stream = stream, m \in SegmentedMessages,
         assemblies = [k \in {<<stream, m.seq>>} |-> HalfOf(m)], buffered = 1,
         ObserveSegment(m, 2)
  PROVE  /\ DOMAIN assemblies' = {} /\ buffered' = 0
         /\ \/ Accept(m)
            \/ m.kind = "garbled" /\ state' = "segment refused" /\ UNCHANGED toLocal
<1> DEFINE s == SegmentOf(m, 2)
<1>1. /\ s.key = <<stream, m.seq>> /\ s.id = 1 /\ s.count = 2 /\ s.size = 2
      /\ s.chunk = ChunkOf(m, 2) /\ s.chunk.len = 1
  BY DEF SegmentOf, ChunkOf
<1>2. MaxMessageBytes \in Nat /\ MaxMessageBytes >= 2 /\ MaxAssemblies \in Nat /\ MaxAssemblies >= 1
  BY BoundsAssumption DEF RoomForOne
<1> HIDE DEF s
<1>3. R!IsOpen(s.key) /\ DOMAIN assemblies = {s.key}
  BY <1>1 DEF R!IsOpen
<1>4. R!Entry(s) = HalfOf(m)
  BY <1>1, <1>3 DEF R!Entry
<1>5. /\ R!Entry(s).count = 2 /\ R!Entry(s).size = 2 /\ R!Entry(s).received = 1
      /\ R!Entry(s).chunks = [i \in {0} |-> ChunkOf(m, 1)] /\ DOMAIN R!Entry(s).chunks = {0}
  BY <1>4 DEF HalfOf
<1>6. R!Admitted(s)
  BY <1>1, <1>2, <1>3 DEF R!Admitted, R!HasSlot, R!WellFormed
<1>7. ~ R!IsRepeat(s)
  BY <1>1, <1>5 DEF R!IsRepeat
<1>8. ~ R!Poisonous(s)
  BY <1>1, <1>2, <1>5, <1>7 DEF R!Poisonous, R!SameMetadata, R!ChangedRepeat, R!Fits, R!MaxBuffered
<1>9. /\ R!Stored(s).count = 2 /\ R!Stored(s).size = 2 /\ R!Stored(s).received = 2
      /\ R!Stored(s).chunks = [i \in 0 .. 1 |-> ChunkOf(m, i + 1)]
  <2>1. R!Stored(s) = [count |-> 2, size |-> 2, received |-> 2,
                       chunks |-> [i \in {0} \cup {1} |-> IF i = 1 THEN ChunkOf(m, 2) ELSE R!Entry(s).chunks[i]]]
    BY <1>1, <1>5, <1>7 DEF R!Stored
  <2>2. [i \in {0} \cup {1} |-> IF i = 1 THEN ChunkOf(m, 2) ELSE R!Entry(s).chunks[i]]
          = [i \in 0 .. 1 |-> ChunkOf(m, i + 1)]
    <3>1. {0} \cup {1} = 0 .. 1
      OBVIOUS
    <3>2. \A i \in 0 .. 1 : (IF i = 1 THEN ChunkOf(m, 2) ELSE R!Entry(s).chunks[i]) = ChunkOf(m, i + 1)
      BY <1>5
    <3> QED
      BY <3>1, <3>2
  <2> QED
    BY <2>1, <2>2
<1>10. R!IsComplete(R!Stored(s))
  BY <1>9 DEF R!IsComplete, R!Ids
<1>11. m.kind # "garbled" => R!IsMessage(R!Stored(s))
  <2>1. R!BytesOf(R!Stored(s)) = {<<0, 1>>, <<1, 1>>}
    <3>1. \A i \in 0 .. 1 : R!Stored(s).chunks[i].len = 1
      BY <1>9 DEF ChunkOf
    <3>2. DOMAIN R!Stored(s).chunks = 0 .. 1
      BY <1>9
    <3>3. R!Ids(2) \X (1 .. 1) = {<<0, 1>>, <<1, 1>>}
      BY DEF R!Ids
    <3> QED
      BY <3>1, <3>2, <3>3 DEF R!BytesOf
  <2>2. R!Cardinality(R!BytesOf(R!Stored(s))) = 2
    <3>1. Cardinality({<<0, 1>>, <<1, 1>>}) = 2
      <4> DEFINE a == <<0, 1>>
                 b == <<1, 1>>
      <4>1. a # b /\ {<<0, 1>>, <<1, 1>>} = {a} \cup {b}
        OBVIOUS
      <4> HIDE DEF a, b
      <4>2. IsFiniteSet({a}) /\ Cardinality({a}) = 1 /\ b \notin {a}
        BY <4>1, FS_Singleton
      <4>3. Cardinality({a} \cup {b}) = Cardinality({a}) + 1
        BY <4>2, FS_AddElement
      <4> QED
        BY ONLY <4>1, <4>2, <4>3
    <3>2. R!Cardinality({<<0, 1>>, <<1, 1>>}) = Cardinality({<<0, 1>>, <<1, 1>>})
      BY ONLY Zenon DEF R!Cardinality, Cardinality
    <3> QED
      BY <2>1, <3>1, <3>2
  <2>3. m.kind # "garbled" => R!Stored(s).chunks \in ObjectTexts
    BY <1>9 DEF ObjectTexts
  <2> QED
    BY <1>9, <2>2, <2>3 DEF R!IsMessage
<1>12. \/ R!Reject(s) /\ Fail("segment refused") /\ UNCHANGED <<pending, seen, toLocal>>
       \/ R!Return(s) /\ Accept(R!Stored(s).chunks[0].data.message)
  BY <1>6, <1>8, <1>10 DEF ObserveSegment, R!Refuse, R!Discard, R!Hold, s
<1>13. DOMAIN assemblies' = {} /\ buffered' = 0
  <2>1. R!Complete(s)
    BY <1>12 DEF R!Reject, R!Return
  <2>2. R!Added(s) = 1
    BY <1>5, <1>9 DEF R!Added
  <2> QED
    BY <1>3, <1>9, <2>1, <2>2 DEF R!Complete, R!Drop, R!SaturatingSub
<1>14. CASE R!Reject(s) /\ Fail("segment refused") /\ UNCHANGED <<pending, seen, toLocal>>
  BY <1>11, <1>13, <1>14 DEF R!Reject, Fail
<1>15. CASE R!Return(s) /\ Accept(R!Stored(s).chunks[0].data.message)
  <2>1. R!Return(SegmentOf(m, 2)) /\ 2 \in 1 .. m.parts /\ m.parts > 1
    BY <1>15 DEF s
  <2>2. R!Stored(SegmentOf(m, 2)).chunks[0].data.message = m
    BY <2>1, ReturnIsTheMessage
  <2> QED
    BY <1>13, <1>15, <2>2 DEF s
<1> QED
  BY <1>12, <1>14, <1>15
-----------------------------------------------------------------------------
(* What the bridge knows, while it is up.                                  *)
ReadsInOrder == seen = Cardinality(OnStream(stream, Passed)) /\ TableInOrder /\ PendingInOrder

OrderInv ==
  /\ KeepsOrder(around)
  /\ IdsArePlaces /\ SentInOrder /\ AnsweredInOrder /\ CursorInPlace
  /\ Bridging => ReadsInOrder
  /\ OrderlyRelayIsEnough /\ ErrorsReachTheirRequest

BridgeInv == ReadingInv /\ NothingLost /\ Numbered

LEMMA CursorMoves ==
  ASSUME Typed, CursorInPlace, KeepsOrder(around), UNCHANGED sent,
         NEW i \in DOMAIN sent, NEW part \in 1 .. sent[i].parts, Delivers(i, part)
  PROVE  /\ i = cursor.message /\ part = cursor.part /\ sent[i] = Current /\ Current.parts \in {1, 2}
         /\ CursorInPlace'
         /\ \/ /\ part = Current.parts
               /\ cursor' = [message |-> cursor.message + 1, part |-> 1]
            \/ /\ part = 1 /\ Current.parts = 2
               /\ cursor' = [message |-> cursor.message, part |-> 2]
<1>1. i = cursor.message /\ part = cursor.part
      /\ cursor' = IF part < sent[i].parts THEN [message |-> i, part |-> part + 1]
                                           ELSE [message |-> i + 1, part |-> 1]
  BY DEF Delivers, KeepsOrder, InOrder
<1>2. sent[i].parts \in {1, 2} /\ DOMAIN sent = 1 .. Len(sent) /\ Len(sent) \in Nat
  BY SentLens, MessageForm DEF Deliveries
<1>3. sent[i] = Current
  BY <1>1 DEF Current
<1>4. CASE part < sent[i].parts
  <2>1. part = 1 /\ sent[i].parts = 2 /\ cursor' = [message |-> i, part |-> 2]
    BY <1>1, <1>2, <1>4
  <2>2. CursorInPlace'
    BY <1>2, <2>1 DEF CursorInPlace
  <2> QED
    BY <1>1, <1>2, <1>3, <2>1, <2>2
<1>5. CASE ~ (part < sent[i].parts)
  <2>1. part = sent[i].parts /\ cursor' = [message |-> i + 1, part |-> 1]
    BY <1>1, <1>2, <1>5
  <2>2. CursorInPlace'
    BY <1>2, <2>1 DEF CursorInPlace
  <2> QED
    BY <1>1, <1>2, <1>3, <2>1, <2>2
<1> QED
  BY <1>4, <1>5

LEMMA ObserveKeepsOrder ==
  ASSUME BridgeInv, OrderInv, RoomForOne, UNCHANGED around,
         NEW i \in DOMAIN sent, NEW part \in {1, 2}, Observe(i, part)
  PROVE  OrderInv'
<1> USE DEF BridgeInv, ReadingInv, bridge, reassembler
<1>1. Bridging /\ UNCHANGED <<stream, nextSeq, inbox, wire, localSent, sent>>
  BY ObserveCases
<1>2. part \in 1 .. sent[i].parts /\ Delivers(i, part)
  BY DEF Observe
<1>3. /\ i = cursor.message /\ part = cursor.part /\ sent[i] = Current /\ Current.parts \in {1, 2}
      /\ CursorInPlace'
      /\ \/ part = Current.parts /\ cursor' = [message |-> cursor.message + 1, part |-> 1]
         \/ part = 1 /\ Current.parts = 2 /\ cursor' = [message |-> cursor.message, part |-> 2]
  BY <1>1, <1>2, CursorMoves DEF OrderInv
<1>4. KeepsOrder(around)' /\ IdsArePlaces' /\ SentInOrder' /\ AnsweredInOrder'
  BY <1>1 DEF OrderInv, KeepsOrder, IdsArePlaces, SentInOrder, OnStream, AnsweredInOrder, Asked
<1>5. /\ seen = Cardinality(OnStream(stream, Passed)) /\ TableInOrder /\ PendingInOrder
  BY <1>1 DEF OrderInv, ReadsInOrder
<1>6. /\ cursor.message \in DOMAIN sent /\ Current \in Elements(sent)
      /\ Passed \in Nat /\ Current = sent[Passed + 1]
      /\ cursor.message = Passed + 1 /\ Passed + 1 \in DOMAIN sent
      /\ (Current.parts = 2 => Current \in SegmentedMessages)
  <2>1. cursor.message \in DOMAIN sent
    BY <1>3
  <2> QED
    BY <1>3, <2>1, CurrentTyped DEF OrderInv, SentInOrder
<1>7. (OrderlyRelayIsEnough /\ UNCHANGED <<state, sent>>) => OrderlyRelayIsEnough'
  BY DEF OrderlyRelayIsEnough
<1>8. (ErrorsReachTheirRequest /\ UNCHANGED toLocal) => ErrorsReachTheirRequest'
  BY DEF ErrorsReachTheirRequest
<1>9. OrderlyRelayIsEnough /\ ErrorsReachTheirRequest
  BY DEF OrderInv
<1>10. ASSUME Bridging' => ReadsInOrder', OrderlyRelayIsEnough', ErrorsReachTheirRequest'
       PROVE  OrderInv'
  BY <1>3, <1>4, <1>10 DEF OrderInv
<1>11. ASSUME cursor' = [message |-> cursor.message, part |-> 2], UNCHANGED <<seen, pending>>
       PROVE  seen' = Cardinality(OnStream(stream, Passed)') /\ PendingInOrder'
  <2>1. Passed' = Passed
    BY <1>11 DEF Passed
  <2> QED
    BY <1>1, <1>5, <1>11, <2>1 DEF OnStream, PendingInOrder, Awaited, Asked, Elements
<1>12. CASE IgnoreStale(Current)
  <2>1. Current.stream # stream /\ UNCHANGED <<state, pending, seen, assemblies, buffered, toLocal>>
    BY <1>12 DEF IgnoreStale
  <2>2. ~ Halfway
    BY <2>1 DEF Halfway, Current
  <2>3. ~ Halfway'
    BY <1>1, <1>3, <2>1 DEF Halfway, Current
  <2>4. TableInOrder'
    BY <1>5, <2>1, <2>2, <2>3 DEF TableInOrder
  <2>5. seen' = Cardinality(OnStream(stream, Passed)') /\ PendingInOrder'
    <3>1. CASE cursor' = [message |-> cursor.message, part |-> 2]
      BY <1>11, <2>1, <3>1
    <3>2. CASE cursor' = [message |-> cursor.message + 1, part |-> 1]
      <4>1. Awaited' = Awaited
        BY <1>1, <1>6, <2>1, <3>2, AwaitedPasses DEF OrderInv
      <4>2. PendingInOrder'
        BY <1>5, <2>1, <4>1 DEF PendingInOrder, Elements
      <4>3. Passed' = Passed + 1
        BY <1>6, <3>2 DEF Passed
      <4>4. OnStream(stream, Passed)' = OnStream(stream, Passed)
        BY <1>1, <1>6, <2>1, <4>3 DEF OnStream
      <4> QED
        BY <1>5, <2>1, <4>2, <4>4
    <3> QED
      BY <1>3, <3>1, <3>2
  <2>6. ReadsInOrder'
    BY <2>4, <2>5 DEF ReadsInOrder
  <2>7. OrderlyRelayIsEnough' /\ ErrorsReachTheirRequest'
    BY <1>1, <1>7, <1>8, <1>9, <2>1
  <2> QED
    BY <1>10, <2>6, <2>7
<1>13. CASE ObserveWhole(Current)
  <2>1. Current.stream = stream /\ Current.parts = 1 /\ Accept(Current) /\ UNCHANGED <<assemblies, buffered>>
    BY <1>13 DEF ObserveWhole
  <2>2. part = 1 /\ cursor' = [message |-> cursor.message + 1, part |-> 1]
    BY <1>3, <2>1
  <2>3. /\ UNCHANGED state /\ seen' = Cardinality(OnStream(stream, Passed)')
        /\ PendingInOrder' /\ ErrorsReachTheirRequest'
    BY <1>1, <1>5, <1>6, <1>9, <2>1, <2>2, CurrentIsTaken DEF OrderInv
  <2>4. TableInOrder'
    <3>1. ~ Halfway /\ ~ Halfway'
      BY <1>3, <2>2 DEF Halfway
    <3> QED
      BY <1>5, <2>1, <3>1 DEF TableInOrder
  <2> QED
    BY <1>1, <1>7, <1>9, <1>10, <2>3, <2>4 DEF ReadsInOrder
<1>14. CASE ObserveSegment(Current, part)
  <2>1. Current.stream = stream /\ Current.parts = 2
    <3>1. Current.stream = stream /\ Current.parts > 1
      BY <1>14 DEF ObserveSegment
    <3>2. Current.parts \in {1, 2}
      BY <1>3
    <3> QED
      BY <3>1, <3>2
  <2>2. CASE part = 1
    <3>1. ~ Halfway /\ cursor' = [message |-> cursor.message, part |-> 2]
      BY <1>3, <2>1, <2>2 DEF Halfway
    <3>2. /\ UNCHANGED <<state, pending, seen, toLocal>>
          /\ assemblies' = [k \in {<<stream, Current.seq>>} |-> HalfOf(Current)] /\ buffered' = 1
      BY <1>5, <1>6, <1>14, <2>1, <2>2, <3>1, FirstHalf DEF TableInOrder
    <3>3. TableInOrder'
      BY <1>1, <2>1, <3>1, <3>2 DEF TableInOrder, Halfway, Current
    <3>4. seen' = Cardinality(OnStream(stream, Passed)') /\ PendingInOrder'
      BY <1>11, <3>1, <3>2
    <3> QED
      BY <1>1, <1>7, <1>8, <1>9, <1>10, <3>2, <3>3, <3>4 DEF ReadsInOrder
  <2>3. CASE part = 2
    <3>1. Halfway /\ cursor' = [message |-> cursor.message + 1, part |-> 1]
      BY <1>3, <2>1, <2>3 DEF Halfway, Current
    <3>2. assemblies = [k \in {<<stream, Current.seq>>} |-> HalfOf(Current)] /\ buffered = 1
      BY <1>5, <3>1 DEF TableInOrder, Current
    <3>3. /\ DOMAIN assemblies' = {} /\ buffered' = 0
          /\ \/ Accept(Current)
             \/ Current.kind = "garbled" /\ state' = "segment refused" /\ UNCHANGED toLocal
      BY <1>6, <1>14, <2>1, <2>3, <3>2, SecondHalf
    <3>4. TableInOrder'
      <4>1. ~ Halfway'
        BY <3>1 DEF Halfway
      <4> QED
        BY <3>3, <4>1 DEF TableInOrder
    <3>5. CASE Accept(Current)
      <4>1. /\ UNCHANGED state /\ seen' = Cardinality(OnStream(stream, Passed)')
            /\ PendingInOrder' /\ ErrorsReachTheirRequest'
        BY <1>1, <1>5, <1>6, <1>9, <2>1, <3>1, <3>5, CurrentIsTaken DEF OrderInv
      <4> QED
        BY <1>1, <1>7, <1>9, <1>10, <3>4, <4>1 DEF ReadsInOrder
    <3>6. CASE Current.kind = "garbled" /\ state' = "segment refused" /\ UNCHANGED toLocal
      <4>1. OrderlyRelayIsEnough'
        BY <1>1, <1>6, <3>6 DEF OrderlyRelayIsEnough
      <4>2. ~ Bridging'
        BY <3>6 DEF Bridging
      <4> QED
        BY <1>8, <1>9, <1>10, <3>6, <4>1, <4>2
    <3> QED
      BY <3>3, <3>5, <3>6
  <2> QED
    BY <2>2, <2>3
<1> QED
  BY <1>3, <1>12, <1>13, <1>14 DEF Observe

LEMMA Undisturbed ==
  ASSUME OrderInv, UNCHANGED <<around, stream, wire, toLocal, sent, cursor>>
  PROVE  /\ KeepsOrder(around)' /\ SentInOrder' /\ AnsweredInOrder' /\ CursorInPlace' /\ ErrorsReachTheirRequest'
         /\ UNCHANGED localSent => IdsArePlaces'
         /\ UNCHANGED state => OrderlyRelayIsEnough'
         /\ UNCHANGED <<state, pending, seen, assemblies, buffered>> => (Bridging' => ReadsInOrder')
<1>1. KeepsOrder(around)'
  BY DEF OrderInv, KeepsOrder
<1>2. SentInOrder'
  BY DEF OrderInv, SentInOrder, OnStream
<1>3. AnsweredInOrder'
  BY DEF OrderInv, AnsweredInOrder, Asked
<1>4. CursorInPlace'
  BY DEF OrderInv, CursorInPlace
<1>5. ErrorsReachTheirRequest'
  BY DEF OrderInv, ErrorsReachTheirRequest, Elements
<1>6. UNCHANGED localSent => IdsArePlaces'
  BY DEF OrderInv, IdsArePlaces
<1>7. UNCHANGED state => OrderlyRelayIsEnough'
  BY DEF OrderInv, OrderlyRelayIsEnough, Elements
<1>8. ASSUME UNCHANGED <<state, pending, seen, assemblies, buffered>>, Bridging'
      PROVE  ReadsInOrder'
  <2>1. ReadsInOrder
    BY <1>8 DEF OrderInv, Bridging
  <2>2. TableInOrder'
    BY <1>8, <2>1 DEF ReadsInOrder, TableInOrder, Halfway
  <2>3. PendingInOrder'
    BY <1>8, <2>1 DEF ReadsInOrder, PendingInOrder, Awaited, Asked, Passed, Elements
  <2>4. seen' = Cardinality(OnStream(stream, Passed)')
    BY <1>8, <2>1 DEF ReadsInOrder, OnStream, Passed
  <2> QED
    BY <2>2, <2>3, <2>4 DEF ReadsInOrder
<1> QED
  BY <1>1, <1>2, <1>3, <1>4, <1>5, <1>6, <1>7, <1>8

LEMMA NextKeepsOrder ==
  ASSUME BridgeInv, OrderInv, RoomForOne, [Next]_vars
  PROVE  OrderInv'
<1> USE DEF BridgeInv, ReadingInv, bridge, reassembler
<1>0. UNCHANGED around
  BY DEF Next, vars
<1>1. ASSUME NEW m \in LocalMessages, LocalSends(m)
      PROVE  OrderInv'
  <2>1. IdsArePlaces'
    BY <1>1, LocalSendsKeepsIds DEF OrderInv
  <2>2. UNCHANGED <<state, stream, pending, seen, assemblies, buffered, wire, toLocal, sent, cursor>>
    BY <1>1 DEF LocalSends
  <2> QED
    BY <1>0, <2>1, <2>2, Undisturbed DEF OrderInv
<1>2. ASSUME NEW s \in StreamIds, NEW p \in HostPayloads, NEW n \in PartCounts, HostSends(s, p, n)
      PROVE  OrderInv'
  <2> DEFINE m == Message(s, OnStreamCount(s) + 1, p, n)
             k == Len(sent)
  <2>1. SentInOrder' /\ AnsweredInOrder'
    BY <1>2, HostSendsInOrder DEF OrderInv
  <2>2. UNCHANGED <<state, stream, pending, seen, assemblies, buffered, wire, toLocal, localSent, cursor>>
    BY <1>2 DEF HostSends
  <2>3. /\ k \in Nat /\ DOMAIN sent = 1 .. k /\ DOMAIN sent' = 1 .. k + 1 /\ Len(sent') = k + 1
        /\ \A i \in 1 .. k : sent'[i] = sent[i]
    <3>1. m \in ServerMessages /\ sent' = Append(sent, m) /\ sent \in Seq(ServerMessages)
      BY <1>2, HostSendsTyped DEF HostSends, Typed
    <3> HIDE DEF m
    <3> QED
      BY <3>1, Appended, AppendProperties
  <2> HIDE DEF m, k
  <2>4. cursor.message \in 1 .. k + 1 /\ cursor \in [message : 1 .. k + 1, part : {1, 2}]
        /\ (cursor.part = 2 => cursor.message \in 1 .. k /\ sent[cursor.message].parts = 2)
    BY DEF OrderInv, CursorInPlace, k
  <2>5. CursorInPlace'
    <3>1. cursor \in [message : 1 .. (k + 1) + 1, part : {1, 2}]
      BY <2>3, <2>4
    <3>2. cursor.part = 2 => cursor.message \in 1 .. k + 1 /\ sent'[cursor.message].parts = 2
      BY <2>3, <2>4
    <3> QED
      BY <2>2, <2>3, <3>1, <3>2 DEF CursorInPlace
  <2>6. Halfway' = Halfway /\ (Halfway => sent'[cursor.message] = sent[cursor.message])
    BY <2>2, <2>3, <2>4 DEF Halfway
  <2>7. Passed' = Passed /\ \A j \in 1 .. Passed : sent'[j] = sent[j]
    BY <2>2, <2>3, <2>4 DEF Passed
  <2>8. OnStream(stream, Passed)' = OnStream(stream, Passed) /\ Awaited' = Awaited
    BY <2>2, <2>7 DEF OnStream, Awaited, Asked
  <2>9. Bridging' => ReadsInOrder'
    <3>1. TableInOrder => TableInOrder'
      BY <2>2, <2>6 DEF TableInOrder
    <3>2. PendingInOrder => PendingInOrder'
      BY <2>2, <2>8 DEF PendingInOrder, Elements
    <3> QED
      BY <2>2, <2>8, <3>1, <3>2 DEF OrderInv, ReadsInOrder, Bridging
  <2>10. OrderlyRelayIsEnough'
    <3>1. Elements(sent) \subseteq Elements(sent')
      BY <2>3 DEF Elements
    <3> QED
      BY <2>2, <3>1 DEF OrderInv, OrderlyRelayIsEnough, Elements
  <2>11. KeepsOrder(around)' /\ IdsArePlaces' /\ ErrorsReachTheirRequest'
    BY <1>0, <2>2 DEF OrderInv, KeepsOrder, IdsArePlaces, ErrorsReachTheirRequest, Elements
  <2> QED
    BY <2>1, <2>5, <2>9, <2>10, <2>11 DEF OrderInv
<1>3. ASSUME NEW s \in Nat, NEW n \in Nat, Sends(s, n), s >= stream,
             UNCHANGED <<sent, localSent, toLocal, cursor>>, state' \in {state, "closed"},
             Bridging' => ReadsInOrder'
      PROVE  OrderInv'
  <2>1. IdsArePlaces' /\ SentInOrder' /\ AnsweredInOrder'
    BY <1>3, SendsKeepsAnswers DEF OrderInv
  <2>2. KeepsOrder(around)' /\ CursorInPlace' /\ ErrorsReachTheirRequest' /\ OrderlyRelayIsEnough'
    <3>1. KeepsOrder(around)' /\ CursorInPlace'
      BY <1>0, <1>3 DEF OrderInv, KeepsOrder, CursorInPlace
    <3>2. ErrorsReachTheirRequest'
      BY <1>3 DEF OrderInv, ErrorsReachTheirRequest, Elements
    <3>3. OrderlyRelayIsEnough'
      BY <1>3 DEF OrderInv, OrderlyRelayIsEnough, Elements
    <3> QED
      BY <3>1, <3>2, <3>3
  <2> QED
    BY <1>3, <2>1, <2>2 DEF OrderInv
<1>4. CASE ForwardInitialize
  <2>1. Sends(stream + 1, 1) /\ UNCHANGED <<state, sent, localSent, toLocal, cursor>>
    BY <1>4 DEF ForwardInitialize, TakesLocal, Outgoing, Sends
  <2>2. stream + 1 \in Nat /\ 1 \in Nat /\ stream + 1 >= stream
    BY DEF Typed
  <2>3. ReadsInOrder'
    BY <1>4, NewStreamIsInOrder DEF OrderInv, ReadsInOrder
  <2> QED
    BY <1>3, <2>1, <2>2, <2>3
<1>5. CASE ForwardOther
  <2>1. Sends(stream, nextSeq)
        /\ UNCHANGED <<state, stream, seen, assemblies, buffered, sent, localSent, toLocal, cursor>>
    BY <1>5 DEF ForwardOther, TakesLocal, Outgoing, Sends
  <2>2. stream \in Nat /\ nextSeq \in Nat /\ stream >= stream
    BY DEF Typed
  <2>3. ReadsInOrder
    BY <2>1 DEF OrderInv, Sends
  <2>4. PendingInOrder'
    BY <1>5, <2>3, ForwardKeepsPending DEF OrderInv, ReadsInOrder
  <2>5. ReadsInOrder'
    BY <2>1, <2>3, <2>4 DEF ReadsInOrder, TableInOrder, Halfway, OnStream, Passed
  <2> QED
    BY <1>3, <2>1, <2>2, <2>5
<1>6. CASE CloseLocal
  <2>1. state' = "closed" /\ UNCHANGED <<sent, localSent, toLocal, cursor, stream>>
    BY <1>6 DEF CloseLocal, TakesLocal
  <2>2. CASE UNCHANGED wire
    <3>1. OrderlyRelayIsEnough' /\ ~ Bridging'
      BY <2>1 DEF OrderlyRelayIsEnough, Bridging
    <3> QED
      BY <1>0, <2>1, <2>2, <3>1, Undisturbed DEF OrderInv
  <2>3. CASE wire' # wire
    <3>1. Sends(stream, nextSeq)
      BY <1>6, <2>3 DEF CloseLocal, TakesLocal, Sends
    <3>2. stream \in Nat /\ nextSeq \in Nat /\ stream >= stream
      BY DEF Typed
    <3> QED
      BY <1>3, <2>1, <3>1, <3>2 DEF Bridging
  <2> QED
    BY <2>2, <2>3
<1>7. ASSUME NEW i \in DOMAIN sent, NEW part \in {1, 2}, Observe(i, part)
      PROVE  OrderInv'
  BY <1>0, <1>7, ObserveKeepsOrder
<1>8. CASE ConnectionFails
  <2>1. state' = "connection failed" /\ UNCHANGED <<stream, wire, toLocal, localSent, sent, cursor>>
    BY <1>8 DEF ConnectionFails, Fail
  <2>2. OrderlyRelayIsEnough' /\ ~ Bridging'
    BY <2>1 DEF OrderlyRelayIsEnough, Bridging
  <2> QED
    BY <1>0, <2>1, <2>2, Undisturbed DEF OrderInv
<1>9. CASE UNCHANGED vars
  BY <1>9, Undisturbed DEF vars, OrderInv
<1> QED
  BY <1>1, <1>2, <1>4, <1>5, <1>6, <1>7, <1>8, <1>9 DEF Next, Step, TakeLocal, TakeFrame

LEMMA InitIsInOrder ==
  ASSUME Init, KeepsOrder(around)
  PROVE  OrderInv
<1>1. IdsArePlaces /\ SentInOrder /\ AnsweredInOrder /\ CursorInPlace /\ ErrorsReachTheirRequest
  BY DEF Init, IdsArePlaces, SentInOrder, AnsweredInOrder, CursorInPlace, ErrorsReachTheirRequest, Elements
<1>2. OnStream(stream, Passed) = {} /\ seen = 0
  BY DEF Init, OnStream, Passed, None
<1>3. TableInOrder
  BY DEF Init, R!Init, TableInOrder, Halfway
<1>4. PendingInOrder
  BY DEF Init, PendingInOrder, Awaited, Asked, Elements
<1> QED
  BY <1>1, <1>2, <1>3, <1>4, FS_EmptySet DEF Init, OrderInv, ReadsInOrder, OrderlyRelayIsEnough

(* The inductive invariant of a bridge whose relay and host keep order.    *)
THEOREM OrderIsKept ==
  ASSUME RoomForOne
  PROVE  Spec /\ KeepsOrder(around) => []OrderInv
<1>1. Init => NothingLost /\ Numbered
  BY FS_EmptySet DEF Init, NothingLost, Numbered, Bridging
<1>2. ReadingInv /\ NothingLost /\ Numbered /\ [Next]_vars => NothingLost' /\ Numbered'
  BY NextKeepsWire
<1>3. Init /\ KeepsOrder(around) => OrderInv
  BY InitIsInOrder
<1>4. ReadingInv /\ NothingLost /\ Numbered /\ OrderInv /\ [Next]_vars => OrderInv'
  BY NextKeepsOrder DEF BridgeInv
<1> QED
  BY <1>1, <1>2, <1>3, <1>4, BridgeReadingInv, PTL DEF Spec

(* When frames come in order and the host answers in order, the bridge     *)
(* never gives up over a sequence, a slot, a limit or a missing pending id *)
(* (observe_server_envelope, ServerMessageReassembler), for every number   *)
(* of messages and streams.                                                *)
THEOREM OrderlyRelayIsAlwaysEnough ==
  ASSUME RoomForOne
  PROVE  Spec /\ KeepsOrder(around) => []OrderlyRelayIsEnough
<1>1. OrderInv => OrderlyRelayIsEnough
  BY DEF OrderInv
<1> QED
  BY <1>1, OrderIsKept, PTL

(* And every error reaches the request the host sent it for, though the    *)
(* message does not name it.                                               *)
THEOREM ErrorsAlwaysReachTheirRequest ==
  ASSUME RoomForOne
  PROVE  Spec /\ KeepsOrder(around) => []ErrorsReachTheirRequest
<1>1. OrderInv => ErrorsReachTheirRequest
  BY DEF OrderInv
<1> QED
  BY <1>1, OrderIsKept, PTL

-----------------------------------------------------------------------------
(* The table inside the bridge: the reassembler's theorems are about a     *)
(* table that goes on for ever, the bridge clears its for every stream.    *)

RP == INSTANCE ReassemblerProofs WITH
       Keys <- StreamIds \X (1 .. MaxServer),
       Data <- [message : SegmentedMessages, part : {1, 2}],
       Segments <- {SegmentOf(m, p) : m \in SegmentedMessages, p \in {1, 2}},
       Objects <- ObjectTexts,
       MaxSegments <- 2,
       MaxChunk <- 1

(* The bridge's segments are ones the reassembler's theorems speak of.     *)
LEMMA SegmentedForm ==
  ASSUME NEW m \in SegmentedMessages
  PROVE  m.stream \in StreamIds /\ m.seq \in 1 .. MaxServer /\ m.parts = 2
<1>1. PICK s \in StreamIds, n \in 1 .. MaxServer, p \in PayloadsOf(SegmentedKinds) : m = Message(s, n, p, 2)
  BY DEF SegmentedMessages
<1> QED
  BY <1>1 DEF Message

LEMMA SegmentsForm ==
  {SegmentOf(m, p) : m \in SegmentedMessages, p \in {1, 2}} \subseteq RP!Segment
<1>1. ASSUME NEW m \in SegmentedMessages, NEW p \in {1, 2}
      PROVE  SegmentOf(m, p) \in RP!Segment
  <2>1. <<m.stream, m.seq>> \in StreamIds \X (1 .. MaxServer) /\ m.parts = 2 /\ p - 1 \in Nat
    BY SegmentedForm
  <2>2. ChunkOf(m, p) \in RP!Chunk
    BY DEF ChunkOf, RP!Chunk
  <2> QED
    BY <2>1, <2>2 DEF SegmentOf, RP!Segment
<1> QED
  BY <1>1

(* The lemmas on the table hold of this one.                               *)
LEMMA StepKeepsTableExact ==
  ASSUME RP!Exact, [RP!Next]_RP!vars
  PROVE  RP!Exact'
<1>1. MaxMessageBytes \in Nat /\ 2 \in Nat /\ 1 \in Nat /\ MaxAssemblies \in Nat
  BY BoundsAssumption
<1> QED
  BY <1>1, SegmentsForm, RP!NextExact

LEMMA FreshTableIsExact ==
  RP!Init => RP!Exact
<1>1. MaxMessageBytes \in Nat /\ 2 \in Nat /\ 1 \in Nat /\ MaxAssemblies \in Nat
  BY BoundsAssumption
<1> QED
  BY <1>1, SegmentsForm, RP!InitExact

(* R and RP are instances of one module by the same values: what they      *)
(* define is the same.                                                     *)
LEMMA SameOperators ==
  /\ (\A S : R!Cardinality(S) = RP!Cardinality(S))
  /\ (\A s : R!Entry(s) = RP!Entry(s))
  /\ (\A s : R!Stored(s) = RP!Stored(s))
  /\ (\A s : R!Admitted(s) <=> RP!Admitted(s))
  /\ (\A s : R!Poisonous(s) <=> RP!Poisonous(s))
  /\ (\A a : R!IsComplete(a) <=> RP!IsComplete(a))
  /\ (\A a : R!IsMessage(a) <=> RP!IsMessage(a))
<1>1. \A S : R!Cardinality(S) = RP!Cardinality(S)
  BY ONLY Zenon DEF R!Cardinality, RP!Cardinality
<1>2. \A s : R!IsOpen(s) <=> RP!IsOpen(s)
  BY DEF R!IsOpen, RP!IsOpen
<1>3. \A s : R!Entry(s) = RP!Entry(s)
  BY <1>2 DEF R!Entry, RP!Entry, R!NewAssembly, RP!NewAssembly
<1>4. \A s : R!IsRepeat(s) <=> RP!IsRepeat(s)
  BY <1>3 DEF R!IsRepeat, RP!IsRepeat
<1>5. \A s : R!Stored(s) = RP!Stored(s)
  BY <1>3, <1>4 DEF R!Stored, RP!Stored
<1>6. \A s : R!Admitted(s) <=> RP!Admitted(s)
  BY <1>1, <1>2 DEF R!Admitted, RP!Admitted, R!WellFormed, RP!WellFormed, R!HasSlot, RP!HasSlot
<1>7. \A s : R!Poisonous(s) <=> RP!Poisonous(s)
  BY <1>3, <1>4
     DEF R!Poisonous, RP!Poisonous, R!SameMetadata, RP!SameMetadata, R!ChangedRepeat, RP!ChangedRepeat,
         R!Fits, RP!Fits, R!MaxBuffered, RP!MaxBuffered
<1>8. \A a : R!IsComplete(a) <=> RP!IsComplete(a)
  BY DEF R!IsComplete, RP!IsComplete, R!Ids, RP!Ids
<1>9. \A a : R!IsMessage(a) <=> RP!IsMessage(a)
  BY <1>1 DEF R!IsMessage, RP!IsMessage, R!BytesOf, RP!BytesOf, R!Ids, RP!Ids
<1> QED
  BY <1>1, <1>3, <1>5, <1>6, <1>7, <1>8, <1>9

LEMMA SameActions ==
  ASSUME NEW s
  PROVE  /\ R!Refuse(s) <=> RP!Refuse(s)
         /\ R!Discard(s) <=> RP!Discard(s)
         /\ R!Hold(s) <=> RP!Hold(s)
         /\ R!Reject(s) <=> RP!Reject(s)
         /\ R!Return(s) <=> RP!Return(s)
<1>0. /\ R!Entry(s) = RP!Entry(s) /\ R!Stored(s) = RP!Stored(s) /\ R!Added(s) = RP!Added(s)
      /\ R!Admitted(s) <=> RP!Admitted(s)
      /\ R!Poisonous(s) <=> RP!Poisonous(s)
      /\ R!IsComplete(R!Stored(s)) <=> RP!IsComplete(RP!Stored(s))
      /\ R!IsMessage(R!Stored(s)) <=> RP!IsMessage(RP!Stored(s))
  BY SameOperators DEF R!Added, RP!Added
<1>1. R!Refuse(s) <=> RP!Refuse(s)
  BY <1>0 DEF R!Refuse, RP!Refuse, R!vars, RP!vars
<1>2. R!Discard(s) <=> RP!Discard(s)
  BY <1>0 DEF R!Discard, RP!Discard, R!Remove, RP!Remove, R!Drop, RP!Drop, R!SaturatingSub, RP!SaturatingSub
<1>3. R!Hold(s) <=> RP!Hold(s)
  BY <1>0 DEF R!Hold, RP!Hold, R!Put, RP!Put
<1>4. R!Complete(s) <=> RP!Complete(s)
  BY <1>0 DEF R!Complete, RP!Complete, R!Drop, RP!Drop, R!SaturatingSub, RP!SaturatingSub
<1>5. (R!Reject(s) <=> RP!Reject(s)) /\ (R!Return(s) <=> RP!Return(s))
  BY <1>0, <1>4 DEF R!Reject, RP!Reject, R!Return, RP!Return
<1> QED
  BY <1>1, <1>2, <1>3, <1>5

LEMMA SamePromises ==
  /\ RP!TypeOK => R!TypeOK
  /\ RP!Bounded => R!Bounded
  /\ RP!CountersAreExact => R!CountersAreExact
  /\ RP!HeldAreIncomplete => R!HeldAreIncomplete
<1>0. \A S : R!Cardinality(S) = RP!Cardinality(S)
  BY SameOperators
<1>1. RP!TypeOK => R!TypeOK
  BY DEF RP!TypeOK, R!TypeOK, RP!IsAssembly, R!IsAssembly
<1>2. RP!Bounded => R!Bounded
  BY <1>0 DEF RP!Bounded, R!Bounded, RP!MaxBuffered, R!MaxBuffered
<1>3. RP!CountersAreExact => R!CountersAreExact
  BY <1>0 DEF RP!CountersAreExact, R!CountersAreExact, RP!HeldBytes, R!HeldBytes, RP!BytesOf, R!BytesOf, RP!Ids, R!Ids
<1>4. RP!HeldAreIncomplete => R!HeldAreIncomplete
  BY DEF RP!HeldAreIncomplete, R!HeldAreIncomplete, RP!IsComplete, R!IsComplete, RP!Ids, R!Ids
<1> QED
  BY <1>1, <1>2, <1>3, <1>4

LEMMA StepKeepsTableIncomplete ==
  ASSUME RP!TypeOK, RP!HeldAreIncomplete, [RP!Next]_RP!vars
  PROVE  RP!HeldAreIncomplete'
<1>1. MaxMessageBytes \in Nat /\ 2 \in Nat /\ 1 \in Nat /\ MaxAssemblies \in Nat
  BY BoundsAssumption
<1> QED
  BY <1>1, SegmentsForm, RP!NextIncomplete

(* What comes in two segments may.                                         *)
SegmentedSent == \A i \in DOMAIN sent : sent[i].parts = 2 => sent[i] \in SegmentedMessages

TableInv ==
  /\ SegmentedSent
  /\ RP!Exact
  /\ RP!HeldAreIncomplete

LEMMA StepKeepsSegmentedSent ==
  ASSUME Typed, SegmentedSent, [Next]_vars
  PROVE  SegmentedSent'
<1>1. CASE UNCHANGED sent
  BY <1>1 DEF SegmentedSent
<1>2. ASSUME NEW s \in StreamIds, NEW p \in HostPayloads, NEW n \in PartCounts, HostSends(s, p, n)
      PROVE  SegmentedSent'
  <2> DEFINE m == Message(s, OnStreamCount(s) + 1, p, n)
             k == Len(sent)
  <2>1. m \in ServerMessages /\ m.seq = OnStreamCount(s) + 1 /\ m.parts = n
    <3>1. m \in ServerMessages
      BY <1>2, HostSendsTyped
    <3> QED
      BY <3>1 DEF Message
  <2>2. /\ k \in Nat /\ DOMAIN sent = 1 .. k /\ DOMAIN sent' = 1 .. k + 1
        /\ \A i \in 1 .. k : sent'[i] = sent[i]
        /\ sent'[k + 1] = m
    <3>1. sent' = Append(sent, m) /\ sent \in Seq(ServerMessages)
      BY <1>2 DEF HostSends, Typed
    <3> HIDE DEF m
    <3> QED
      BY <2>1, <3>1, Appended, AppendProperties
  <2>3. m.parts = 2 => m \in SegmentedMessages
    <3>1. around \in Surroundings /\ p.kind \in around.serverKinds /\ n \in around.parts
      BY <1>2 DEF HostSends, Typed
    <3>2. n = 2 => p.kind \in SegmentedKinds
      BY <3>1 DEF SegmentedKinds
    <3>3. n = 2 => p \in PayloadsOf(SegmentedKinds)
      BY <3>2 DEF HostPayloads, PayloadsOf
    <3>4. OnStreamCount(s) + 1 \in 1 .. MaxServer
      BY <2>1, MessageForm
    <3> QED
      BY <2>1, <3>3, <3>4 DEF SegmentedMessages
  <2> HIDE DEF m, k
  <2> QED
    BY <2>2, <2>3 DEF SegmentedSent
<1>3. CASE \E m \in LocalMessages : LocalSends(m)
  BY <1>1, <1>3 DEF LocalSends
<1>4. CASE TakeLocal
  BY <1>1, <1>4 DEF TakeLocal, ForwardInitialize, ForwardOther, CloseLocal, TakesLocal
<1>5. CASE TakeFrame
  BY <1>1, <1>5 DEF TakeFrame, Observe
<1>6. CASE ConnectionFails
  BY <1>1, <1>6 DEF ConnectionFails
<1>7. CASE UNCHANGED vars
  BY <1>1, <1>7 DEF vars
<1> QED
  BY <1>2, <1>3, <1>4, <1>5, <1>6, <1>7 DEF Next, Step

(* A step of the bridge is a step of the table, leaves it alone, or clears *)
(* it for a new stream.                                                    *)
LEMMA BridgeStepsTable ==
  ASSUME Typed, SegmentedSent, [Next]_vars
  PROVE  [RP!Next]_RP!vars \/ RP!Init'
<1>1. UNCHANGED <<assemblies, buffered>> => [RP!Next]_RP!vars
  BY DEF RP!vars
<1>2. CASE \E m \in LocalMessages : LocalSends(m)
  BY <1>1, <1>2 DEF LocalSends, bridge
<1>3. CASE \E s \in StreamIds, p \in HostPayloads, n \in PartCounts : HostSends(s, p, n)
  BY <1>1, <1>3 DEF HostSends, bridge
<1>4. CASE ForwardInitialize
  BY <1>4 DEF ForwardInitialize, RP!Init
<1>5. CASE ForwardOther \/ CloseLocal
  BY <1>1, <1>5 DEF ForwardOther, CloseLocal, reassembler
<1>6. ASSUME NEW i \in DOMAIN sent, NEW part \in {1, 2}, Observe(i, part)
      PROVE  [RP!Next]_RP!vars
  <2>1. CASE IgnoreStale(sent[i])
    BY <1>1, <2>1 DEF IgnoreStale, bridge
  <2>2. CASE ObserveWhole(sent[i])
    BY <1>1, <2>2 DEF ObserveWhole, reassembler
  <2>3. CASE ObserveSegment(sent[i], part)
    <3> DEFINE s == SegmentOf(sent[i], part)
    <3>1. sent[i] \in ServerMessages /\ sent[i].parts > 1
      <4>1. sent[i] \in ServerMessages
        BY ElementOfSeq DEF Typed
      <4> QED
        BY <2>3, <4>1 DEF ObserveSegment
    <3>2. sent[i].parts = 2
      <4>1. sent[i].parts \in {1, 2}
        BY <3>1, MessageForm DEF Deliveries
      <4> QED
        BY <3>1, <4>1
    <3>3. s \in {SegmentOf(m, p) : m \in SegmentedMessages, p \in {1, 2}}
      BY <3>2 DEF SegmentedSent
    <3>4. R!Refuse(s) \/ R!Discard(s) \/ R!Hold(s) \/ R!Reject(s) \/ R!Return(s)
      BY <2>3 DEF ObserveSegment
    <3> HIDE DEF s
    <3>5. RP!Refuse(s) \/ RP!Discard(s) \/ RP!Hold(s) \/ RP!Reject(s) \/ RP!Return(s)
      BY <3>4, SameActions
    <3> QED
      BY <3>3, <3>5 DEF RP!Next
  <2> QED
    BY <1>6, <2>1, <2>2, <2>3 DEF Observe
<1>7. CASE ConnectionFails
  BY <1>1, <1>7 DEF ConnectionFails, reassembler
<1>8. CASE UNCHANGED vars
  BY <1>1, <1>8 DEF vars, bridge
<1> QED
  BY <1>2, <1>3, <1>4, <1>5, <1>6, <1>7, <1>8 DEF Next, Step, TakeLocal, TakeFrame

LEMMA InitTable == Init => TableInv
<1> SUFFICES ASSUME Init PROVE TableInv
  OBVIOUS
<1>1. RP!Init /\ SegmentedSent
  BY DEF Init, R!Init, RP!Init, SegmentedSent
<1>2. RP!HeldAreIncomplete
  BY <1>1 DEF RP!Init, RP!HeldAreIncomplete
<1> QED
  BY <1>1, <1>2, FreshTableIsExact DEF TableInv

LEMMA NextTable ==
  ASSUME Typed, TableInv, [Next]_vars
  PROVE  TableInv'
<1>1. SegmentedSent'
  BY StepKeepsSegmentedSent DEF TableInv
<1>2. CASE [RP!Next]_RP!vars
  BY <1>1, <1>2, StepKeepsTableExact, StepKeepsTableIncomplete DEF TableInv, RP!Exact
<1>3. CASE RP!Init'
  <2>1. RP!HeldAreIncomplete'
    BY <1>3 DEF RP!Init, RP!HeldAreIncomplete
  <2>2. RP!Exact'
    BY <1>3, FreshTableIsExact, PTL
  <2> QED
    BY <1>1, <2>1, <2>2 DEF TableInv
<1> QED
  BY <1>2, <1>3, BridgeStepsTable DEF TableInv

(* Inside the bridge too, whose renewals clear the table, the reassembler  *)
(* holds to its limits, counts what it holds, and holds nothing complete.  *)
THEOREM BridgeReassemblesWithinLimits ==
  Spec => [](R!TypeOK /\ R!Bounded /\ R!CountersAreExact /\ R!HeldAreIncomplete)
<1>1. ReadingInv => Typed
  BY DEF ReadingInv
<1>2. Typed /\ TableInv /\ [Next]_vars => TableInv'
  BY NextTable
<1>3. TableInv => R!TypeOK /\ R!Bounded /\ R!CountersAreExact /\ R!HeldAreIncomplete
  BY SamePromises DEF TableInv, RP!Exact
<1> QED
  BY <1>1, <1>2, <1>3, InitTable, BridgeReadingInv, PTL DEF Spec

-----------------------------------------------------------------------------
(* The types of the bridge in full, which the bounds on what is sent give. *)

Ends == {"bridging", "closed", "connection failed", "segment refused",
         "too many incomplete", "sequence gap", "no pending request"}

Initializes(q) == {i \in DOMAIN q : q[i].kind = "initialize"}

(* Each stream but the first is that of an initialize on the wire.         *)
StreamsCounted ==
  /\ stream = Cardinality(Initializes(wire))
  /\ Cardinality(Initializes(localSent)) <= MaxStream

(* The numbers of a stream are no more than what was sent.                 *)
NumbersCounted ==
  /\ nextSeq \in 1 .. Len(wire) + 1
  /\ Len(localSent) <= MaxLocal /\ Len(inbox) <= ChannelSize
  /\ \A i \in DOMAIN inbox : inbox[i].kind = "initialize" => inbox[i].id \in LocalIds

ReadsTyped ==
  /\ state \in Ends
  /\ pending \in Seq(LocalIds)
  /\ seen \in 0 .. MaxServer

CursorTyped == cursor.message \in 1 .. Len(sent) + 1 /\ cursor.part \in {1, 2}

CountInv == StreamsCounted /\ NumbersCounted /\ ReadsTyped /\ CursorTyped

LEMMA InitializesTyped ==
  ASSUME Typed
  PROVE  /\ Initializes(wire) \subseteq 1 .. Len(wire) /\ IsFiniteSet(Initializes(wire))
         /\ Initializes(localSent) \subseteq 1 .. Len(localSent) /\ IsFiniteSet(Initializes(localSent))
         /\ Cardinality(Initializes(wire)) \in Nat /\ Cardinality(Initializes(localSent)) \in Nat
<1>1. Initializes(wire) \subseteq 1 .. Len(wire) /\ Initializes(localSent) \subseteq 1 .. Len(localSent)
  BY LensTyped DEF Initializes
<1> QED
  BY <1>1, LensTyped, PlacesCount

(* A place more, of an initialize or not.                                  *)
LEMMA InitializesAppended ==
  ASSUME NEW S, NEW q \in Seq(S), NEW e \in S, NEW r, r = Append(q, e)
  PROVE  /\ e.kind # "initialize" => Initializes(r) = Initializes(q)
         /\ e.kind = "initialize" => Cardinality(Initializes(r)) = Cardinality(Initializes(q)) + 1
<1>1. /\ Len(q) \in Nat /\ DOMAIN q = 1 .. Len(q) /\ DOMAIN r = 1 .. Len(q) + 1
      /\ \A i \in 1 .. Len(q) : r[i] = q[i]
      /\ r[Len(q) + 1] = e
  BY Appended
<1>2. e.kind # "initialize" => Initializes(r) = Initializes(q)
  BY <1>1 DEF Initializes
<1>3. e.kind = "initialize" => Initializes(r) = Initializes(q) \cup {Len(q) + 1}
  BY <1>1 DEF Initializes
<1>4. Initializes(q) \subseteq 1 .. Len(q)
  BY <1>1 DEF Initializes
<1> QED
  BY <1>1, <1>2, <1>3, <1>4, PlacesCount

(* The inbox without its head.                                             *)
LEMMA TailCounts ==
  ASSUME Typed, NumbersCounted, inbox # <<>>, inbox' = Tail(inbox)
  PROVE  /\ Len(inbox') <= ChannelSize
         /\ \A i \in DOMAIN inbox' : inbox'[i].kind = "initialize" => inbox'[i].id \in LocalIds
<1> DEFINE l == Len(inbox)
<1>1. inbox \in Seq(LocalMessages) /\ l \in Nat \ {0}
  BY EmptySeq, LenProperties DEF Typed
<1>2. /\ Len(inbox') = l - 1 /\ DOMAIN inbox = 1 .. l /\ DOMAIN inbox' = 1 .. l - 1
      /\ \A i \in 1 .. l - 1 : inbox'[i] = inbox[i + 1]
  BY <1>1, HeadTailProperties, LenProperties
<1>3. Len(inbox') <= ChannelSize
  BY <1>1, <1>2, BoundsAssumption DEF NumbersCounted
<1>4. ASSUME NEW i \in DOMAIN inbox', inbox'[i].kind = "initialize"
      PROVE  inbox'[i].id \in LocalIds
  <2>1. i + 1 \in DOMAIN inbox /\ inbox'[i] = inbox[i + 1]
    BY <1>1, <1>2
  <2> QED
    BY <1>4, <2>1 DEF NumbersCounted
<1> QED
  BY <1>3, <1>4

(* The envelope of the message at the head of the inbox.                   *)
LEMMA SendsCounts ==
  ASSUME Typed, NothingLost, CountInv, NEW s \in Nat, NEW n \in Nat, Sends(s, n),
         s = IF Head(inbox).kind = "initialize" THEN stream + 1 ELSE stream,
         n \in 1 .. Len(wire) + 1, nextSeq' \in {nextSeq, n + 1}
  PROVE  StreamsCounted' /\ NumbersCounted'
<1> DEFINE e == Envelope(Head(inbox), s, n)
           k == Len(wire)
<1>1. Head(inbox) \in LocalMessages /\ inbox # <<>> /\ inbox' = Tail(inbox)
  BY TailRemoves DEF Typed, Sends
<1>2. e \in Envelopes /\ e.kind = Head(inbox).kind
  BY <1>1, LocalMessageForm DEF Envelope, Envelopes
<1>3. wire' = Append(wire, e) /\ wire \in Seq(Envelopes)
  BY DEF Sends, Typed
<1> HIDE DEF e
<1>4. k \in Nat /\ Len(wire') = k + 1
  BY <1>2, <1>3, AppendProperties, LenProperties
<1>5. stream' = Cardinality(Initializes(wire'))
  <2>1. stream' = s /\ stream \in Nat /\ stream = Cardinality(Initializes(wire))
    BY DEF Sends, Typed, CountInv, StreamsCounted
  <2>2. PICK r : r = wire'
    OBVIOUS
  <2>3. /\ e.kind # "initialize" => Initializes(r) = Initializes(wire)
        /\ e.kind = "initialize" => Cardinality(Initializes(r)) = Cardinality(Initializes(wire)) + 1
    BY <1>2, <1>3, <2>2, InitializesAppended
  <2> HIDE DEF k
  <2>4. s = Cardinality(Initializes(r))
    <3>1. CASE e.kind = "initialize"
      BY <1>2, <2>1, <2>3, <3>1
    <3>2. CASE e.kind # "initialize"
      BY <1>2, <2>1, <2>3, <3>2
    <3> QED
      BY <3>1, <3>2
  <2> QED
    BY <2>1, <2>2, <2>4
<1>6. UNCHANGED localSent
  BY DEF Sends
<1>7. NumbersCounted'
  <2>1. nextSeq' \in 1 .. Len(wire') + 1
    BY <1>4 DEF CountInv, NumbersCounted, k
  <2>2. Len(localSent') <= MaxLocal
    BY <1>6 DEF CountInv, NumbersCounted
  <2> QED
    BY <1>1, <2>1, <2>2, TailCounts DEF CountInv, NumbersCounted
<1> QED
  BY <1>5, <1>6, <1>7 DEF CountInv, StreamsCounted

LEMMA LocalSendsCounts ==
  ASSUME Typed, CountInv, NEW m \in LocalMessages, LocalSends(m)
  PROVE  StreamsCounted' /\ NumbersCounted'
<1> DEFINE l == Len(inbox)
           k == Len(localSent)
<1>1. /\ inbox' = Append(inbox, m) /\ inbox \in Seq(LocalMessages)
      /\ localSent' = Append(localSent, m) /\ localSent \in Seq(LocalMessages)
      /\ UNCHANGED <<stream, nextSeq, wire>>
  BY DEF LocalSends, Typed, bridge
<1>2. /\ l \in Nat /\ DOMAIN inbox = 1 .. l /\ DOMAIN inbox' = 1 .. l + 1 /\ Len(inbox') = l + 1
      /\ \A i \in 1 .. l : inbox'[i] = inbox[i]
      /\ inbox'[l + 1] = m
  BY <1>1, Appended, AppendProperties
<1>3. k \in Nat /\ Len(localSent') = k + 1
  BY <1>1, AppendProperties, LenProperties
<1>4. k < around.maxLocal /\ around.maxLocal \in 0 .. MaxLocal /\ MaxLocal \in Nat
      /\ l < ChannelSize /\ ChannelSize \in Nat
  BY SurroundingsAssumption, BoundsAssumption DEF LocalSends, Typed
<1>5. m.kind = "initialize" => m.id \in LocalIds
  <2>1. m.kind = "initialize" => m.id = k + 1
    BY DEF LocalSends
  <2> QED
    BY <1>3, <1>4, <2>1 DEF LocalIds
<1>6. NumbersCounted'
  <2>1. k + 1 <= MaxLocal /\ l + 1 <= ChannelSize
    BY <1>2, <1>3, <1>4
  <2>2. ASSUME NEW i \in DOMAIN inbox', inbox'[i].kind = "initialize"
        PROVE  inbox'[i].id \in LocalIds
    <3>1. CASE i \in 1 .. l
      BY <1>2, <2>2, <3>1 DEF CountInv, NumbersCounted
    <3>2. CASE i = l + 1
      BY <1>2, <1>5, <2>2, <3>2
    <3> QED
      BY <1>2, <3>1, <3>2
  <2> QED
    BY <1>1, <1>2, <1>3, <2>1, <2>2 DEF CountInv, NumbersCounted
<1>7. Cardinality(Initializes(localSent')) <= MaxStream
  <2>1. PICK r : r = localSent'
    OBVIOUS
  <2>2. m.kind = "initialize" => Cardinality(Initializes(localSent)) < MaxStream
    BY DEF LocalSends, Initializes
  <2>3. /\ m.kind # "initialize" => Initializes(r) = Initializes(localSent)
        /\ m.kind = "initialize" => Cardinality(Initializes(r)) = Cardinality(Initializes(localSent)) + 1
    BY <1>1, <2>1, InitializesAppended
  <2>4. Cardinality(Initializes(localSent)) <= MaxStream /\ Cardinality(Initializes(localSent)) \in Nat
    BY InitializesTyped DEF CountInv, StreamsCounted
  <2> QED
    BY <2>1, <2>2, <2>3, <2>4, BoundsAssumption
<1> QED
  BY <1>1, <1>6, <1>7 DEF CountInv, StreamsCounted

(* What the sequence check and the pending ids come to.                    *)
LEMMA AcceptTyped ==
  ASSUME Typed, ReadsTyped, NEW m \in Elements(sent), Accept(m)
  PROVE  ReadsTyped'
<1>1. m.seq \in 0 .. MaxServer
  BY SentTyped, MessageForm
<1>2. state' \in Ends /\ seen' \in 0 .. MaxServer
  BY <1>1 DEF Accept, IgnoreOld, FailOnGap, DeliverError, DeliverOther, Fail, ReadsTyped, Ends
<1>3. pending' \in Seq(LocalIds)
  <2>1. pending \in Seq(LocalIds)
    BY DEF ReadsTyped
  <2>2. CASE DeliverError(m)
    BY <2>1, <2>2, HeadTailProperties DEF DeliverError
  <2>3. CASE DeliverOther(m)
    BY <2>1, <2>3, RemoveFirstRemoves, Removed DEF DeliverOther
  <2> QED
    BY <2>1, <2>2, <2>3 DEF Accept, IgnoreOld, FailOnGap
<1> QED
  BY <1>2, <1>3 DEF ReadsTyped

LEMMA ObserveKeepsTypes ==
  ASSUME ReadingInv, ReadsTyped, CursorTyped, NEW i, NEW part, Observe(i, part)
  PROVE  ReadsTyped' /\ CursorTyped'
<1> DEFINE m == sent[i]
<1>0. /\ i \in DOMAIN sent /\ m \in Elements(sent) /\ part \in 1 .. m.parts /\ m.parts \in {1, 2}
      /\ DOMAIN sent = 1 .. Len(sent) /\ Len(sent) \in Nat
  <2>1. i \in DOMAIN sent /\ m \in Elements(sent) /\ part \in 1 .. m.parts
    BY DEF Observe, Elements
  <2> QED
    BY <2>1, SentTyped, SentLens, MessageForm DEF Deliveries, ReadingInv
<1>1. ReadsTyped'
  <2>1. UNCHANGED <<pending, seen>> /\ state' \in Ends => ReadsTyped'
    BY DEF ReadsTyped
  <2>2. state \in Ends
    BY DEF ReadsTyped
  <2>3. CASE IgnoreStale(m)
    BY <2>1, <2>2, <2>3 DEF IgnoreStale, bridge
  <2>4. CASE ObserveWhole(m)
    BY <1>0, <2>4, AcceptTyped DEF ObserveWhole, ReadingInv
  <2>5. CASE ObserveSegment(m, part)
    <3> DEFINE s == SegmentOf(m, part)
    <3>1. m.stream = stream /\ m.parts > 1
      BY <2>5 DEF ObserveSegment
    <3>2. CASE R!Return(s) /\ Accept(R!Stored(s).chunks[0].data.message)
      <4>1. Accept(m)
        BY <1>0, <3>1, <3>2, ReturnIsTheMessage DEF ReadingInv
      <4> QED
        BY <1>0, <4>1, AcceptTyped DEF ReadingInv
    <3>3. CASE (state' = state \/ Fail("too many incomplete") \/ Fail("segment refused"))
               /\ UNCHANGED <<pending, seen, toLocal>>
      BY <2>1, <2>2, <3>3 DEF Fail, Ends
    <3> QED
      BY <2>5, <3>2, <3>3 DEF ObserveSegment
  <2> QED
    BY <2>3, <2>4, <2>5 DEF Observe
<1>2. CursorTyped'
  <2>1. UNCHANGED sent /\ Delivers(i, part)
    BY DEF Observe
  <2>2. CASE UNCHANGED cursor
    BY <2>1, <2>2 DEF CursorTyped
  <2>3. CASE cursor' = IF part < m.parts THEN [message |-> i, part |-> part + 1]
                                         ELSE [message |-> i + 1, part |-> 1]
    BY <1>0, <2>1, <2>3 DEF CursorTyped
  <2> QED
    BY <2>1, <2>2, <2>3 DEF Delivers
<1> QED
  BY <1>1, <1>2

LEMMA NextKeepsCounts ==
  ASSUME BridgeInv, CountInv, [Next]_vars
  PROVE  CountInv'
<1> USE DEF BridgeInv, ReadingInv
<1>1. UNCHANGED <<stream, nextSeq, wire, localSent, inbox>> => StreamsCounted' /\ NumbersCounted'
  BY DEF CountInv, StreamsCounted, NumbersCounted
<1>2. UNCHANGED <<state, pending, seen>> => ReadsTyped'
  BY DEF CountInv, ReadsTyped
<1>3. UNCHANGED <<sent, cursor>> => CursorTyped'
  BY DEF CountInv, CursorTyped
<1>4. ASSUME NEW m \in LocalMessages, LocalSends(m)
      PROVE  CountInv'
  BY <1>2, <1>3, <1>4, LocalSendsCounts DEF LocalSends, bridge, CountInv
<1>5. ASSUME NEW s \in StreamIds, NEW p \in HostPayloads, NEW n \in PartCounts, HostSends(s, p, n)
      PROVE  CountInv'
  <2>1. UNCHANGED <<stream, nextSeq, wire, localSent, inbox, state, pending, seen, cursor>>
    BY <1>5 DEF HostSends, bridge
  <2>2. Len(sent) \in Nat /\ Len(sent') = Len(sent) + 1
    <3> DEFINE m == Message(s, OnStreamCount(s) + 1, p, n)
    <3>1. m \in ServerMessages /\ sent' = Append(sent, m) /\ sent \in Seq(ServerMessages)
      BY <1>5, HostSendsTyped DEF HostSends, Typed
    <3> HIDE DEF m
    <3> QED
      BY <3>1, AppendProperties, LenProperties
  <2>3. CursorTyped'
    BY <2>1, <2>2 DEF CountInv, CursorTyped
  <2> QED
    BY <1>1, <1>2, <2>1, <2>3 DEF CountInv
<1>6. stream \in Nat /\ stream + 1 \in Nat /\ nextSeq \in Nat /\ Len(wire) \in Nat /\ 1 \in 1 .. Len(wire) + 1
  BY LensTyped DEF Typed
<1>7. CASE ForwardInitialize
  <2>1. Sends(stream + 1, 1) /\ UNCHANGED <<state, sent, cursor>> /\ nextSeq' = 1 + 1
        /\ Head(inbox).kind = "initialize" /\ seen' = None /\ pending' = <<Head(inbox).id>>
    BY <1>7 DEF ForwardInitialize, TakesLocal, Outgoing, Sends
  <2>2. Head(inbox).id \in LocalIds
    <3>1. inbox \in Seq(LocalMessages) /\ inbox # <<>>
      BY <2>1 DEF Sends, Typed
    <3>2. 1 \in DOMAIN inbox /\ Head(inbox) = inbox[1]
      BY <3>1, TailRemoves, LenProperties
    <3> QED
      BY <2>1, <3>2 DEF CountInv, NumbersCounted
  <2>3. ReadsTyped'
    BY <2>1, <2>2, BoundsAssumption DEF CountInv, ReadsTyped, None
  <2> QED
    BY <1>3, <1>6, <2>1, <2>3, SendsCounts DEF CountInv
<1>8. CASE ForwardOther
  <2>1. Sends(stream, nextSeq) /\ UNCHANGED <<state, seen, sent, cursor>> /\ nextSeq' = nextSeq + 1
        /\ Head(inbox).kind # "initialize"
        /\ pending' = IF Head(inbox).id = NoId THEN pending ELSE Append(pending, Head(inbox).id)
    BY <1>8 DEF ForwardOther, TakesLocal, Outgoing, Sends
  <2>2. Head(inbox).id \in LocalIds \cup {NoId}
    BY <1>8, Taken DEF ForwardOther, LocalMessages
  <2>3. ReadsTyped'
    BY <2>1, <2>2, AppendProperties DEF CountInv, ReadsTyped
  <2>4. nextSeq \in 1 .. Len(wire) + 1
    BY DEF CountInv, NumbersCounted
  <2> QED
    BY <1>3, <1>6, <2>1, <2>3, <2>4, SendsCounts DEF CountInv
<1>9. CASE CloseLocal
  <2>1. state' = "closed" /\ UNCHANGED <<stream, localSent, seen, pending, sent, cursor, nextSeq>>
        /\ inbox # <<>> /\ inbox' = Tail(inbox) /\ Head(inbox).kind # "initialize"
    BY <1>9 DEF CloseLocal, TakesLocal
  <2>2. ReadsTyped'
    BY <2>1 DEF CountInv, ReadsTyped, Ends
  <2>3. nextSeq \in 1 .. Len(wire) + 1
    BY DEF CountInv, NumbersCounted
  <2>4. CASE UNCHANGED wire
    <3>1. StreamsCounted'
      BY <2>1, <2>4 DEF CountInv, StreamsCounted
    <3>2. NumbersCounted'
      BY <2>1, <2>3, <2>4, TailCounts DEF CountInv, NumbersCounted
    <3> QED
      BY <1>3, <2>1, <2>2, <3>1, <3>2 DEF CountInv
  <2>5. CASE wire' # wire
    <3>1. Sends(stream, nextSeq)
      BY <1>9, <2>5 DEF CloseLocal, TakesLocal, Sends
    <3> QED
      BY <1>3, <1>6, <2>1, <2>2, <2>3, <3>1, SendsCounts DEF CountInv
  <2> QED
    BY <2>4, <2>5
<1>10. ASSUME NEW i \in DOMAIN sent, NEW part \in {1, 2}, Observe(i, part)
       PROVE  CountInv'
  <2>1. UNCHANGED <<stream, nextSeq, inbox, wire, localSent>>
    BY <1>10, ObserveCases
  <2>2. ReadsTyped' /\ CursorTyped'
    BY <1>10, ObserveKeepsTypes DEF CountInv
  <2> QED
    BY <1>1, <2>1, <2>2 DEF CountInv
<1>11. CASE ConnectionFails
  <2>1. ReadsTyped'
    BY <1>11 DEF ConnectionFails, Fail, CountInv, ReadsTyped, Ends
  <2> QED
    BY <1>1, <1>3, <1>11, <2>1 DEF ConnectionFails, CountInv
<1>12. CASE UNCHANGED vars
  BY <1>1, <1>2, <1>3, <1>12 DEF vars, bridge, CountInv
<1> QED
  BY <1>4, <1>5, <1>7, <1>8, <1>9, <1>10, <1>11, <1>12 DEF Next, Step, TakeLocal, TakeFrame

LEMMA InitCounts == Init => CountInv
<1> SUFFICES ASSUME Init PROVE CountInv
  OBVIOUS
<1>1. Len(<<>>) = 0 /\ DOMAIN <<>> = {}
  BY EmptySeq
<1>2. Initializes(wire) = {} /\ Initializes(localSent) = {}
  BY <1>1 DEF Init, Initializes
<1>3. StreamsCounted
  BY <1>2, FS_EmptySet, BoundsAssumption DEF Init, StreamsCounted
<1>4. NumbersCounted
  BY <1>1, BoundsAssumption DEF Init, NumbersCounted
<1>5. ReadsTyped /\ CursorTyped
  BY <1>1, BoundsAssumption DEF Init, ReadsTyped, CursorTyped, Ends, None
<1> QED
  BY <1>3, <1>4, <1>5 DEF CountInv

(* The places of the initializes on the wire are among those of the sent.  *)
LEMMA CountsGiveTypes ==
  ASSUME BridgeInv, CountInv, R!TypeOK
  PROVE  TypeOK
<1> USE DEF BridgeInv, ReadingInv
<1>1. Len(wire) <= Len(localSent) /\ Len(wire) \in Nat /\ Len(localSent) \in Nat
      /\ DOMAIN localSent = 1 .. Len(localSent) /\ DOMAIN wire = 1 .. Len(wire)
  BY LensTyped DEF NothingLost
<1>2. Initializes(wire) \subseteq Initializes(localSent)
  <2>1. ASSUME NEW i \in Initializes(wire)
        PROVE  i \in Initializes(localSent)
    <3>1. i \in DOMAIN wire /\ wire[i].kind = "initialize"
      BY DEF Initializes
    <3>2. Shape(wire[i]) = localSent[i]
      BY <3>1 DEF NothingLost
    <3>3. i \in DOMAIN localSent
      BY <1>1, <3>1
    <3> QED
      BY <3>1, <3>2, <3>3 DEF Shape, Initializes
  <2> QED
    BY <2>1
<1>3. Cardinality(Initializes(wire)) <= Cardinality(Initializes(localSent))
  BY <1>2, InitializesTyped, FS_Subset
<1>4. stream \in StreamIds
  BY <1>3, InitializesTyped, BoundsAssumption DEF CountInv, StreamsCounted, StreamIds
<1>5. nextSeq \in 1 .. MaxLocal + 1
  BY <1>1, BoundsAssumption DEF CountInv, NumbersCounted
<1>6. seen \in {None} \cup 1 .. MaxServer
  BY BoundsAssumption DEF CountInv, ReadsTyped, None
<1> QED
  BY <1>4, <1>5, <1>6 DEF TypeOK, Typed, CountInv, NumbersCounted, ReadsTyped, CursorTyped, Ends

(* The bridge's variables keep their types, its stream, numbers and queues *)
(* within what was sent.                                                   *)
THEOREM BridgeTyped == Spec => []TypeOK
<1>1. Init => NothingLost /\ Numbered
  BY FS_EmptySet DEF Init, NothingLost, Numbered, Bridging
<1>2. ReadingInv /\ NothingLost /\ Numbered /\ [Next]_vars => NothingLost' /\ Numbered'
  BY NextKeepsWire
<1>3. ReadingInv /\ NothingLost /\ Numbered /\ CountInv /\ [Next]_vars => CountInv'
  BY NextKeepsCounts DEF BridgeInv
<1>4. ReadingInv /\ NothingLost /\ Numbered /\ CountInv /\ R!TypeOK => TypeOK
  BY CountsGiveTypes DEF BridgeInv
<1> QED
  BY <1>1, <1>2, <1>3, <1>4, InitCounts, BridgeReadingInv, BridgeReassemblesWithinLimits, PTL DEF Spec

=============================================================================
