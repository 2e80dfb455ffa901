------------------------- MODULE ReassemblerProofs -------------------------
(***************************************************************************)
(* Proofs about Reassembler, for every limit, every set of keys and every  *)
(* sequence of segments.                                                   *)
(*                                                                         *)
(* The heart is CountersAreExact.  The code keeps two counters up to date  *)
(* by hand and tests the limits against them; the proof relates them to    *)
(* the set of bytes really held (BytesOf, HeldBytes), by counting          *)
(* arguments on finite sets.                                               *)
(***************************************************************************)
EXTENDS Reassembler, FiniteSetTheorems, TLAPS

-----------------------------------------------------------------------------
(* Typing.                                                                 *)

(* Every segment that arrives has the shape of one.                        *)
LEMMA SegmentType ==
  ASSUME NEW s \in Segments
  PROVE  /\ s.key \in Keys /\ s.id \in Nat /\ s.count \in Nat /\ s.size \in Nat
         /\ s.chunk.len \in Nat /\ s.chunk.data \in Data
         /\ s.chunk = [len |-> s.chunk.len, data |-> s.chunk.data]
BY SegmentsAssumption DEF Segment, Chunk

(* What an admitted segment says of itself is within the limits.           *)
LEMMA AdmittedType ==
  ASSUME NEW s \in Segments, Admitted(s)
  PROVE  /\ s.count \in 2 .. MaxSegments
         /\ s.size \in 1 .. MaxMessageBytes
         /\ s.id \in 0 .. s.count - 1
         /\ s.chunk \in [len : 1 .. MaxChunk, data : Data]
<1>1. /\ s.id \in Nat /\ s.count \in Nat /\ s.size \in Nat /\ s.chunk.len \in Nat
      /\ s.chunk.data \in Data /\ s.chunk = [len |-> s.chunk.len, data |-> s.chunk.data]
  BY SegmentType
<1>2. s.count \in 2 .. MaxSegments /\ s.size \in 1 .. MaxMessageBytes
  BY <1>1, LimitsAssumption DEF Admitted, WellFormed
<1>3. s.id \in 0 .. s.count - 1 /\ s.chunk.len \in 1 .. MaxChunk
  BY <1>1, LimitsAssumption DEF Admitted, WellFormed
<1> QED BY <1>1, <1>2, <1>3

(* The assembly an admitted segment goes to is one observe may have built. *)
LEMMA EntryType ==
  ASSUME TypeOK, NEW s \in Segments, Admitted(s)
  PROVE  IsAssembly(Entry(s))
<1>1. CASE IsOpen(s.key)
  BY <1>1 DEF TypeOK, IsOpen, Entry
<1>2. CASE ~ IsOpen(s.key)
  <2> DEFINE none == [i \in {} |-> {}]
  <2>1. Entry(s) = [count |-> s.count, size |-> s.size, received |-> 0, chunks |-> none]
    BY <1>2 DEF Entry, NewAssembly
  <2>2. s.count \in 2 .. MaxSegments /\ s.size \in 1 .. MaxMessageBytes
    BY AdmittedType
  <2>3. DOMAIN none = {} /\ none \in [DOMAIN none -> [len : 1 .. MaxChunk, data : Data]]
    OBVIOUS
  <2> HIDE DEF none
  <2> QED BY <2>1, <2>2, <2>3 DEF IsAssembly
<1> QED BY <1>1, <1>2

(* So is the assembly with the segment stored.                             *)
LEMMA StoredType ==
  ASSUME TypeOK, NEW s \in Segments, Admitted(s), ~ Poisonous(s)
  PROVE  /\ IsAssembly(Stored(s))
         /\ Stored(s).count = s.count
         /\ Added(s) \in Nat
         /\ Stored(s).received = Entry(s).received + Added(s)
         /\ s.id \in DOMAIN Stored(s).chunks
<1>1. /\ IsAssembly(Entry(s))
      /\ Entry(s).count = s.count
      /\ Entry(s).received \in Nat
  BY EntryType DEF Poisonous, SameMetadata, IsAssembly
<1>2. CASE IsRepeat(s)
  BY <1>1, <1>2 DEF Stored, Added, IsRepeat
<1>3. CASE ~ IsRepeat(s)
  <2> DEFINE C == Entry(s).chunks
             D == [i \in DOMAIN C \cup {s.id} |-> IF i = s.id THEN s.chunk ELSE C[i]]
  <2>1. Stored(s) = [count |-> Entry(s).count, size |-> Entry(s).size,
                     received |-> Entry(s).received + s.chunk.len, chunks |-> D]
    BY <1>3 DEF Stored
  <2>2. /\ s.chunk \in [len : 1 .. MaxChunk, data : Data]
        /\ s.id \in 0 .. s.count - 1
    BY AdmittedType
  <2>3. /\ C \in [DOMAIN C -> [len : 1 .. MaxChunk, data : Data]]
        /\ DOMAIN C \subseteq 0 .. s.count - 1
    BY <1>1 DEF IsAssembly
  <2>4. /\ DOMAIN D \subseteq 0 .. s.count - 1
        /\ D \in [DOMAIN D -> [len : 1 .. MaxChunk, data : Data]]
    BY <2>2, <2>3
  <2>5. s.chunk.len \in Nat
    BY SegmentType
  <2> HIDE DEF C, D
  <2>6. IsAssembly(Stored(s))
    BY <1>1, <2>1, <2>4, <2>5 DEF IsAssembly
  <2>7. Added(s) = s.chunk.len
    BY <1>1, <2>1, <2>5 DEF Added
  <2>8. s.id \in DOMAIN D
    BY DEF D
  <2> QED BY <1>1, <2>1, <2>5, <2>6, <2>7, <2>8
<1> QED BY <1>2, <1>3

(* Saturating subtraction stays in the naturals.                           *)
LEMMA SaturatingSubType ==
  ASSUME NEW a \in Nat, NEW b \in Nat
  PROVE  SaturatingSub(a, b) \in Nat
BY DEF SaturatingSub

(* Dropping an assembly, and putting one that is well formed, keep the     *)
(* table's type.                                                           *)
LEMMA DropType ==
  ASSUME TypeOK, NEW k \in Keys, Drop(k), buffered' \in Nat
  PROVE  TypeOK'
BY DEF TypeOK, Drop

LEMMA PutType ==
  ASSUME TypeOK, NEW k \in Keys, NEW a, IsAssembly(a), Put(k, a), buffered' \in Nat
  PROVE  TypeOK'
BY DEF TypeOK, Put

LEMMA InitType == Init => TypeOK
BY DEF Init, TypeOK

LEMMA NextType ==
  ASSUME TypeOK, [Next]_vars
  PROVE  TypeOK'
<1>1. CASE UNCHANGED vars
  BY <1>1 DEF vars, TypeOK
<1>2. ASSUME NEW s \in Segments, Refuse(s)
      PROVE  TypeOK'
  BY <1>2 DEF Refuse, vars, TypeOK
<1>3. ASSUME NEW s \in Segments, Discard(s)
      PROVE  TypeOK'
  <2>1. Entry(s).received \in Nat
    BY <1>3, EntryType DEF Discard, IsAssembly
  <2>2. buffered' \in Nat
    BY <1>3, <2>1, SaturatingSubType DEF Discard, Remove, TypeOK
  <2> QED BY <1>3, <2>2, DropType, SegmentType DEF Discard, Remove
<1>4. ASSUME NEW s \in Segments, Hold(s)
      PROVE  TypeOK'
  <2>1. IsAssembly(Stored(s)) /\ Added(s) \in Nat
    BY <1>4, StoredType DEF Hold
  <2>2. buffered' \in Nat
    BY <1>4, <2>1 DEF Hold, TypeOK
  <2> QED BY <1>4, <2>1, <2>2, PutType, SegmentType DEF Hold
<1>5. ASSUME NEW s \in Segments, Complete(s)
      PROVE  TypeOK'
  <2>1. Stored(s).received \in Nat /\ Added(s) \in Nat
    BY <1>5, StoredType DEF Complete, IsAssembly
  <2>2. buffered' \in Nat
    BY <1>5, <2>1, SaturatingSubType DEF Complete, TypeOK
  <2> QED BY <1>5, <2>2, DropType, SegmentType DEF Complete
<1> QED BY <1>1, <1>2, <1>3, <1>4, <1>5 DEF Next, Reject, Return

(* The table only ever holds assemblies of the shape observe builds: no    *)
(* segment id out of range is ever stored, and no chunk longer than a      *)
(* frame can carry.                                                        *)
THEOREM TypeCorrect == Spec => []TypeOK
BY InitType, NextType, PTL DEF Spec

-----------------------------------------------------------------------------
(* Counting bytes.                                                         *)

(* Finite sets without a common element count up.                          *)
LEMMA DisjointUnion ==
  ASSUME NEW A, NEW B, IsFiniteSet(A), IsFiniteSet(B), A \cap B = {}
  PROVE  /\ IsFiniteSet(A \cup B)
         /\ Cardinality(A \cup B) = Cardinality(A) + Cardinality(B)
<1>1. Cardinality(A) \in Nat /\ Cardinality(B) \in Nat
  BY FS_CardinalityType
<1>2. /\ IsFiniteSet(A \cup B)
      /\ Cardinality(A \cup B) = Cardinality(A) + Cardinality(B) - Cardinality(A \cap B)
  BY FS_Union
<1>3. Cardinality(A \cap B) = 0
  BY FS_EmptySet
<1> QED BY <1>1, <1>2, <1>3

(* Taking away a subset counts down.                                       *)
LEMMA SubsetRemoved ==
  ASSUME NEW A, NEW B, IsFiniteSet(A), B \subseteq A
  PROVE  /\ IsFiniteSet(A \ B) /\ IsFiniteSet(B)
         /\ Cardinality(B) \in Nat /\ Cardinality(A) \in Nat
         /\ Cardinality(B) <= Cardinality(A)
         /\ Cardinality(A \ B) = Cardinality(A) - Cardinality(B)
<1>1. A \cap B = B
  OBVIOUS
<1>2. IsFiniteSet(B) /\ Cardinality(B) <= Cardinality(A)
  BY FS_Subset
<1> QED BY <1>1, <1>2, FS_Difference, FS_CardinalityType

(* Tagging the elements of a set with one value leaves their number.       *)
LEMMA Tagged ==
  ASSUME NEW k, NEW B, IsFiniteSet(B)
  PROVE  IsFiniteSet({k} \X B) /\ Cardinality({k} \X B) = Cardinality(B)
<1>1. IsFiniteSet({k}) /\ Cardinality({k}) = 1 /\ Cardinality(B) \in Nat
  BY FS_Singleton, FS_CardinalityType
<1> QED BY <1>1, FS_Product

(* An assembly has finitely many bytes.                                    *)
LEMMA BytesFinite ==
  ASSUME NEW a
  PROVE  IsFiniteSet(BytesOf(a))
<1>1. IsFiniteSet(0 .. MaxSegments - 1) /\ IsFiniteSet(1 .. MaxChunk)
  BY LimitsAssumption, FS_Interval
<1>2. IsFiniteSet((0 .. MaxSegments - 1) \X (1 .. MaxChunk))
  BY <1>1, FS_Product
<1> QED BY <1>2, FS_Subset DEF BytesOf, Ids

(* An assembly that has just been made has none.                           *)
LEMMA NewIsEmpty ==
  ASSUME NEW s
  PROVE  BytesOf(NewAssembly(s)) = {} /\ NewAssembly(s).received = 0
BY DEF BytesOf, NewAssembly

(* Storing a segment adds exactly the bytes the counter is raised by.      *)
LEMMA StoredBytes ==
  ASSUME TypeOK, NEW s \in Segments, Admitted(s), ~ Poisonous(s),
         Entry(s).received = Cardinality(BytesOf(Entry(s)))
  PROVE  Stored(s).received = Cardinality(BytesOf(Stored(s)))
<1> DEFINE e == Entry(s)
           new == {s.id} \X (1 .. s.chunk.len)
<1>1. CASE IsRepeat(s)
  BY <1>1 DEF Stored
<1>2. CASE ~ IsRepeat(s)
  <2>1. IsAssembly(e) /\ e.count = s.count
    BY EntryType DEF Poisonous, SameMetadata
  <2>2. /\ s.id \in 0 .. MaxSegments - 1
        /\ s.chunk.len \in 1 .. MaxChunk
        /\ 1 .. s.chunk.len \subseteq 1 .. MaxChunk
    BY AdmittedType, LimitsAssumption
  <2>3. s.id \notin DOMAIN e.chunks
    BY <1>2 DEF IsRepeat
  <2>4. /\ DOMAIN Stored(s).chunks = DOMAIN e.chunks \cup {s.id}
        /\ Stored(s).chunks[s.id] = s.chunk
        /\ \A i \in DOMAIN e.chunks : Stored(s).chunks[i] = e.chunks[i]
        /\ Stored(s).received = e.received + s.chunk.len
    BY <1>2, <2>3 DEF Stored
  <2>5. BytesOf(Stored(s)) = BytesOf(e) \cup new
    <3> HIDE DEF e
    <3>1. ASSUME NEW p \in BytesOf(Stored(s))
          PROVE  p \in BytesOf(e) \cup new
      <4>1. /\ p = <<p[1], p[2]>>
            /\ p[1] \in Ids(MaxSegments) /\ p[2] \in 1 .. MaxChunk
            /\ p[1] \in DOMAIN Stored(s).chunks
            /\ p[2] <= Stored(s).chunks[p[1]].len
        BY DEF BytesOf
      <4>2. CASE p[1] = s.id
        <5>1. p[2] \in 1 .. s.chunk.len
          BY <4>1, <4>2, <2>2, <2>4, LimitsAssumption
        <5> QED BY <4>1, <4>2, <5>1
      <4>3. CASE p[1] # s.id
        BY <4>1, <4>3, <2>4 DEF BytesOf
      <4> QED BY <4>2, <4>3
    <3>2. BytesOf(e) \subseteq BytesOf(Stored(s))
      BY <2>3, <2>4 DEF BytesOf
    <3>3. ASSUME NEW p \in new
          PROVE  p \in BytesOf(Stored(s))
      <4>1. /\ p = <<p[1], p[2]>> /\ p[1] = s.id
            /\ p[2] \in 1 .. s.chunk.len /\ p[2] \in 1 .. MaxChunk
        BY <2>2
      <4>2. p[2] <= Stored(s).chunks[p[1]].len
        BY <4>1, <2>2, <2>4
      <4> QED BY <4>1, <4>2, <2>2, <2>4 DEF BytesOf, Ids
    <3> QED BY <3>1, <3>2, <3>3
  <2>6. BytesOf(e) \cap new = {}
    BY <2>3 DEF BytesOf
  <2>7. IsFiniteSet(new) /\ Cardinality(new) = s.chunk.len
    <3>1. IsFiniteSet(1 .. s.chunk.len) /\ Cardinality(1 .. s.chunk.len) = s.chunk.len
      <4> DEFINE n == s.chunk.len
      <4>1. n \in Nat /\ n >= 1
        BY <2>2
      <4> HIDE DEF n
      <4>2. IsFiniteSet(1 .. n) /\ Cardinality(1 .. n) = IF 1 > n THEN 0 ELSE n - 1 + 1
        BY <4>1, FS_Interval
      <4>3. IsFiniteSet(1 .. n) /\ Cardinality(1 .. n) = n
        BY <4>1, <4>2
      <4> QED BY <4>3 DEF n
    <3> QED BY <3>1, Tagged
  <2>8. Cardinality(BytesOf(Stored(s))) = Cardinality(BytesOf(e)) + s.chunk.len
    BY <2>5, <2>6, <2>7, BytesFinite, DisjointUnion
  <2> QED BY <2>4, <2>8
<1> QED BY <1>1, <1>2

-----------------------------------------------------------------------------
(* The inductive invariant: the counters are exact and the limits hold.    *)
(* The limits alone are not inductive: the tests of HasSlot and Fits read  *)
(* the counters, and only exact counters make SaturatingSub a subtraction. *)
Exact ==
  /\ TypeOK
  /\ IsFiniteSet(DOMAIN assemblies)
  /\ IsFiniteSet(HeldBytes)
  /\ CountersAreExact
  /\ Bounded

(* A byte is held when it is one of the bytes of an open assembly.         *)
LEMMA HeldByte ==
  ASSUME NEW p
  PROVE  p \in HeldBytes <=>
           \E k \in DOMAIN assemblies : p \in {k} \X BytesOf(assemblies[k])
BY DEF HeldBytes

(* The entry of a segment, open or just made, is counted exactly, and its  *)
(* bytes are part of the table's.                                          *)
LEMMA EntryExact ==
  ASSUME Exact, NEW s \in Segments, Admitted(s)
  PROVE  /\ Entry(s).received \in Nat
         /\ Entry(s).received = Cardinality(BytesOf(Entry(s)))
         /\ {s.key} \X BytesOf(Entry(s)) \subseteq HeldBytes
         /\ Entry(s).received <= Entry(s).size
         /\ Entry(s).received <= buffered
         /\ Cardinality({s.key} \X BytesOf(Entry(s))) = Entry(s).received
<1>1. IsAssembly(Entry(s)) /\ Entry(s).received \in Nat /\ Entry(s).size \in Nat
  BY EntryType DEF Exact, IsAssembly
<1>2. /\ Entry(s).received = Cardinality(BytesOf(Entry(s)))
      /\ {s.key} \X BytesOf(Entry(s)) \subseteq HeldBytes
      /\ Entry(s).received <= Entry(s).size
  <2>1. CASE IsOpen(s.key)
    BY <2>1 DEF Exact, CountersAreExact, Bounded, Entry, IsOpen, HeldBytes
  <2>2. CASE ~ IsOpen(s.key)
    <3>1. Entry(s) = NewAssembly(s)
      BY <2>2 DEF Entry
    <3> QED BY <1>1, <3>1, NewIsEmpty, FS_EmptySet
  <2> QED BY <2>1, <2>2
<1>3. Cardinality({s.key} \X BytesOf(Entry(s))) = Entry(s).received
  BY <1>2, Tagged, BytesFinite
<1>4. Entry(s).received <= buffered
  BY <1>2, <1>3, SubsetRemoved DEF Exact, CountersAreExact
<1> QED BY <1>1, <1>2, <1>3, <1>4

(* Dropping the entry takes its bytes, and no others, out of the table.    *)
LEMMA DropBytes ==
  ASSUME NEW s \in Segments, Drop(s.key)
  PROVE  HeldBytes' = HeldBytes \ ({s.key} \X BytesOf(Entry(s)))
<1>1. /\ DOMAIN assemblies' = DOMAIN assemblies \ {s.key}
      /\ \A k \in DOMAIN assemblies' : assemblies'[k] = assemblies[k]
  BY DEF Drop
<1>2. HeldBytes' = UNION {{k} \X BytesOf(assemblies[k]) : k \in DOMAIN assemblies \ {s.key}}
  BY <1>1 DEF HeldBytes, BytesOf
<1>3. CASE IsOpen(s.key)
  <2>1. Entry(s) = assemblies[s.key]
    BY <1>3 DEF Entry
  <2> QED BY <1>2, <1>3, <2>1 DEF HeldBytes, IsOpen
<1>4. CASE ~ IsOpen(s.key)
  <2>1. Entry(s) = NewAssembly(s)
    BY <1>4 DEF Entry
  <2> QED BY <1>2, <1>4, <2>1, NewIsEmpty DEF HeldBytes, IsOpen
<1> QED BY <1>3, <1>4

(* So a step that drops the entry and lowers buffered_bytes by what it had *)
(* received keeps everything exact.                                        *)
LEMMA DropExact ==
  ASSUME Exact, NEW s \in Segments, Admitted(s), Drop(s.key),
         buffered' = buffered - Entry(s).received
  PROVE  Exact'
<1>1. /\ Entry(s).received \in Nat
      /\ {s.key} \X BytesOf(Entry(s)) \subseteq HeldBytes
      /\ Entry(s).received <= buffered
      /\ Cardinality({s.key} \X BytesOf(Entry(s))) = Entry(s).received
  BY EntryExact
<1>2. buffered \in Nat /\ buffered' \in Nat /\ buffered' <= buffered
  BY <1>1 DEF Exact, TypeOK
<1>3. TypeOK'
  BY <1>2, DropType, SegmentType DEF Exact
<1>4. /\ DOMAIN assemblies' = DOMAIN assemblies \ {s.key}
      /\ \A k \in DOMAIN assemblies' : assemblies'[k] = assemblies[k]
  BY DEF Drop
<1>5. /\ IsFiniteSet(DOMAIN assemblies')
      /\ Cardinality(DOMAIN assemblies') <= MaxAssemblies
  <2>1. DOMAIN assemblies' \in SUBSET DOMAIN assemblies
    BY <1>4
  <2>2. /\ IsFiniteSet(DOMAIN assemblies')
        /\ Cardinality(DOMAIN assemblies') <= Cardinality(DOMAIN assemblies)
    BY <2>1, FS_Subset DEF Exact
  <2>3. Cardinality(DOMAIN assemblies') \in Nat /\ Cardinality(DOMAIN assemblies) \in Nat
    BY <2>2, FS_CardinalityType DEF Exact
  <2> QED BY <2>2, <2>3, LimitsAssumption DEF Exact, Bounded
<1>6. IsFiniteSet(HeldBytes') /\ buffered' = Cardinality(HeldBytes')
  BY <1>1, DropBytes, SubsetRemoved DEF Exact, CountersAreExact
<1>7. \A k \in DOMAIN assemblies' :
        /\ assemblies'[k].received = Cardinality(BytesOf(assemblies'[k]))
        /\ assemblies'[k].received <= assemblies'[k].size
  BY <1>4 DEF Exact, CountersAreExact, Bounded
<1>8. buffered' <= MaxBuffered
  BY <1>2, LimitsAssumption DEF Exact, Bounded, MaxBuffered
<1>9. CountersAreExact'
  BY <1>6, <1>7 DEF CountersAreExact, BytesOf
<1>10. Bounded'
  BY <1>5, <1>7, <1>8 DEF Bounded, MaxBuffered
<1> QED BY <1>3, <1>5, <1>6, <1>9, <1>10 DEF Exact

(* Putting the stored segment's assembly back exchanges the entry's bytes  *)
(* for those of the assembly, under the same key.                          *)
LEMMA PutBytes ==
  ASSUME NEW s \in Segments, NEW a, Put(s.key, a)
  PROVE  HeldBytes' = (HeldBytes \ ({s.key} \X BytesOf(Entry(s)))) \cup ({s.key} \X BytesOf(a))
<1>1. /\ DOMAIN assemblies' = DOMAIN assemblies \cup {s.key}
      /\ assemblies'[s.key] = a
      /\ \A k \in DOMAIN assemblies \ {s.key} : assemblies'[k] = assemblies[k]
  BY DEF Put
<1> DEFINE others == UNION {{k} \X BytesOf(assemblies[k]) : k \in DOMAIN assemblies \ {s.key}}
<1>2. HeldBytes' = others \cup ({s.key} \X BytesOf(a))
  BY <1>1 DEF HeldBytes, BytesOf
<1>3. HeldBytes \ ({s.key} \X BytesOf(Entry(s))) = others
  <2>1. CASE IsOpen(s.key)
    <3>1. Entry(s) = assemblies[s.key]
      BY <2>1 DEF Entry
    <3> QED BY <2>1, <3>1 DEF HeldBytes, IsOpen
  <2>2. CASE ~ IsOpen(s.key)
    <3>1. Entry(s) = NewAssembly(s)
      BY <2>2 DEF Entry
    <3> QED BY <2>2, <3>1, NewIsEmpty DEF HeldBytes, IsOpen
  <2> QED BY <2>1, <2>2
<1> QED BY <1>2, <1>3

(* A segment that is not poisonous fits, a repeat adding nothing.          *)
LEMMA StoredFits ==
  ASSUME Exact, NEW s \in Segments, Admitted(s), ~ Poisonous(s)
  PROVE  /\ Stored(s).received <= Stored(s).size
         /\ buffered + Added(s) <= MaxBuffered
<1>1. /\ Entry(s).received \in Nat /\ Entry(s).received <= Entry(s).size
  BY EntryExact
<1>2. Added(s) \in Nat /\ Stored(s).received = Entry(s).received + Added(s)
  BY StoredType DEF Exact
<1>3. buffered \in Nat /\ buffered <= MaxBuffered
  BY DEF Exact, TypeOK, Bounded
<1>4. CASE IsRepeat(s)
  <2>1. Stored(s) = Entry(s)
    BY <1>4 DEF Stored
  <2>2. Added(s) = 0
    BY <1>1, <2>1 DEF Added
  <2> QED BY <1>1, <1>3, <2>1, <2>2
<1>5. CASE ~ IsRepeat(s)
  <2>1. Fits(s)
    BY <1>5 DEF Poisonous
  <2>2. /\ Stored(s).size = Entry(s).size
        /\ Stored(s).received = Entry(s).received + s.chunk.len
    BY <1>5 DEF Stored
  <2>3. Added(s) = s.chunk.len
    <3>1. s.chunk.len \in Nat
      BY SegmentType
    <3> QED BY <1>1, <1>2, <2>2, <3>1
  <2> QED BY <2>1, <2>2, <2>3 DEF Fits
<1> QED BY <1>4, <1>5

LEMMA HoldExact ==
  ASSUME Exact, NEW s \in Segments, Hold(s)
  PROVE  Exact'
<1> DEFINE old == {s.key} \X BytesOf(Entry(s))
           new == {s.key} \X BytesOf(Stored(s))
<1>1. Admitted(s) /\ ~ Poisonous(s) /\ Put(s.key, Stored(s)) /\ buffered' = buffered + Added(s)
  BY DEF Hold
<1>2. /\ IsAssembly(Stored(s)) /\ Added(s) \in Nat
      /\ Stored(s).received = Entry(s).received + Added(s)
  BY <1>1, StoredType DEF Exact
<1>3. /\ Entry(s).received \in Nat /\ Entry(s).received <= buffered
      /\ Entry(s).received = Cardinality(BytesOf(Entry(s)))
      /\ old \subseteq HeldBytes /\ Cardinality(old) = Entry(s).received
  BY <1>1, EntryExact
<1>4. Stored(s).received = Cardinality(BytesOf(Stored(s)))
  BY <1>1, <1>3, StoredBytes DEF Exact
<1>5. buffered \in Nat /\ buffered' \in Nat /\ buffered = Cardinality(HeldBytes)
  BY <1>1, <1>2 DEF Exact, TypeOK, CountersAreExact
<1>6. TypeOK'
  BY <1>1, <1>2, <1>5, PutType, SegmentType DEF Exact
<1>7. /\ DOMAIN assemblies' = DOMAIN assemblies \cup {s.key}
      /\ assemblies'[s.key] = Stored(s)
      /\ \A k \in DOMAIN assemblies \ {s.key} : assemblies'[k] = assemblies[k]
  BY <1>1 DEF Put
<1>8. /\ IsFiniteSet(DOMAIN assemblies')
      /\ Cardinality(DOMAIN assemblies') <= MaxAssemblies
  <2>1. IsFiniteSet(DOMAIN assemblies) /\ Cardinality(DOMAIN assemblies) \in Nat
    BY FS_CardinalityType DEF Exact
  <2>2. /\ IsFiniteSet(DOMAIN assemblies')
        /\ Cardinality(DOMAIN assemblies') = IF s.key \in DOMAIN assemblies
                                             THEN Cardinality(DOMAIN assemblies)
                                             ELSE Cardinality(DOMAIN assemblies) + 1
    BY <1>7, <2>1, FS_AddElement
  <2>3. HasSlot(s) /\ Cardinality(DOMAIN assemblies) <= MaxAssemblies
    BY <1>1 DEF Admitted, Exact, Bounded
  <2> QED BY <2>1, <2>2, <2>3, LimitsAssumption DEF HasSlot, IsOpen
<1>9. IsFiniteSet(HeldBytes') /\ buffered' = Cardinality(HeldBytes')
  <2>1. HeldBytes' = (HeldBytes \ old) \cup new
    BY <1>1, PutBytes
  <2>2. /\ IsFiniteSet(HeldBytes \ old)
        /\ Cardinality(HeldBytes \ old) = buffered - Entry(s).received
    BY <1>3, <1>5, SubsetRemoved DEF Exact
  <2>3. IsFiniteSet(new) /\ Cardinality(new) = Stored(s).received
    BY <1>4, Tagged, BytesFinite
  <2>4. (HeldBytes \ old) \cap new = {}
    BY DEF HeldBytes, Entry, IsOpen
  <2>5. /\ IsFiniteSet(HeldBytes')
        /\ Cardinality(HeldBytes') = buffered - Entry(s).received + Stored(s).received
    BY <2>1, <2>2, <2>3, <2>4, DisjointUnion
  <2> QED BY <1>1, <1>2, <1>3, <1>5, <2>5
<1>10. /\ Stored(s).received <= Stored(s).size
       /\ buffered' <= MaxBuffered
  BY <1>1, StoredFits
<1>11. \A k \in DOMAIN assemblies' :
         /\ assemblies'[k].received = Cardinality(BytesOf(assemblies'[k]))
         /\ assemblies'[k].received <= assemblies'[k].size
  BY <1>4, <1>7, <1>10 DEF Exact, CountersAreExact, Bounded
<1>12. CountersAreExact'
  BY <1>9, <1>11 DEF CountersAreExact, BytesOf
<1>13. Bounded'
  BY <1>8, <1>10, <1>11 DEF Bounded, MaxBuffered
<1> QED BY <1>6, <1>8, <1>9, <1>12, <1>13 DEF Exact

LEMMA InitExact == Init => Exact
<1> SUFFICES ASSUME Init PROVE Exact
  OBVIOUS
<1>1. DOMAIN assemblies = {} /\ buffered = 0
  BY DEF Init
<1>2. HeldBytes = {}
  BY <1>1 DEF HeldBytes
<1> QED BY <1>1, <1>2, InitType, FS_EmptySet, LimitsAssumption
        DEF Exact, CountersAreExact, Bounded, MaxBuffered

LEMMA NextExact ==
  ASSUME Exact, [Next]_vars
  PROVE  Exact'
<1>1. CASE UNCHANGED vars
  <2>1. assemblies' = assemblies /\ buffered' = buffered
    BY <1>1 DEF vars
  <2>2. HeldBytes' = HeldBytes
    BY <2>1 DEF HeldBytes
  <2>3. TypeOK'
    BY <1>1 DEF vars, Exact, TypeOK
  <2> QED
    BY <2>1, <2>2, <2>3 DEF Exact, CountersAreExact, Bounded
<1>2. ASSUME NEW s \in Segments, Refuse(s)
      PROVE  Exact'
  BY <1>1, <1>2 DEF Refuse
<1>3. ASSUME NEW s \in Segments, Discard(s)
      PROVE  Exact'
  <2>1. Admitted(s) /\ Drop(s.key) /\ buffered' = SaturatingSub(buffered, Entry(s).received)
    BY <1>3 DEF Discard, Remove
  <2>2. Entry(s).received \in Nat /\ Entry(s).received <= buffered /\ buffered \in Nat
    BY <2>1, EntryExact DEF Exact, TypeOK
  <2>3. buffered' = buffered - Entry(s).received
    BY <2>1, <2>2 DEF SaturatingSub
  <2> QED BY <2>1, <2>3, DropExact
<1>4. ASSUME NEW s \in Segments, Hold(s)
      PROVE  Exact'
  BY <1>4, HoldExact
<1>5. ASSUME NEW s \in Segments, Complete(s)
      PROVE  Exact'
  <2>1. /\ Admitted(s) /\ ~ Poisonous(s) /\ Drop(s.key)
        /\ buffered' = SaturatingSub(buffered + Added(s), Stored(s).received)
    BY <1>5 DEF Complete
  <2>2. Entry(s).received \in Nat /\ Entry(s).received <= buffered /\ buffered \in Nat
    BY <2>1, EntryExact DEF Exact, TypeOK
  <2>3. Added(s) \in Nat /\ Stored(s).received = Entry(s).received + Added(s)
    BY <2>1, StoredType DEF Exact
  <2>4. buffered' = buffered - Entry(s).received
    BY <2>1, <2>2, <2>3 DEF SaturatingSub
  <2> QED BY <2>1, <2>4, DropExact
<1> QED BY <1>1, <1>2, <1>3, <1>4, <1>5 DEF Next, Reject, Return

THEOREM ExactIsInvariant == Spec => []Exact
BY InitExact, NextExact, PTL DEF Spec

(* received_bytes and buffered_bytes always count exactly the bytes in the *)
(* table; saturating_sub never saturates.                                  *)
THEOREM CountersAreAlwaysExact == Spec => []CountersAreExact
<1>1. Exact => CountersAreExact
  BY DEF Exact
<1> QED BY <1>1, ExactIsInvariant, PTL

(* Whatever the relay sends, the table stays within its limits.            *)
THEOREM AlwaysBounded == Spec => []Bounded
<1>1. Exact => Bounded
  BY DEF Exact
<1> QED BY <1>1, ExactIsInvariant, PTL

-----------------------------------------------------------------------------
(* Slots are held by incomplete messages only.                             *)

LEMMA NextIncomplete ==
  ASSUME TypeOK, HeldAreIncomplete, [Next]_vars
  PROVE  HeldAreIncomplete'
<1>1. CASE UNCHANGED vars
  BY <1>1 DEF vars, HeldAreIncomplete, IsComplete, Ids
<1>2. ASSUME NEW s \in Segments, Refuse(s)
      PROVE  HeldAreIncomplete'
  BY <1>1, <1>2 DEF Refuse
<1>3. ASSUME NEW k, Drop(k)
      PROVE  HeldAreIncomplete'
  BY <1>3 DEF Drop, HeldAreIncomplete, IsComplete, Ids
<1>4. ASSUME NEW s \in Segments, Hold(s)
      PROVE  HeldAreIncomplete'
  <2>1. /\ IsAssembly(Stored(s)) /\ s.id \in DOMAIN Stored(s).chunks
        /\ ~ IsComplete(Stored(s))
    BY <1>4, StoredType DEF Hold
  <2>2. /\ DOMAIN Stored(s).chunks # {}
        /\ DOMAIN Stored(s).chunks \subseteq Ids(Stored(s).count)
    BY <2>1 DEF IsAssembly, Ids
  <2> QED BY <1>4, <2>1, <2>2 DEF Hold, Put, HeldAreIncomplete, IsComplete, Ids
<1> QED BY <1>1, <1>2, <1>3, <1>4 DEF Next, Discard, Remove, Reject, Return, Complete

(* No error path leaves an empty assembly behind, and no complete message  *)
(* waits in the table.                                                     *)
THEOREM HeldAreAlwaysIncomplete == Spec => []HeldAreIncomplete
<1>1. Init => HeldAreIncomplete
  BY DEF Init, HeldAreIncomplete
<1>2. TypeOK /\ HeldAreIncomplete /\ [Next]_vars => HeldAreIncomplete'
  BY NextIncomplete
<1> QED BY <1>1, <1>2, TypeCorrect, PTL DEF Spec

-----------------------------------------------------------------------------
(* What has been stored stays as it was.                                   *)

(* Storing a segment keeps the metadata and every chunk already there.     *)
LEMMA StoredKeeps ==
  ASSUME NEW s \in Segments
  PROVE  /\ Stored(s).count = Entry(s).count /\ Stored(s).size = Entry(s).size
         /\ \A i \in DOMAIN Entry(s).chunks :
              i \in DOMAIN Stored(s).chunks /\ Stored(s).chunks[i] = Entry(s).chunks[i]
<1>1. CASE IsRepeat(s)
  BY <1>1 DEF Stored
<1>2. CASE ~ IsRepeat(s)
  BY <1>2 DEF Stored, IsRepeat
<1> QED BY <1>1, <1>2

(* While an assembly is open its metadata and chunks are final, and a      *)
(* segment of one message never disturbs the assembly of another.          *)
THEOREM ChunksAreAlwaysFinal == Spec => ChunksAreFinal
<1> DEFINE Keeps ==
       \A k \in DOMAIN assemblies \cap DOMAIN assemblies' :
          /\ assemblies'[k].count = assemblies[k].count
          /\ assemblies'[k].size = assemblies[k].size
          /\ \A i \in DOMAIN assemblies[k].chunks :
               /\ i \in DOMAIN assemblies'[k].chunks
               /\ assemblies'[k].chunks[i] = assemblies[k].chunks[i]
     OnlyOne ==
       \E k \in Keys : \A j \in Keys \ {k} :
          /\ j \in DOMAIN assemblies <=> j \in DOMAIN assemblies'
          /\ j \in DOMAIN assemblies => assemblies'[j] = assemblies[j]
<1>1. ASSUME NEW s \in Segments, Drop(s.key)
      PROVE  Keeps /\ OnlyOne
  BY <1>1, SegmentType DEF Drop
<1>2. ASSUME NEW s \in Segments, Put(s.key, Stored(s))
      PROVE  Keeps /\ OnlyOne
  <2>1. /\ DOMAIN assemblies' = DOMAIN assemblies \cup {s.key}
        /\ assemblies'[s.key] = Stored(s)
        /\ \A k \in DOMAIN assemblies \ {s.key} : assemblies'[k] = assemblies[k]
    BY <1>2 DEF Put
  <2>2. OnlyOne
    BY <2>1, SegmentType
  <2>3. ASSUME NEW k \in DOMAIN assemblies
        PROVE  /\ assemblies'[k].count = assemblies[k].count
               /\ assemblies'[k].size = assemblies[k].size
               /\ \A i \in DOMAIN assemblies[k].chunks :
                    /\ i \in DOMAIN assemblies'[k].chunks
                    /\ assemblies'[k].chunks[i] = assemblies[k].chunks[i]
    <3>1. CASE k = s.key
      BY <2>1, <3>1, StoredKeeps DEF Entry, IsOpen
    <3>2. CASE k # s.key
      BY <2>1, <3>2
    <3> QED BY <3>1, <3>2
  <2> QED BY <2>2, <2>3
<1>3. ASSUME NEW s \in Segments, Refuse(s)
      PROVE  Keeps /\ OnlyOne
  BY <1>3, SegmentType DEF Refuse, vars
<1>4. Next => Keeps /\ OnlyOne
  BY <1>1, <1>2, <1>3 DEF Next, Discard, Remove, Hold, Reject, Return, Complete
<1>5. [Next]_vars => [Keeps /\ OnlyOne]_vars
  BY <1>4
<1> QED BY <1>5, PTL DEF Spec, ChunksAreFinal
=============================================================================
