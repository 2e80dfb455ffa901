---------------------------- MODULE Reassembler ----------------------------
(***************************************************************************)
(* ServerMessageReassembler (src/transport.rs): server messages too long   *)
(* for one relay frame arrive as segments, in any order, interleaved with  *)
(* those of other messages and possibly repeated.  The reassembler keeps   *)
(* one assembly per message key and gives the message back when its last   *)
(* missing segment arrives.  Whatever the relay sends, it may hold only a  *)
(* bounded number of assemblies and of bytes.                              *)
(*                                                                         *)
(* One action per outcome of ServerMessageReassembler::observe:            *)
(*   Refuse   an error that leaves the table alone                         *)
(*   Discard  an error that drops the assembly of the segment's message    *)
(*   Hold     stored (or repeated), the message is still incomplete        *)
(*   Reject   complete, but not a message: dropped with an error           *)
(*   Return   complete: removed from the table and given back              *)
(* A frame that is not a server_message_chunk is given back at once and    *)
(* touches nothing, so it has no action here.                              *)
(***************************************************************************)
EXTENDS Naturals, FiniteSets

CONSTANTS
  Keys,             \* "env_id:stream_id:seq_id" of a message
  Data,             \* contents of a decoded chunk, beside its length
  Segments,         \* the server_message_chunk envelopes that may arrive
  Objects,          \* the chunk sequences whose bytes are one JSON object
  MaxSegments,      \* MAX_SEGMENTS
  MaxMessageBytes,  \* MAX_MESSAGE_BYTES
  MaxChunk,         \* longest chunk whose envelope fits MAX_FRAME_BYTES
  MaxAssemblies     \* MAX_CONCURRENT_ASSEMBLIES

Chunk == [len : Nat, data : Data]

(* An envelope, after serde has found its fields and decoded the base64.   *)
Segment == [key : Keys, id : Nat, count : Nat, size : Nat, chunk : Chunk]

ASSUME SegmentsAssumption == Segments \subseteq Segment
ASSUME LimitsAssumption ==
  /\ MaxSegments \in Nat
  /\ MaxMessageBytes \in Nat
  /\ MaxChunk \in Nat
  /\ MaxAssemblies \in Nat

MaxBuffered == MaxMessageBytes

VARIABLES
  assemblies,   \* the open assemblies: a function on the keys that have one
  buffered      \* buffered_bytes

vars == <<assemblies, buffered>>

(* The shape of struct Assembly.  chunks is a function on the ids of the   *)
(* segments received so far, the Some(_) entries of the code's             *)
(* Vec<Option<Vec<u8>>>; metadata that observe refuses is never stored.    *)
IsAssembly(a) ==
  /\ DOMAIN a = {"count", "size", "received", "chunks"}
  /\ a.count \in 2 .. MaxSegments
  /\ a.size \in 1 .. MaxMessageBytes
  /\ a.received \in Nat
  /\ DOMAIN a.chunks \subseteq 0 .. a.count - 1
  /\ a.chunks \in [DOMAIN a.chunks -> [len : 1 .. MaxChunk, data : Data]]

(* The table maps keys to assemblies that observe may have built, and the  *)
(* byte counter is a number.                                               *)
TypeOK ==
  /\ DOMAIN assemblies \subseteq Keys
  /\ assemblies = [k \in DOMAIN assemblies |-> assemblies[k]]
  /\ \A k \in DOMAIN assemblies : IsAssembly(assemblies[k])
  /\ buffered \in Nat

Init ==
  /\ assemblies = [k \in {} |-> {}]
  /\ buffered = 0

-----------------------------------------------------------------------------
SaturatingSub(a, b) == IF a > b THEN a - b ELSE 0

Ids(n) == 0 .. n - 1

IsOpen(k) == k \in DOMAIN assemblies

NewAssembly(s) ==
  [count |-> s.count, size |-> s.size, received |-> 0, chunks |-> [i \in {} |-> {}]]

(* The assembly the segment goes to: entry(key).or_insert_with(..).        *)
Entry(s) == IF IsOpen(s.key) THEN assemblies[s.key] ELSE NewAssembly(s)

Put(k, a) ==
  assemblies' = [j \in DOMAIN assemblies \cup {k} |-> IF j = k THEN a ELSE assemblies[j]]

Drop(k) == assemblies' = [j \in DOMAIN assemblies \ {k} |-> assemblies[j]]

(* The slip of an error path that forgets to give back the bytes.          *)
RemoveLeakingBytes(k, received) ==
  /\ Drop(k)
  /\ UNCHANGED buffered

(* assemblies.remove(key), returning the bytes it had received.            *)
Remove(k, received) ==
  /\ Drop(k)
  /\ buffered' = SaturatingSub(buffered, received)

-----------------------------------------------------------------------------
(* The tests of observe, in the order they are made.                       *)

(* Frame size, segment metadata and decoded size are within the limits.    *)
WellFormed(s) ==
  /\ s.chunk.len <= MaxChunk
  /\ s.count > 1 /\ s.count <= MaxSegments
  /\ s.id < s.count
  /\ s.size > 0 /\ s.size <= MaxMessageBytes
  /\ s.chunk.len > 0 /\ s.chunk.len <= s.size

(* The slip that admits one assembly too many.                             *)
HasSlotOffByOne(s) == IsOpen(s.key) \/ Cardinality(DOMAIN assemblies) <= MaxAssemblies

(* A message that is not open yet needs a free slot in the table.          *)
HasSlot(s) == IsOpen(s.key) \/ Cardinality(DOMAIN assemblies) < MaxAssemblies

Admitted(s) == WellFormed(s) /\ HasSlot(s)

SameMetadata(s) == Entry(s).count = s.count /\ Entry(s).size = s.size

(* The slip that takes only an identical segment for a repeat.             *)
IsRepeatIfIdentical(s) ==
  s.id \in DOMAIN Entry(s).chunks /\ Entry(s).chunks[s.id] = s.chunk

IsRepeat(s) == s.id \in DOMAIN Entry(s).chunks

(* "segment changed when repeated"                                         *)
ChangedRepeat(s) == IsRepeat(s) /\ Entry(s).chunks[s.id] # s.chunk

(* Neither the message nor the whole table would hold too many bytes.      *)
Fits(s) ==
  /\ Entry(s).received + s.chunk.len <= Entry(s).size
  /\ buffered + s.chunk.len <= MaxBuffered

Poisonous(s) ==
  \/ ~ SameMetadata(s)
  \/ ChangedRepeat(s)
  \/ ~ IsRepeat(s) /\ ~ Fits(s)

(* The assembly once the segment is in; a repeat adds nothing.             *)
Stored(s) ==
  IF IsRepeat(s) THEN Entry(s)
  ELSE [count |-> Entry(s).count, size |-> Entry(s).size,
        received |-> Entry(s).received + s.chunk.len,
        chunks |-> [i \in DOMAIN Entry(s).chunks \cup {s.id} |->
                      IF i = s.id THEN s.chunk ELSE Entry(s).chunks[i]]]

Added(s) == Stored(s).received - Entry(s).received

IsComplete(a) == DOMAIN a.chunks = Ids(a.count)

(* The bytes of an assembly, each named by its segment and its place.      *)
BytesOf(a) == {p \in Ids(MaxSegments) \X (1 .. MaxChunk) :
                 p[1] \in DOMAIN a.chunks /\ p[2] <= a.chunks[p[1]].len}

(* bytes.len() == message_size, and the bytes parse as an object.          *)
IsMessage(a) == Cardinality(BytesOf(a)) = a.size /\ a.chunks \in Objects

-----------------------------------------------------------------------------
Refuse(s) ==
  /\ ~ Admitted(s)
  /\ UNCHANGED vars

(* The slip of an error path that leaves the entry it had just made.       *)
DiscardKeepingEntry(s) ==
  /\ Admitted(s) /\ Poisonous(s)
  /\ Put(s.key, Entry(s))
  /\ UNCHANGED buffered

Discard(s) ==
  /\ Admitted(s) /\ Poisonous(s)
  /\ Remove(s.key, Entry(s).received)

Hold(s) ==
  /\ Admitted(s) /\ ~ Poisonous(s)
  /\ ~ IsComplete(Stored(s))
  /\ Put(s.key, Stored(s))
  /\ buffered' = buffered + Added(s)

(* The completing segment is stored, counted, and removed with the rest.   *)
Complete(s) ==
  /\ Admitted(s) /\ ~ Poisonous(s)
  /\ IsComplete(Stored(s))
  /\ Drop(s.key)
  /\ buffered' = SaturatingSub(buffered + Added(s), Stored(s).received)

Reject(s) == Complete(s) /\ ~ IsMessage(Stored(s))

Return(s) == Complete(s) /\ IsMessage(Stored(s))

Next ==
  \E s \in Segments : Refuse(s) \/ Discard(s) \/ Hold(s) \/ Reject(s) \/ Return(s)

Spec == Init /\ [][Next]_vars

-----------------------------------------------------------------------------
(* The bytes the table really holds, each named by key, segment and place. *)
HeldBytes == UNION {{k} \X BytesOf(assemblies[k]) : k \in DOMAIN assemblies}

(* The counters the limits are tested against tell the truth: an           *)
(* assembly's received_bytes counts the bytes of its chunks, and           *)
(* buffered_bytes those of the whole table, however segments were          *)
(* repeated, discarded or completed.  A counter that drifted would either  *)
(* refuse everything or admit without bound, and saturating_sub would hide *)
(* the drift.                                                              *)
CountersAreExact ==
  /\ \A k \in DOMAIN assemblies : assemblies[k].received = Cardinality(BytesOf(assemblies[k]))
  /\ buffered = Cardinality(HeldBytes)

(* "Bounded relay message reassembly": no sequence of segments makes the   *)
(* table hold more than MaxAssemblies messages, more than MaxBuffered      *)
(* bytes, or more bytes of one message than the message said it has.       *)
Bounded ==
  /\ Cardinality(DOMAIN assemblies) <= MaxAssemblies
  /\ buffered <= MaxBuffered
  /\ \A k \in DOMAIN assemblies : assemblies[k].received <= assemblies[k].size

(* A slot is only ever held by a message some of whose segments, but not   *)
(* all, have arrived: error paths leave no empty assembly behind, and a    *)
(* complete message never waits in the table.                              *)
HeldAreIncomplete ==
  \A k \in DOMAIN assemblies :
    LET a == assemblies[k] IN
    DOMAIN a.chunks # {} /\ DOMAIN a.chunks \subseteq Ids(a.count) /\ ~ IsComplete(a)

(* While an assembly stays in the table its metadata never changes, a      *)
(* chunk it stored is never lost or replaced, and at most one assembly     *)
(* changes at a time: segments of interleaved messages cannot mix.         *)
ChunksAreFinal ==
  [][/\ \A k \in DOMAIN assemblies \cap DOMAIN assemblies' :
          /\ assemblies'[k].count = assemblies[k].count
          /\ assemblies'[k].size = assemblies[k].size
          /\ \A i \in DOMAIN assemblies[k].chunks :
               /\ i \in DOMAIN assemblies'[k].chunks
               /\ assemblies'[k].chunks[i] = assemblies[k].chunks[i]
     /\ \E k \in Keys : \A j \in Keys \ {k} :
          /\ j \in DOMAIN assemblies <=> j \in DOMAIN assemblies'
          /\ j \in DOMAIN assemblies => assemblies'[j] = assemblies[j]]_vars
=============================================================================
