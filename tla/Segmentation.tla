---------------------------- MODULE Segmentation ----------------------------
(***************************************************************************)
(* segment_client_message (src/transport.rs): a client envelope too long   *)
(* for one frame is cut into client_message_chunk segments.  The cut is    *)
(* found by trial: split evenly, and as long as some segment makes a frame *)
(* beyond the limit, split into one more.  One action per branch before    *)
(* the loop, and one per outcome of an iteration.                          *)
(*                                                                         *)
(* Only lengths matter, so a message is its number of bytes and the rest   *)
(* of the envelope (ids, names, punctuation) another number.               *)
(***************************************************************************)
EXTENDS Naturals

CONSTANTS
  Target,        \* SEGMENT_TARGET_BYTES
  MaxFrame,      \* MAX_FRAME_BYTES
  MaxMessage,    \* MAX_MESSAGE_BYTES
  SegmentFields, \* bytes of the fields a segment has and an envelope has not
  Lengths,       \* lengths of the app-server messages sent
  Metadata       \* lengths of the rest of their envelopes

ASSUME SizesAssumption ==
  /\ Target \in Nat \ {0} /\ MaxFrame \in Nat /\ MaxMessage \in Nat
  /\ SegmentFields \in Nat
  /\ Lengths \subseteq Nat \ {0} /\ Metadata \subseteq Nat

VARIABLES
  len,      \* message_bytes.len()
  meta,     \* the envelope without its message
  phase,    \* "new", "splitting", or what the function returns
  count,    \* segment_count
  chunk     \* chunk_size

vars == <<len, meta, phase, count, chunk>>

DivCeil(a, b) == (a + b - 1) \div b

MaxSegments == DivCeil(MaxMessage, Target)

Base64(n) == 4 * DivCeil(n, 3)

(* The frame of a segment that carries n bytes of the message.             *)
FrameBytes(n) == meta + SegmentFields + Base64(n)

Fits(n) == FrameBytes(n) <= MaxFrame

(* There are never more segments than bytes.                               *)
TypeOK ==
  /\ len \in Lengths /\ meta \in Metadata
  /\ phase \in {"new", "splitting", "whole", "segments", "message too long", "metadata too long"}
  /\ count \in 0 .. len /\ chunk \in 0 .. len

Init ==
  /\ len \in Lengths /\ meta \in Metadata
  /\ phase = "new"
  /\ count = 0 /\ chunk = 0

-----------------------------------------------------------------------------
SendWhole ==
  /\ phase = "new"
  /\ meta + len <= Target
  /\ phase' = "whole"
  /\ UNCHANGED <<len, meta, count, chunk>>

RefuseMessage ==
  /\ phase = "new"
  /\ meta + len > Target
  /\ len > MaxMessage
  /\ phase' = "message too long"
  /\ UNCHANGED <<len, meta, count, chunk>>

(* The slip of splitting into as many segments as whole targets fit.       *)
BeginRoundingDown ==
  /\ phase = "new"
  /\ meta + len > Target
  /\ len <= MaxMessage
  /\ phase' = "splitting"
  /\ count' = IF len \div Target = 0 THEN 1 ELSE len \div Target
  /\ UNCHANGED <<len, meta, chunk>>

Begin ==
  /\ phase = "new"
  /\ meta + len > Target
  /\ len <= MaxMessage
  /\ phase' = "splitting"
  /\ count' = DivCeil(len, Target)
  /\ UNCHANGED <<len, meta, chunk>>

-----------------------------------------------------------------------------
(* One iteration: chunks of chunk_size bytes, as many as the message makes *)
(* of them, which may be fewer than the count that led to the size.        *)

Size == DivCeil(len, count)

Chunks == DivCeil(len, Size)

(* The slip of measuring only the last segment, the shortest.              *)
AllFitByTheLast == Fits(len - (Chunks - 1) * Size)

(* No segment is longer than the first.                                    *)
AllFit == Fits(Size)

Finish ==
  /\ phase = "splitting"
  /\ AllFit
  /\ phase' = "segments"
  /\ count' = Chunks /\ chunk' = Size
  /\ UNCHANGED <<len, meta>>

GiveUp ==
  /\ phase = "splitting"
  /\ ~ AllFit /\ Size = 1
  /\ phase' = "metadata too long"
  /\ count' = Chunks /\ chunk' = Size
  /\ UNCHANGED <<len, meta>>

(* The slip of trying the same count again.                                *)
RetrySameCount ==
  /\ phase = "splitting"
  /\ ~ AllFit /\ Size # 1
  /\ count' = Chunks /\ chunk' = Size
  /\ UNCHANGED <<len, meta, phase>>

Retry ==
  /\ phase = "splitting"
  /\ ~ AllFit /\ Size # 1
  /\ count' = Chunks + 1 /\ chunk' = Size
  /\ UNCHANGED <<len, meta, phase>>

Next == SendWhole \/ RefuseMessage \/ Begin \/ Finish \/ GiveUp \/ Retry

(* Nothing suspends the function: it runs until it returns.                *)
Spec == Init /\ [][Next]_vars /\ WF_vars(Next)

-----------------------------------------------------------------------------
(* The segments returned tile the message: every chunk but the last has    *)
(* chunk_size bytes, the last has the rest and is not empty, and no frame  *)
(* is beyond the limit.                                                    *)
SegmentsCarryTheMessage ==
  phase = "segments" =>
    /\ (count - 1) * chunk < len /\ len <= count * chunk
    /\ Fits(chunk)

(* The limits the other side's reassembler would hold a segment to.        *)
Receiver == INSTANCE Reassembler WITH
              Keys <- {0}, Data <- {0}, Segments <- {}, Objects <- {},
              MaxSegments <- MaxSegments, MaxMessageBytes <- MaxMessage,
              MaxChunk <- MaxFrame, MaxAssemblies <- 1,
              assemblies <- [k \in {} |-> {}], buffered <- 0

ChunkLength(i) == IF i < count - 1 THEN chunk ELSE len - (count - 1) * chunk

Segment(i) == [key |-> 0, id |-> i, count |-> count, size |-> len,
               chunk |-> [len |-> ChunkLength(i), data |-> 0]]

Receivable == \A i \in 0 .. count - 1 : Receiver!WellFormed(Segment(i))

(* A message beyond the target is split into segments that a reassembler   *)
(* with this program's own limits takes, as long as a segment of the       *)
(* target size fits a frame.                                               *)
LongMessagesAreReceivable ==
  phase = "segments" /\ len > Target /\ Fits(Target) => Receivable

(* Some chunk size of at least the square root of the length fits.         *)
ThereIsRoom == \E c \in 1 .. len : c * c >= len /\ Fits(c)

Returned == phase \notin {"new", "splitting"}

(* With that much room the trial ends, and ends with segments.             *)
EndsWhenThereIsRoom == ThereIsRoom ~> Returned /\ phase # "metadata too long"

-----------------------------------------------------------------------------
(* What the code and its tests say, and its behaviour contradicts.         *)

(* A message that is split is split into segments the program's own        *)
(* reassembler would take: more than one, for a start.                     *)
AlwaysReceivable == phase = "segments" /\ Fits(Target) => Receivable

-----------------------------------------------------------------------------
(* What one might expect, and does not hold: no run checks it.             *)

(* A message that cannot be split is refused.  TLC refutes it: the trial   *)
(* goes from c chunks to c + 1 for ever if neither has the same size.      *)
AlwaysEnds == <>Returned
=============================================================================
