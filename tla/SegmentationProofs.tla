-------------------------- MODULE SegmentationProofs --------------------------
(***************************************************************************)
(* Proofs about Segmentation, for any limits, lengths and metadata: what   *)
(* the trial returns tiles the message, and a message that has to be split *)
(* is split into segments a reassembler takes.                             *)
(***************************************************************************)
EXTENDS Segmentation, TLAPS

-----------------------------------------------------------------------------
(* Division that rounds up.                                                *)

(* The quotient is the least whose multiple reaches the dividend.          *)
LEMMA CeilBounds ==
  ASSUME NEW a \in Nat \ {0}, NEW b \in Nat \ {0}
  PROVE  /\ DivCeil(a, b) \in Nat \ {0}
         /\ (DivCeil(a, b) - 1) * b < a
         /\ a <= DivCeil(a, b) * b
<1> DEFINE q == (a + b - 1) \div b
           r == (a + b - 1) % b
<1>1. q \in Nat /\ r \in 0 .. b - 1 /\ a + b - 1 = b * q + r
  OBVIOUS
<1>2. q # 0
  BY <1>1
<1> QED
  BY <1>1, <1>2 DEF DivCeil

(* So it is no more than any number whose multiple reaches it.             *)
LEMMA CeilIsLeast ==
  ASSUME NEW a \in Nat \ {0}, NEW b \in Nat \ {0}, NEW c \in Nat, a <= c * b
  PROVE  DivCeil(a, b) <= c
<1>1. PICK q \in Nat \ {0} : q = DivCeil(a, b) /\ (q - 1) * b < a
  BY CeilBounds
<1>2. q > c => c * b <= (q - 1) * b
  <2> SUFFICES ASSUME c <= q - 1
               PROVE  c * b <= (q - 1) * b
    BY <1>1
  <2>1. PICK d \in Nat : q - 1 = c + d
    BY <1>1
  <2> QED
    BY <2>1
<1>3. (q - 1) * b \in Nat /\ c * b \in Nat
  BY <1>1
<1> QED
  BY <1>1, <1>2, <1>3

(* A longer dividend has no smaller quotient.                              *)
LEMMA CeilIsMonotonic ==
  ASSUME NEW a \in Nat \ {0}, NEW b \in Nat \ {0}, NEW n \in Nat \ {0}, a <= n
  PROVE  DivCeil(a, b) <= DivCeil(n, b)
<1>1. DivCeil(n, b) \in Nat \ {0} /\ n <= DivCeil(n, b) * b
  BY CeilBounds
<1>2. a <= DivCeil(n, b) * b
  BY <1>1
<1> QED
  BY <1>1, <1>2, CeilIsLeast

(* Base64 does not shorten what it encodes, and is longer for more.        *)
LEMMA Base64Bounds ==
  ASSUME NEW n \in Nat \ {0}
  PROVE  /\ Base64(n) \in Nat /\ n <= Base64(n)
         /\ \A m \in Nat \ {0} : m <= n => Base64(m) <= Base64(n)
<1>1. DivCeil(n, 3) \in Nat \ {0} /\ n <= DivCeil(n, 3) * 3
  BY CeilBounds
<1>2. ASSUME NEW m \in Nat \ {0}, m <= n
      PROVE  DivCeil(m, 3) \in Nat \ {0} /\ DivCeil(m, 3) <= DivCeil(n, 3)
  BY <1>2, CeilBounds, CeilIsMonotonic
<1>3. Base64(n) \in Nat /\ n <= Base64(n)
  BY <1>1 DEF Base64
<1>4. ASSUME NEW m \in Nat \ {0}, m <= n
      PROVE  Base64(m) <= Base64(n)
  BY <1>1, <1>2, <1>4 DEF Base64
<1> QED
  BY <1>3, <1>4

(* Hence a frame has room for its chunk, and for a shorter one.            *)
LEMMA ShorterFits ==
  ASSUME SizesAssumption, TypeOK, NEW n \in Nat \ {0}, Fits(n)
  PROVE  /\ n <= MaxFrame
         /\ \A m \in Nat \ {0} : m <= n => Fits(m)
<1>1. meta \in Nat /\ SegmentFields \in Nat /\ MaxFrame \in Nat
  BY DEF SizesAssumption, TypeOK
<1>2. Base64(n) \in Nat /\ n <= Base64(n)
  BY Base64Bounds
<1>3. n <= MaxFrame
  BY <1>1, <1>2 DEF Fits, FrameBytes
<1>4. ASSUME NEW m \in Nat \ {0}, m <= n
      PROVE  Fits(m)
  <2>1. Base64(m) \in Nat /\ Base64(m) <= Base64(n)
    BY <1>4, Base64Bounds
  <2> QED
    BY <1>1, <1>2, <2>1 DEF Fits, FrameBytes
<1> QED
  BY <1>3, <1>4

-----------------------------------------------------------------------------
(* One iteration.                                                          *)

(* What may have been tried: a count of segments that leaves each a byte.  *)
Trying == len \in Nat \ {0} /\ count \in 1 .. len

(* The chunks of the size tried tile the message, and are no more than     *)
(* were to be made.                                                        *)
LEMMA ChunksTile ==
  ASSUME Trying
  PROVE  /\ Size \in 1 .. len /\ (Size - 1) * count < len
         /\ Chunks \in 1 .. count
         /\ (Chunks - 1) * Size < len /\ len <= Chunks * Size
<1>1. len \in Nat \ {0} /\ count \in Nat \ {0} /\ count <= len
  BY DEF Trying
<1>2. /\ Size \in Nat \ {0}
      /\ (Size - 1) * count < len /\ len <= Size * count
  BY <1>1, CeilBounds DEF Size
<1>3. Size <= len
  <2>1. len <= len * count
    BY <1>1
  <2> QED
    BY <1>1, <2>1, CeilIsLeast DEF Size
<1>4. /\ Chunks \in Nat \ {0}
      /\ (Chunks - 1) * Size < len /\ len <= Chunks * Size
  BY <1>1, <1>2, CeilBounds DEF Chunks
<1>5. Chunks <= count
  <2>1. len <= count * Size
    BY <1>1, <1>2
  <2> QED
    BY <1>1, <1>2, <2>1, CeilIsLeast DEF Chunks
<1> QED
  BY <1>1, <1>2, <1>3, <1>4, <1>5

(* If they have more than a byte, one more chunk is still one each.        *)
LEMMA OneMoreIsTried ==
  ASSUME Trying, Size # 1
  PROVE  Chunks + 1 <= len
<1>1. /\ len \in Nat \ {0} /\ Size \in 1 .. len /\ Chunks \in Nat \ {0}
      /\ (Chunks - 1) * Size < len
  BY ChunksTile DEF Trying
<1>2. (Chunks - 1) * 2 <= (Chunks - 1) * Size
  <2>1. PICK d \in Nat : Size = 2 + d
    BY <1>1
  <2>2. PICK k \in Nat : Chunks - 1 = k
    BY <1>1
  <2>3. k * Size = k * 2 + k * d /\ k * d \in Nat
    BY <2>1, <2>2
  <2> QED
    BY <2>2, <2>3
<1>3. (Chunks - 1) * Size \in Nat
  BY <1>1
<1> QED
  BY <1>1, <1>2, <1>3

(* The first count to be tried leaves each segment a byte, at most.        *)
LEMMA TargetIsTried ==
  ASSUME SizesAssumption, len \in Nat \ {0}
  PROVE  DivCeil(len, Target) \in 1 .. len
<1>1. Target \in Nat \ {0}
  BY DEF SizesAssumption
<1>2. len <= len * Target
  BY <1>1
<1> QED
  BY <1>1, <1>2, CeilBounds, CeilIsLeast

(* With it no chunk is beyond the target.                                  *)
LEMMA TargetIsKept ==
  ASSUME SizesAssumption, Trying, count = DivCeil(len, Target)
  PROVE  Size <= Target
<1>1. Target \in Nat \ {0} /\ len \in Nat \ {0} /\ count \in Nat \ {0}
  BY DEF SizesAssumption, Trying
<1>2. len <= Target * count
  BY <1>1, CeilBounds
<1> QED
  BY <1>1, <1>2, CeilIsLeast DEF Size

-----------------------------------------------------------------------------
(* The invariant.                                                          *)

(* While counts are tried each is one that may be, and as long as segments *)
(* of the target size fit it is the first.                                 *)
TrialInv ==
  phase = "splitting" =>
    /\ Trying /\ len <= MaxMessage
    /\ len > Target /\ Fits(Target) => count = DivCeil(len, Target)

Inv == TypeOK /\ TrialInv /\ SegmentsCarryTheMessage /\ LongMessagesAreReceivable

LEMMA InitInv == ASSUME SizesAssumption, Init PROVE Inv
BY DEF SizesAssumption, Init, Inv, TypeOK, TrialInv, SegmentsCarryTheMessage,
   LongMessagesAreReceivable

(* The segments of a message beyond the target, cut from the first count:  *)
(* more than one, as the target does not reach, and no more than a message *)
(* at the limit would make.                                                *)
LEMMA FirstTrialIsReceivable ==
  ASSUME SizesAssumption, TypeOK, Trying, len <= MaxMessage,
         len > Target, Fits(Target), count = DivCeil(len, Target)
  PROVE  /\ Fits(Size) /\ Size <= MaxFrame
         /\ Chunks \in 2 .. MaxSegments
<1>1. Target \in Nat \ {0} /\ MaxMessage \in Nat \ {0} /\ len \in Nat \ {0}
  BY DEF SizesAssumption, Trying
<1>2. /\ Size \in 1 .. len
      /\ Chunks \in 1 .. count
      /\ len <= Chunks * Size
  BY ChunksTile
<1>3. Size \in Nat \ {0} /\ Size <= Target
  BY <1>2, TargetIsKept
<1>4. Fits(Size) /\ Size <= MaxFrame
  <2>1. Target <= MaxFrame /\ MaxFrame \in Nat /\ Fits(Size)
    BY <1>1, <1>3, ShorterFits DEF SizesAssumption
  <2> QED
    BY <1>1, <1>3, <2>1
<1>5. count <= MaxSegments /\ count \in Nat /\ MaxSegments \in Nat
  BY <1>1, CeilIsMonotonic, CeilBounds DEF MaxSegments
<1>6. Chunks # 1
  BY <1>1, <1>2, <1>3
<1> QED
  BY <1>2, <1>4, <1>5, <1>6

(* What is returned is what was tried.                                     *)
LEMMA FinishKeepsInv ==
  ASSUME SizesAssumption, Inv, Finish
  PROVE  Inv'
<1>1. /\ phase = "splitting" /\ Trying /\ len <= MaxMessage /\ Fits(Size)
      /\ len > Target /\ Fits(Target) => count = DivCeil(len, Target)
  BY DEF Inv, TrialInv, Finish, AllFit
<1>2. /\ phase' = "segments" /\ count' = Chunks /\ chunk' = Size
      /\ len' = len /\ meta' = meta
  BY DEF Finish
<1>3. /\ Size \in 1 .. len /\ Chunks \in 1 .. count /\ count \in 1 .. len /\ len \in Nat \ {0}
      /\ (Chunks - 1) * Size < len /\ len <= Chunks * Size
  BY <1>1, ChunksTile DEF Trying
<1>4. TypeOK'
  <2>1. Chunks \in 0 .. len /\ Size \in 0 .. len
    BY <1>3
  <2> QED
    BY <1>2, <2>1 DEF Inv, TypeOK
<1>5. TrialInv'
  BY <1>2 DEF TrialInv
<1>6. SegmentsCarryTheMessage'
  BY <1>1, <1>2, <1>3 DEF SegmentsCarryTheMessage, Fits, FrameBytes
<1>7. LongMessagesAreReceivable'
  <2> SUFFICES ASSUME len > Target, Fits(Target), NEW i \in 0 .. Chunks - 1
               PROVE  Receiver!WellFormed(Segment(i))'
    BY <1>2 DEF LongMessagesAreReceivable, Receivable, Fits, FrameBytes
  <2>1. Size <= MaxFrame /\ Chunks \in 2 .. MaxSegments
    BY <1>1, FirstTrialIsReceivable DEF Inv
  <2>2. ChunkLength(i)' = IF i < Chunks - 1 THEN Size ELSE len - (Chunks - 1) * Size
    BY <1>2 DEF ChunkLength
  <2>3. (Chunks - 1) * Size + Size = Chunks * Size /\ (Chunks - 1) * Size \in Nat
    BY <1>3
  <2>4. ChunkLength(i)' \in 1 .. Size
    BY <1>3, <2>2, <2>3
  <2>5. MaxFrame \in Nat
    BY DEF SizesAssumption
  <2> QED
    BY <1>1, <1>2, <1>3, <2>1, <2>4, <2>5 DEF Receiver!WellFormed, Segment
<1> QED
  BY <1>4, <1>5, <1>6, <1>7 DEF Inv

LEMMA NextKeepsInv == SizesAssumption /\ Inv /\ [Next]_vars => Inv'
<1> SUFFICES ASSUME SizesAssumption, Inv, [Next]_vars
             PROVE  Inv'
  OBVIOUS
<1>1. CASE SendWhole \/ RefuseMessage \/ UNCHANGED vars
  BY <1>1 DEF SendWhole, RefuseMessage, vars, Inv, TypeOK, TrialInv, Trying, Fits, FrameBytes,
     SegmentsCarryTheMessage, LongMessagesAreReceivable, Receivable, Segment, ChunkLength
<1>2. CASE Begin
  <2>1. len \in Nat \ {0}
    BY DEF Inv, TypeOK, SizesAssumption
  <2>2. DivCeil(len, Target) \in 1 .. len
    BY <2>1, TargetIsTried
  <2>3. TypeOK' /\ TrialInv'
    BY <1>2, <2>1, <2>2 DEF Begin, Inv, TypeOK, TrialInv, Trying
  <2> QED
    BY <1>2, <2>3 DEF Begin, Inv, SegmentsCarryTheMessage, LongMessagesAreReceivable
<1>3. CASE Finish
  BY <1>3, FinishKeepsInv
<1>4. CASE GiveUp
  <2>1. Trying
    BY <1>4 DEF GiveUp, Inv, TrialInv
  <2>2. Size \in 0 .. len /\ Chunks \in 0 .. len
    BY <2>1, ChunksTile DEF Trying
  <2> QED
    BY <1>4, <2>2 DEF GiveUp, Inv, TypeOK, TrialInv, SegmentsCarryTheMessage, LongMessagesAreReceivable
<1>5. CASE Retry
  <2>1. /\ Trying /\ len <= MaxMessage /\ Size # 1 /\ ~ Fits(Size)
        /\ len > Target /\ Fits(Target) => count = DivCeil(len, Target)
    BY <1>5 DEF Retry, Inv, TrialInv, AllFit
  <2>2. Size \in 0 .. len /\ Chunks + 1 \in 1 .. len /\ len \in Nat \ {0}
    BY <2>1, ChunksTile, OneMoreIsTried DEF Trying
  <2>3. ~ (len > Target /\ Fits(Target))
    BY <2>1, FirstTrialIsReceivable DEF Inv
  <2>4. TypeOK'
    BY <1>5, <2>2 DEF Retry, Inv, TypeOK
  <2>5. TrialInv'
    BY <1>5, <2>1, <2>2, <2>3 DEF Retry, TrialInv, Trying, Fits, FrameBytes
  <2> QED
    BY <1>5, <2>4, <2>5 DEF Retry, Inv, SegmentsCarryTheMessage, LongMessagesAreReceivable
<1> QED
  BY <1>1, <1>2, <1>3, <1>4, <1>5 DEF Next

-----------------------------------------------------------------------------
(* Counts and sizes are those of segments of at least a byte, always.      *)
THEOREM SegmentationTyped == Spec => []TypeOK
<1>1. Inv => TypeOK
  BY DEF Inv
<1> QED
  BY <1>1, InitInv, NextKeepsInv, SizesAssumption, PTL DEF Spec

(* Whatever the message and its metadata, what segment_client_message      *)
(* returns tiles the message, in frames within the limit.                  *)
THEOREM SegmentsAlwaysCarryTheMessage == Spec => []SegmentsCarryTheMessage
<1>1. Inv => SegmentsCarryTheMessage
  BY DEF Inv
<1> QED
  BY <1>1, InitInv, NextKeepsInv, SizesAssumption, PTL DEF Spec

(* A message beyond the target is split into segments that a reassembler   *)
(* with the same limits takes, as long as segments of that size fit.       *)
THEOREM LongMessagesAreAlwaysReceivable == Spec => []LongMessagesAreReceivable
<1>1. Inv => LongMessagesAreReceivable
  BY DEF Inv
<1> QED
  BY <1>1, InitInv, NextKeepsInv, SizesAssumption, PTL DEF Spec

=============================================================================
