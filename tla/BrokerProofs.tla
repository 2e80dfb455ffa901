----------------------------- MODULE BrokerProofs -----------------------------
(***************************************************************************)
(* Proofs about Broker, for any kinds of frames, any ids, any number of    *)
(* hosts and of frames, of clients that await their responses and of those *)
(* that do not.                                                            *)
(***************************************************************************)
EXTENDS Broker, Integers, SequenceTheorems, TLAPS

Responses ==
  [kind : {"error", "handshake", "paired", "hosts", "ready"}, id : Ids \cup {NoId}]

Typed ==
  /\ mode \in {"serving", "bridging", "ended", "failed"}
  /\ initialized \in BOOLEAN /\ closed \in BOOLEAN /\ patient \in BOOLEAN
  /\ requestIds \subseteq Ids
  /\ pipe \in Seq(Frames) /\ buffer \in Seq(Frames)
  /\ written \in Seq(Frames) /\ bridged \in Seq(Frames) /\ paired \in Seq(Ids)
  /\ Len(written) <= MaxFrames
  /\ responses \in Seq(Responses)

(* A request has an id.                                                    *)
RequestsHaveIds ==
  \A i \in DOMAIN written : IsRequest(written[i].kind) => written[i].id \in Ids

(* q is what the client wrote after its first n frames.                    *)
Follows(q, n) == \A i \in DOMAIN q : q[i] = written[n + i]

(* While requests are served, each frame is answered, in the buffer or in  *)
(* the pipe, and a client that waits has at most one of them waiting ...   *)
Serving ==
  mode = "serving" =>
    /\ Len(written) = Len(responses) + Len(buffer) + Len(pipe)
    /\ Follows(buffer, Len(responses)) /\ Follows(pipe, Len(responses) + Len(buffer))
    /\ patient => Len(written) <= Len(responses) + 1
    /\ bridged = <<>>
    /\ \A i \in DOMAIN responses : responses[i].kind # "ready"
    /\ initialized => \E i \in DOMAIN responses : responses[i].kind = "handshake"

(* ... and then all that it writes is passed on or in the pipe.            *)
BridgingPatiently ==
  patient /\ mode = "bridging" =>
    /\ Len(written) = Len(responses) + Len(bridged) + Len(pipe)
    /\ Follows(bridged, Len(responses)) /\ Follows(pipe, Len(responses) + Len(bridged))

Paired ==
  /\ \A i \in DOMAIN paired : paired[i] \in requestIds
  /\ \A i, j \in DOMAIN paired : paired[i] = paired[j] => i = j

IInv == Typed /\ RequestsHaveIds /\ ResponsesFollowFrames /\ Serving /\ BridgingPatiently /\ Paired

-----------------------------------------------------------------------------
LEMMA Appended ==
  ASSUME NEW S, NEW q \in Seq(S), NEW e \in S
  PROVE  /\ Append(q, e) \in Seq(S) /\ Len(q) \in Nat /\ Len(Append(q, e)) = Len(q) + 1
         /\ DOMAIN q = 1 .. Len(q) /\ DOMAIN Append(q, e) = 1 .. Len(q) + 1
         /\ \A i \in 1 .. Len(q) : Append(q, e)[i] = q[i]
         /\ Append(q, e)[Len(q) + 1] = e
<1>1. Append(q, e) \in Seq(S) /\ Len(Append(q, e)) = Len(q) + 1
  BY AppendProperties
<1> QED
  BY <1>1, AppendProperties, LenProperties

LEMMA Shortened ==
  ASSUME NEW S, NEW q \in Seq(S), q # <<>>
  PROVE  /\ Head(q) \in S /\ Head(q) = q[1] /\ 1 \in DOMAIN q
         /\ Tail(q) \in Seq(S) /\ Len(q) \in Nat \ {0} /\ Len(Tail(q)) = Len(q) - 1
         /\ DOMAIN q = 1 .. Len(q) /\ DOMAIN Tail(q) = 1 .. Len(q) - 1
         /\ \A i \in 1 .. Len(q) - 1 : Tail(q)[i] = q[i + 1]
<1>1. Len(q) \in Nat \ {0} /\ DOMAIN q = 1 .. Len(q)
  BY EmptySeq, LenProperties
<1>2. /\ Head(q) \in S /\ Tail(q) \in Seq(S) /\ Len(Tail(q)) = Len(q) - 1
      /\ \A i \in 1 .. Len(q) - 1 : Tail(q)[i] = q[i + 1]
  BY HeadTailProperties
<1> QED
  BY <1>1, <1>2, LenProperties

(* What one turn of the loop does to a frame: it is answered, or the       *)
(* broker ends without.                                                    *)
Fitting(f, kind) ==
  \/ kind = "error"
  \/ f.kind = "handshake" /\ kind = "handshake"
  \/ /\ initialized
     /\ \/ f.kind = "pair" /\ kind = "paired"
        \/ f.kind = "list" /\ kind = "hosts"
        \/ f.kind = "open" /\ kind = "ready"

Turn(f) ==
  /\ mode = "serving" /\ buffer # <<>> /\ f = Head(buffer) /\ buffer' = Tail(buffer)
  /\ UNCHANGED <<pipe, written, bridged, closed, patient>>
  /\ requestIds' \subseteq Ids /\ requestIds \subseteq requestIds' /\ initialized' \in BOOLEAN
  /\ \/ UNCHANGED paired
     \/ /\ paired' = Append(paired, f.id) /\ f.id \in Ids
        /\ f.id \notin requestIds /\ f.id \in requestIds'
  /\ \/ mode' = "failed" /\ UNCHANGED responses
     \/ \E r \in Responses :
          /\ responses' = Append(responses, r) /\ r.id \in {f.id, NoId} /\ Fitting(f, r.kind)
          /\ mode' = IF r.kind = "ready" THEN "bridging" ELSE "serving"
          /\ initialized' => initialized \/ r.kind = "handshake"

LEMMA ServeIsATurn ==
  ASSUME Typed, Serving, RequestsHaveIds, Serve
  PROVE  Turn(Head(buffer))
<1> DEFINE f == Head(buffer)
<1>1. /\ mode = "serving" /\ buffer # <<>> /\ buffer' = Tail(buffer)
      /\ UNCHANGED <<pipe, written, bridged, closed, patient>>
  BY DEF Serve, Takes, FailOversized, RefuseFrame, RefuseRequest, TakesAccepted, Handshake, ListHosts, Pair, Open,
         OpenFails
<1>2. f \in Frames /\ (IsRequest(f.kind) => f.id \in Ids)
  <2>1. f \in Frames /\ f = buffer[1] /\ 1 \in DOMAIN buffer /\ Len(buffer) \in Nat \ {0}
    BY <1>1, Shortened DEF Typed
  <2>2. Len(responses) \in Nat /\ Len(pipe) \in Nat /\ DOMAIN written = 1 .. Len(written)
    BY LenProperties DEF Typed
  <2>3. f = written[Len(responses) + 1]
    BY <1>1, <2>1 DEF Serving, Follows
  <2>4. Len(responses) + 1 \in DOMAIN written
    BY <1>1, <2>1, <2>2 DEF Serving
  <2> QED
    BY <2>1, <2>3, <2>4 DEF RequestsHaveIds
<1>3. requestIds \subseteq Ids /\ initialized \in BOOLEAN
  BY DEF Typed
<1> HIDE DEF f
<1>4. ASSUME NEW kind \in {"error", "handshake", "paired", "hosts", "ready"}, NEW id \in {f.id, NoId},
             f.id \in Ids \cup {NoId}
      PROVE  [kind |-> kind, id |-> id] \in Responses
  BY <1>4 DEF Responses
<1>5. f.id \in Ids \cup {NoId}
  BY <1>2 DEF Frames
<1>6. CASE FailOversized
  BY <1>1, <1>3, <1>6 DEF FailOversized, session, Turn, f
<1>7. CASE RefuseFrame
  BY <1>1, <1>3, <1>4, <1>5, <1>7 DEF RefuseFrame, Respond, session, Turn, Fitting, f
<1>8. CASE RefuseRequest
  BY <1>1, <1>3, <1>4, <1>5, <1>8 DEF RefuseRequest, Respond, session, Turn, Fitting, f
<1>9. ASSUME NEW kind, TakesAccepted(kind), IsRequest(kind)
      PROVE  /\ f.kind = kind /\ f.id \in Ids /\ f.id \notin requestIds
             /\ requestIds' = requestIds \cup {f.id} /\ initialized' = TRUE
             /\ kind # "handshake" => initialized = TRUE
             /\ requestIds' \subseteq Ids /\ requestIds \subseteq requestIds'
  <2>1. f.kind = kind /\ f.id \notin requestIds /\ requestIds' = requestIds \cup {f.id} /\ initialized' = TRUE
    BY <1>9 DEF TakesAccepted, Takes, Accepted, Accepts, f
  <2>2. kind # "handshake" => initialized = TRUE
    <3>1. (f.kind = "handshake") # initialized
      BY <1>9 DEF TakesAccepted, Accepted, f
    <3>2. CASE initialized = FALSE
      BY <2>1, <3>1, <3>2
    <3> QED
      BY <1>3, <3>2
  <2> QED
    BY <1>2, <1>3, <1>9, <2>1, <2>2
<1>10. CASE Handshake
  <2>0. TakesAccepted("handshake") /\ IsRequest("handshake")
    BY <1>10 DEF Handshake, IsRequest
  <2>1. f.kind = "handshake" /\ requestIds' \subseteq Ids /\ requestIds \subseteq requestIds' /\ initialized' = TRUE
    BY <1>9, <2>0
  <2>2. responses' = Append(responses, [kind |-> "handshake", id |-> f.id]) /\ UNCHANGED <<mode, paired>>
    BY <1>10 DEF Handshake, Respond, f
  <2> QED
    BY <1>1, <1>4, <1>5, <2>1, <2>2 DEF Turn, Fitting, f
<1>11. CASE ListHosts
  <2>0. TakesAccepted("list") /\ IsRequest("list") /\ "list" # "handshake"
    BY <1>11 DEF ListHosts, IsRequest
  <2>1. /\ f.kind = "list" /\ requestIds' \subseteq Ids /\ requestIds \subseteq requestIds'
        /\ initialized' = TRUE /\ initialized = TRUE
    BY <1>9, <2>0
  <2>2. /\ UNCHANGED paired
        /\ \/ mode' = "failed" /\ UNCHANGED responses
           \/ /\ UNCHANGED mode
              /\ \E kind \in {"hosts", "error"} : responses' = Append(responses, [kind |-> kind, id |-> f.id])
    BY <1>11 DEF ListHosts, RespondHosts, Respond, f
  <2> QED
    BY <1>1, <1>4, <1>5, <2>1, <2>2 DEF Turn, Fitting, f
<1>12. CASE Pair
  <2>0. TakesAccepted("pair") /\ IsRequest("pair") /\ "pair" # "handshake"
    BY <1>12 DEF Pair, IsRequest
  <2>1. /\ f.kind = "pair" /\ requestIds' \subseteq Ids /\ requestIds \subseteq requestIds'
        /\ initialized' = TRUE /\ initialized = TRUE
        /\ f.id \in Ids /\ f.id \notin requestIds /\ f.id \in requestIds'
    BY <1>9, <2>0
  <2>2. /\ UNCHANGED paired \/ paired' = Append(paired, f.id)
        /\ \/ mode' = "failed" /\ UNCHANGED responses
           \/ /\ UNCHANGED mode
              /\ \E kind \in {"paired", "error"} : responses' = Append(responses, [kind |-> kind, id |-> f.id])
    BY <1>12 DEF Pair, RespondHosts, Respond, f
  <2> QED
    BY <1>1, <1>4, <1>5, <2>1, <2>2 DEF Turn, Fitting, f
<1>13. CASE Open
  <2>0. TakesAccepted("open") /\ IsRequest("open") /\ "open" # "handshake"
    BY <1>13 DEF Open, IsRequest
  <2>1. /\ f.kind = "open" /\ requestIds' \subseteq Ids /\ requestIds \subseteq requestIds'
        /\ initialized' = TRUE /\ initialized = TRUE
    BY <1>9, <2>0
  <2>2. /\ responses' = Append(responses, [kind |-> "ready", id |-> f.id])
        /\ mode' = "bridging" /\ UNCHANGED paired
    BY <1>13 DEF Open, Respond, f
  <2> QED
    BY <1>1, <1>4, <1>5, <2>1, <2>2 DEF Turn, Fitting, f
<1>14. CASE OpenFails
  <2>0. TakesAccepted("open") /\ IsRequest("open") /\ "open" # "handshake"
    BY <1>14 DEF OpenFails, IsRequest
  <2>1. /\ requestIds' \subseteq Ids /\ requestIds \subseteq requestIds'
        /\ initialized' = TRUE /\ initialized = TRUE
    BY <1>9, <2>0
  <2>2. responses' = Append(responses, [kind |-> "error", id |-> f.id]) /\ UNCHANGED <<mode, paired>>
    BY <1>14 DEF OpenFails, Respond, f
  <2> QED
    BY <1>1, <1>4, <1>5, <2>1, <2>2 DEF Turn, Fitting, f
<1> QED
  BY <1>6, <1>7, <1>8, <1>10, <1>11, <1>12, <1>13, <1>14 DEF Serve, f

-----------------------------------------------------------------------------
LEMMA Places ==
  ASSUME Typed
  PROVE  /\ DOMAIN written = 1 .. Len(written) /\ DOMAIN responses = 1 .. Len(responses)
         /\ DOMAIN buffer = 1 .. Len(buffer) /\ DOMAIN pipe = 1 .. Len(pipe)
         /\ DOMAIN bridged = 1 .. Len(bridged) /\ DOMAIN paired = 1 .. Len(paired)
         /\ Len(written) \in Nat /\ Len(responses) \in Nat /\ Len(buffer) \in Nat
         /\ Len(pipe) \in Nat /\ Len(bridged) \in Nat /\ Len(paired) \in Nat
BY LenProperties DEF Typed

(* The frame at the head of the buffer is the next to be answered.         *)
LEMMA TurnAnswersTheNext ==
  ASSUME IInv, NEW f, Turn(f)
  PROVE  /\ f = written[Len(responses) + 1] /\ Len(responses) + 1 \in 1 .. Len(written)
         /\ buffer' \in Seq(Frames) /\ Len(buffer) \in Nat \ {0} /\ Len(buffer') = Len(buffer) - 1
         /\ \A i \in 1 .. Len(buffer) - 1 : buffer'[i] = buffer[i + 1]
<1>1. /\ f = buffer[1] /\ 1 \in DOMAIN buffer /\ buffer' \in Seq(Frames)
      /\ Len(buffer) \in Nat \ {0} /\ Len(buffer') = Len(buffer) - 1
      /\ \A i \in 1 .. Len(buffer) - 1 : buffer'[i] = buffer[i + 1]
  BY Shortened DEF Turn, IInv, Typed
<1>2. Len(responses) \in Nat /\ Len(pipe) \in Nat
  BY Places DEF IInv
<1>3. f = written[Len(responses) + 1] /\ Len(written) = Len(responses) + Len(buffer) + Len(pipe)
  BY <1>1 DEF Turn, IInv, Serving, Follows
<1> QED
  BY <1>1, <1>2, <1>3

LEMMA TurnTyped ==
  ASSUME IInv, NEW f, Turn(f)
  PROVE  Typed'
<1>0. responses \in Seq(Responses) /\ paired \in Seq(Ids)
  BY DEF IInv, Typed
<1>1. responses' \in Seq(Responses)
  <2>1. UNCHANGED responses \/ \E r \in Responses : responses' = Append(responses, r)
    BY DEF Turn
  <2> QED
    BY <1>0, <2>1, Appended
<1>2. paired' \in Seq(Ids)
  <2>1. UNCHANGED paired \/ (paired' = Append(paired, f.id) /\ f.id \in Ids)
    BY DEF Turn
  <2> QED
    BY <1>0, <2>1, Appended
<1>3. mode' \in {"serving", "bridging", "ended", "failed"}
  BY DEF Turn
<1>4. requestIds' \subseteq Ids /\ initialized' \in BOOLEAN
  BY DEF Turn
<1>5. UNCHANGED <<pipe, written, bridged, closed, patient>>
  BY DEF Turn
<1> QED
  BY <1>1, <1>2, <1>3, <1>4, <1>5, TurnAnswersTheNext DEF IInv, Typed

LEMMA TurnKeepsPaired ==
  ASSUME IInv, NEW f, Turn(f)
  PROVE  Paired'
<1>1. requestIds \subseteq requestIds'
  BY DEF Turn
<1>2. CASE UNCHANGED paired
  BY <1>1, <1>2 DEF IInv, Paired
<1>3. CASE /\ paired' = Append(paired, f.id) /\ f.id \in Ids
           /\ f.id \notin requestIds /\ f.id \in requestIds'
  <2> DEFINE n == Len(paired)
  <2>1. /\ n \in Nat /\ DOMAIN paired = 1 .. n /\ DOMAIN paired' = 1 .. n + 1
        /\ \A i \in 1 .. n : paired'[i] = paired[i]
        /\ paired'[n + 1] = f.id
    BY <1>3, Appended DEF IInv, Typed
  <2> HIDE DEF n
  <2>2. \A i \in 1 .. n : paired[i] \in requestIds /\ paired[i] # f.id
    BY <1>3, <2>1 DEF IInv, Paired
  <2>3. \A i \in DOMAIN paired' : paired'[i] \in requestIds'
    BY <1>1, <1>3, <2>1, <2>2
  <2>4. ASSUME NEW i \in DOMAIN paired', NEW j \in DOMAIN paired', paired'[i] = paired'[j]
        PROVE  i = j
    <3>1. CASE i \in 1 .. n /\ j \in 1 .. n
      BY <2>1, <2>4, <3>1 DEF IInv, Paired
    <3>2. CASE i = n + 1 /\ j \in 1 .. n
      BY <2>1, <2>2, <2>4, <3>2
    <3>3. CASE i \in 1 .. n /\ j = n + 1
      BY <2>1, <2>2, <2>4, <3>3
    <3> QED
      BY <2>1, <3>1, <3>2, <3>3
  <2> QED
    BY <2>3, <2>4 DEF Paired
<1> QED
  BY <1>2, <1>3 DEF Turn

(* What an answer may be, for the frame it answers.                        *)
AnswerTo(f, r) ==
  /\ r.id \in {f.id, NoId}
  /\ r.kind = "error" \/ r.kind \in
       (CASE f.kind = "handshake" -> {"handshake"}
          [] f.kind = "pair" -> {"paired"}
          [] f.kind = "list" -> {"hosts"}
          [] f.kind = "open" -> {"ready"}
          [] OTHER -> {})

LEMMA ResponsesInTheirTerms ==
  ResponsesFollowFrames <=>
    /\ Len(responses) <= Len(written)
    /\ \A i \in DOMAIN responses :
         /\ AnswerTo(written[i], responses[i])
         /\ responses[i].kind \in {"error", "handshake"}
              \/ \E j \in 1 .. i - 1 : responses[j].kind = "handshake"
         /\ responses[i].kind = "ready" => i = Len(responses)
BY Zenon DEF ResponsesFollowFrames, AnswerTo

LEMMA TurnKeepsResponses ==
  ASSUME IInv, NEW f, Turn(f)
  PROVE  ResponsesFollowFrames' /\ Serving' /\ BridgingPatiently'
<1> DEFINE n == Len(responses)
<1>1. /\ f = written[n + 1] /\ n + 1 \in 1 .. Len(written)
      /\ Len(buffer) \in Nat \ {0} /\ Len(buffer') = Len(buffer) - 1
      /\ \A i \in 1 .. Len(buffer) - 1 : buffer'[i] = buffer[i + 1]
      /\ DOMAIN buffer' = 1 .. Len(buffer) - 1
  BY TurnAnswersTheNext, LenProperties
<1>2. /\ mode = "serving" /\ UNCHANGED <<pipe, written, bridged, closed, patient>>
      /\ Len(written) = n + Len(buffer) + Len(pipe)
      /\ Follows(buffer, n) /\ Follows(pipe, n + Len(buffer))
      /\ patient => Len(written) <= n + 1
      /\ bridged = <<>>
      /\ \A i \in DOMAIN responses : responses[i].kind # "ready"
      /\ initialized => \E i \in DOMAIN responses : responses[i].kind = "handshake"
  BY DEF Turn, IInv, Serving
<1>3. /\ Typed /\ Typed' /\ n \in Nat /\ DOMAIN responses = 1 .. n /\ Len(written) \in Nat
      /\ Len(pipe) \in Nat /\ DOMAIN buffer = 1 .. Len(buffer) /\ DOMAIN pipe = 1 .. Len(pipe)
  BY TurnTyped, Places DEF IInv
<1>4. CASE mode' = "failed" /\ UNCHANGED responses
  <2>1. ResponsesFollowFrames'
    BY <1>2, <1>4 DEF IInv, ResponsesFollowFrames
  <2> QED
    BY <1>4, <2>1 DEF Serving, BridgingPatiently
<1>5. ASSUME NEW r \in Responses,
             responses' = Append(responses, r), r.id \in {f.id, NoId}, Fitting(f, r.kind),
             mode' = IF r.kind = "ready" THEN "bridging" ELSE "serving",
             initialized' => initialized \/ r.kind = "handshake"
      PROVE  ResponsesFollowFrames' /\ Serving' /\ BridgingPatiently'
  <2>1. /\ DOMAIN responses' = 1 .. n + 1 /\ Len(responses') = n + 1
        /\ \A i \in 1 .. n : responses'[i] = responses[i]
        /\ responses'[n + 1] = r
    BY <1>3, <1>5, Appended DEF Typed
  <2> HIDE DEF n
  <2>2. AnswerTo(f, r)
    BY <1>5 DEF AnswerTo, Fitting
  <2>3. r.kind \in {"error", "handshake"} \/ \E j \in 1 .. n : responses[j].kind = "handshake"
    BY <1>2, <1>3, <1>5 DEF Fitting
  <2>4. ASSUME NEW i \in DOMAIN responses'
        PROVE  /\ AnswerTo(written'[i], responses'[i])
               /\ responses'[i].kind \in {"error", "handshake"}
                    \/ \E j \in 1 .. i - 1 : responses'[j].kind = "handshake"
               /\ responses'[i].kind = "ready" => i = Len(responses')
    <3>1. CASE i \in 1 .. n
      <4>1. /\ AnswerTo(written[i], responses[i])
            /\ responses[i].kind \in {"error", "handshake"}
                 \/ \E j \in 1 .. i - 1 : responses[j].kind = "handshake"
        BY <1>3, <3>1, ResponsesInTheirTerms DEF IInv
      <4>2. \A j \in 1 .. i - 1 : responses'[j] = responses[j]
        BY <1>3, <2>1, <3>1
      <4>3. responses'[i] = responses[i] /\ written' = written /\ responses[i].kind # "ready"
        BY <1>2, <1>3, <2>1, <3>1
      <4> QED
        BY <4>1, <4>2, <4>3
    <3>2. CASE i = n + 1
      <4>1. i - 1 = n
        BY <1>3, <3>2
      <4>2. \A j \in 1 .. n : responses'[j] = responses[j]
        BY <2>1
      <4>3. responses'[i] = r /\ written'[i] = f /\ i = Len(responses')
        BY <1>1, <1>2, <2>1, <3>2 DEF n
      <4> QED
        BY <2>2, <2>3, <4>1, <4>2, <4>3
    <3> QED
      BY <1>3, <2>1, <3>1, <3>2
  <2>5. Len(responses') <= Len(written')
    BY <1>1, <1>2, <2>1 DEF n
  <2>6. ResponsesFollowFrames'
    BY <2>4, <2>5 DEF ResponsesFollowFrames, AnswerTo
  <2>7. Serving'
    <3>1. Len(written') = Len(responses') + Len(buffer') + Len(pipe')
      BY <1>1, <1>2, <1>3, <2>1
    <3>2. Follows(buffer, Len(responses))'
      <4>1. ASSUME NEW i \in DOMAIN buffer'
            PROVE  buffer'[i] = written'[Len(responses') + i]
        <5>1. buffer'[i] = buffer[i + 1] /\ i + 1 \in DOMAIN buffer /\ i \in Nat
          BY <1>1, <1>3
        <5>2. buffer[i + 1] = written[n + (i + 1)]
          BY <1>2, <5>1 DEF Follows
        <5>3. n + (i + 1) = (n + 1) + i
          BY <1>3, <5>1
        <5> QED
          BY <1>2, <2>1, <5>1, <5>2, <5>3
      <4> QED
        BY <4>1 DEF Follows
    <3>3. Follows(pipe, Len(responses) + Len(buffer))'
      <4>1. Len(responses') + Len(buffer') = n + Len(buffer)
        BY <1>1, <1>3, <2>1
      <4> QED
        BY <1>2, <4>1 DEF Follows
    <3>4. Len(written') <= Len(responses') + 1 \/ ~ patient'
      BY <1>2, <1>3, <2>1
    <3>5. ASSUME mode' = "serving"
          PROVE  /\ \A i \in DOMAIN responses' : responses'[i].kind # "ready"
                 /\ initialized' => \E i \in DOMAIN responses' : responses'[i].kind = "handshake"
      <4>1. r.kind # "ready"
        BY <1>5, <3>5
      <4>2. \A i \in DOMAIN responses' : responses'[i].kind # "ready"
        BY <1>2, <1>3, <2>1, <4>1
      <4>3. ASSUME initialized \/ r.kind = "handshake"
            PROVE  \E i \in DOMAIN responses' : responses'[i].kind = "handshake"
        <5>1. CASE initialized
          <6>1. PICK i \in 1 .. n : responses[i].kind = "handshake"
            BY <1>2, <1>3, <5>1
          <6>2. i \in DOMAIN responses' /\ responses'[i].kind = "handshake"
            BY <1>3, <2>1, <6>1
          <6> QED
            BY <6>2
        <5>2. CASE r.kind = "handshake"
          <6>1. n + 1 \in DOMAIN responses' /\ responses'[n + 1].kind = "handshake"
            BY <1>3, <2>1, <5>2
          <6> QED
            BY <6>1
        <5> QED
          BY <4>3, <5>1, <5>2
      <4> QED
        BY <1>5, <4>2, <4>3
    <3>6. bridged' = <<>>
      BY <1>2
    <3> QED
      BY <3>1, <3>2, <3>3, <3>4, <3>5, <3>6 DEF Serving
  <2>8. BridgingPatiently'
    <3>1. ASSUME patient'
          PROVE  /\ Len(written') = Len(responses') + Len(bridged') + Len(pipe')
                 /\ Len(bridged') = 0 /\ Len(pipe') = 0
      <4>1. Len(written) <= n + 1 /\ Len(bridged) = 0
        BY <1>2, <3>1, EmptySeq
      <4> QED
        BY <1>1, <1>2, <1>3, <2>1, <4>1
    <3>2. ASSUME patient'
          PROVE  DOMAIN bridged' = {} /\ DOMAIN pipe' = {}
      <4>1. DOMAIN bridged' = 1 .. Len(bridged') /\ DOMAIN pipe' = 1 .. Len(pipe')
        BY <1>3, LenProperties DEF Typed
      <4> QED
        BY <3>1, <3>2, <4>1
    <3> QED
      BY <3>1, <3>2 DEF BridgingPatiently, Follows
  <2> QED
    BY <2>6, <2>7, <2>8
<1> QED
  BY <1>4, <1>5 DEF Turn

(* A client that waits writes only when all it wrote is answered.          *)
LEMMA ClientWritesKeeps ==
  ASSUME IInv, NEW f \in Frames, ClientWrites(f)
  PROVE  IInv'
<1> DEFINE n == Len(written)
           k == Len(pipe)
<1>1. written' = Append(written, f) /\ pipe' = Append(pipe, f)
      /\ UNCHANGED <<mode, session, buffer, responses, paired, bridged, closed, patient>>
  BY DEF ClientWrites
<1>2. Typed /\ n \in Nat /\ k \in Nat /\ Len(responses) \in Nat /\ Len(buffer) \in Nat /\ Len(bridged) \in Nat
      /\ DOMAIN responses = 1 .. Len(responses) /\ DOMAIN buffer = 1 .. Len(buffer)
      /\ DOMAIN bridged = 1 .. Len(bridged)
  BY Places DEF IInv
<1>3. /\ written' \in Seq(Frames) /\ Len(written') = n + 1
      /\ DOMAIN written = 1 .. n /\ DOMAIN written' = 1 .. n + 1
      /\ \A i \in 1 .. n : written'[i] = written[i]
      /\ written'[n + 1] = f
  BY <1>1, <1>2, Appended DEF Typed
<1>4. /\ pipe' \in Seq(Frames) /\ Len(pipe') = k + 1
      /\ DOMAIN pipe = 1 .. k /\ DOMAIN pipe' = 1 .. k + 1
      /\ \A i \in 1 .. k : pipe'[i] = pipe[i]
      /\ pipe'[k + 1] = f
  BY <1>1, <1>2, Appended DEF Typed
<1> HIDE DEF n, k
<1>5. Typed'
  <2>1. n < MaxFrames /\ MaxFrames \in Nat
    BY ClientAssumption DEF ClientWrites, n
  <2>2. Len(written') <= MaxFrames
    BY <1>2, <1>3, <2>1
  <2> QED
    BY <1>1, <1>2, <1>3, <1>4, <2>2 DEF Typed, session
<1>6. RequestsHaveIds'
  <2>1. IsRequest(f.kind) => f.id \in Ids
    BY DEF ClientWrites, Frames
  <2>2. ASSUME NEW i \in DOMAIN written', IsRequest(written'[i].kind)
        PROVE  written'[i].id \in Ids
    <3>1. CASE i \in 1 .. n
      <4>1. written'[i] = written[i] /\ i \in DOMAIN written
        BY <1>3, <3>1
      <4> QED
        BY <2>2, <4>1 DEF IInv, RequestsHaveIds
    <3>2. CASE i = n + 1
      BY <1>3, <2>1, <2>2, <3>2
    <3> QED
      BY <1>2, <1>3, <3>1, <3>2
  <2> QED
    BY <2>2 DEF RequestsHaveIds, IsRequest
<1>7. ResponsesFollowFrames'
  <2>1. Len(responses) <= n
    BY DEF IInv, ResponsesFollowFrames, n
  <2>2. Len(responses') <= Len(written')
    BY <1>1, <1>2, <1>3, <2>1
  <2>3. ASSUME NEW i \in DOMAIN responses'
        PROVE  /\ AnswerTo(written'[i], responses'[i])
               /\ responses'[i].kind \in {"error", "handshake"}
                    \/ \E j \in 1 .. i - 1 : responses'[j].kind = "handshake"
               /\ responses'[i].kind = "ready" => i = Len(responses')
    <3>1. written'[i] = written[i] /\ i \in DOMAIN responses /\ responses' = responses
      BY <1>1, <1>2, <1>3, <2>1
    <3> QED
      BY <3>1, ResponsesInTheirTerms DEF IInv
  <2> QED
    BY <2>2, <2>3 DEF ResponsesFollowFrames, AnswerTo
<1>8. ASSUME NEW q \in {buffer, bridged}, NEW m \in Nat, Follows(q, m), m + Len(q) <= n
      PROVE  \A i \in DOMAIN q : q[i] = written'[m + i]
  <2>1. ASSUME NEW i \in DOMAIN q
        PROVE  q[i] = written'[m + i]
    <3>1. DOMAIN q = 1 .. Len(q) /\ Len(q) \in Nat
      BY <1>2
    <3>2. m + i \in 1 .. n
      BY <1>2, <1>8, <3>1
    <3> QED
      BY <1>3, <1>8, <3>2 DEF Follows
  <2> QED
    BY <2>1
<1>9. ASSUME NEW m \in Nat, Follows(pipe, m), n = m + k
      PROVE  \A i \in DOMAIN pipe' : pipe'[i] = written'[m + i]
  <2>1. ASSUME NEW i \in DOMAIN pipe'
        PROVE  pipe'[i] = written'[m + i]
    <3>1. CASE i \in 1 .. k
      <4>1. m + i \in 1 .. n
        BY <1>2, <1>9, <3>1
      <4> QED
        BY <1>3, <1>4, <1>9, <3>1, <4>1 DEF Follows
    <3>2. CASE i = k + 1
      <4>1. m + i = n + 1
        BY <1>2, <1>9, <3>2
      <4> QED
        BY <1>3, <1>4, <3>2, <4>1
    <3> QED
      BY <1>2, <1>4, <3>1, <3>2
  <2> QED
    BY <2>1
<1>10. Serving'
  <2>1. SUFFICES ASSUME mode = "serving"
        PROVE  Serving'
    BY <1>1 DEF Serving
  <2>2. /\ n = Len(responses) + Len(buffer) + k
        /\ Follows(buffer, Len(responses)) /\ Follows(pipe, Len(responses) + Len(buffer))
        /\ patient => n <= Len(responses) + 1
    BY <2>1 DEF IInv, Serving, n, k
  <2>3. Follows(buffer, Len(responses))'
    <3>1. Len(responses) + Len(buffer) <= n
      BY <1>2, <2>2
    <3>2. \A i \in DOMAIN buffer : buffer[i] = written'[Len(responses) + i]
      BY <1>2, <1>8, <2>2, <3>1
    <3> QED
      BY <1>1, <3>2 DEF Follows
  <2>4. Follows(pipe, Len(responses) + Len(buffer))'
    <3>1. Len(responses) + Len(buffer) \in Nat
      BY <1>2
    <3>2. \A i \in DOMAIN pipe' : pipe'[i] = written'[(Len(responses) + Len(buffer)) + i]
      BY <1>9, <2>2, <3>1
    <3> QED
      BY <1>1, <3>2 DEF Follows
  <2>5. ASSUME patient
        PROVE  n + 1 <= Len(responses) + 1
    <3>1. ~ (Len(responses) < n)
      BY <2>1, <2>5 DEF ClientWrites, Awaited, n
    <3> QED
      BY <1>2, <3>1
  <2>6. Len(written') = Len(responses') + Len(buffer') + Len(pipe')
    BY <1>1, <1>2, <1>3, <1>4, <2>2
  <2> QED
    BY <1>1, <1>3, <2>1, <2>3, <2>4, <2>5, <2>6 DEF IInv, Serving, session
<1>11. BridgingPatiently'
  <2>1. SUFFICES ASSUME patient, mode = "bridging"
        PROVE  BridgingPatiently'
    BY <1>1 DEF BridgingPatiently
  <2>2. /\ n = Len(responses) + Len(bridged) + k
        /\ Follows(bridged, Len(responses)) /\ Follows(pipe, Len(responses) + Len(bridged))
    BY <2>1 DEF IInv, BridgingPatiently, n, k
  <2>3. Follows(bridged, Len(responses))'
    <3>1. Len(responses) + Len(bridged) <= n
      BY <1>2, <2>2
    <3>2. \A i \in DOMAIN bridged : bridged[i] = written'[Len(responses) + i]
      BY <1>2, <1>8, <2>2, <3>1
    <3> QED
      BY <1>1, <3>2 DEF Follows
  <2>4. Follows(pipe, Len(responses) + Len(bridged))'
    <3>1. Len(responses) + Len(bridged) \in Nat
      BY <1>2
    <3>2. \A i \in DOMAIN pipe' : pipe'[i] = written'[(Len(responses) + Len(bridged)) + i]
      BY <1>9, <2>2, <3>1
    <3> QED
      BY <1>1, <3>2 DEF Follows
  <2>5. Len(written') = Len(responses') + Len(bridged') + Len(pipe')
    BY <1>1, <1>2, <1>3, <1>4, <2>2
  <2> QED
    BY <2>3, <2>4, <2>5 DEF BridgingPatiently
<1>12. Paired'
  BY <1>1 DEF IInv, Paired, session
<1> QED
  BY <1>5, <1>6, <1>7, <1>10, <1>11, <1>12 DEF IInv

(* The reader moves frames from the front of the pipe, in their order.     *)
LEMMA FillKeeps ==
  ASSUME IInv, Fill
  PROVE  IInv'
<1> DEFINE k == Len(pipe)
<1>1. /\ mode = "serving" /\ buffer = <<>>
      /\ UNCHANGED <<mode, session, written, responses, paired, bridged, closed, patient>>
  BY DEF Fill
<1>2. /\ k \in Nat /\ DOMAIN pipe = 1 .. k /\ Len(responses) \in Nat /\ Len(written) \in Nat
      /\ \A i \in 1 .. k : pipe[i] \in Frames
  BY Places, ElementOfSeq DEF IInv, Typed
<1>3. PICK n \in 1 .. k : buffer' = SubSeq(pipe, 1, n) /\ pipe' = SubSeq(pipe, n + 1, k)
  BY <1>2 DEF Fill
<1>4. /\ buffer' \in Seq(Frames) /\ Len(buffer') = n
      /\ \A i \in 1 .. n : buffer'[i] = pipe[i]
  <2>1. \A i \in 1 .. n : pipe[i] \in Frames
    BY <1>2
  <2> QED
    BY <1>2, <1>3, <2>1, SubSeqProperties DEF IInv, Typed
<1>5. /\ pipe' \in Seq(Frames) /\ Len(pipe') = k - n
      /\ \A i \in 1 .. k - n : pipe'[i] = pipe[i + n]
  <2>1. \A i \in n + 1 .. k : pipe[i] \in Frames
    BY <1>2
  <2> QED
    <3> DEFINE t == SubSeq(pipe, n + 1, k)
    <3>1. /\ t \in Seq(Frames) /\ Len(t) = IF n + 1 <= k THEN k - (n + 1) + 1 ELSE 0
          /\ \A i \in 1 .. k - (n + 1) + 1 : t[i] = pipe[(n + 1) + i - 1]
      BY <1>2, <2>1, SubSeqProperties DEF IInv, Typed
    <3> HIDE DEF t, k
    <3>2. k - (n + 1) + 1 = k - n /\ Len(t) = k - n
      BY <1>2, <3>1
    <3>3. \A i \in 1 .. k - n : (n + 1) + i - 1 = i + n
      BY <1>2
    <3> QED
      BY <1>3, <3>1, <3>2, <3>3 DEF t
<1>6. DOMAIN buffer' = 1 .. n /\ DOMAIN pipe' = 1 .. k - n
  BY <1>4, <1>5, LenProperties
<1>7. Typed'
  BY <1>1, <1>4, <1>5 DEF IInv, Typed, session
<1>8. /\ Len(written) = Len(responses) + k /\ Follows(pipe, Len(responses))
  <2>1. Len(buffer) = 0
    BY <1>1, EmptySeq
  <2>2. Len(responses) + Len(buffer) = Len(responses)
    BY <1>2, <2>1
  <2> QED
    BY <1>1, <2>2 DEF IInv, Serving
<1> HIDE DEF k
<1>9. Serving'
  <2>1. Len(written') = Len(responses') + Len(buffer') + Len(pipe')
    BY <1>1, <1>2, <1>4, <1>5, <1>8
  <2>2. Follows(buffer, Len(responses))'
    BY <1>1, <1>2, <1>4, <1>6, <1>8 DEF Follows
  <2>3. Follows(pipe, Len(responses) + Len(buffer))'
    <3>1. ASSUME NEW i \in DOMAIN pipe'
          PROVE  pipe'[i] = written[(Len(responses) + n) + i]
      <4>1. pipe'[i] = pipe[i + n] /\ i + n \in DOMAIN pipe
        BY <1>2, <1>5, <1>6
      <4>2. pipe[i + n] = written[Len(responses) + (i + n)]
        BY <1>8, <4>1 DEF Follows
      <4>3. Len(responses) + (i + n) = (Len(responses) + n) + i
        BY <1>2, <1>6
      <4> QED
        BY <4>1, <4>2, <4>3
    <3> QED
      BY <1>1, <1>4, <3>1 DEF Follows
  <2> QED
    BY <1>1, <2>1, <2>2, <2>3 DEF IInv, Serving, session
<1>10. ResponsesFollowFrames'
  BY <1>1 DEF IInv, ResponsesFollowFrames
<1>11. RequestsHaveIds' /\ Paired' /\ BridgingPatiently'
  BY <1>1 DEF IInv, RequestsHaveIds, Paired, BridgingPatiently, session, IsRequest
<1> QED
  BY <1>7, <1>9, <1>10, <1>11 DEF IInv

LEMMA PassOnKeeps ==
  ASSUME IInv, PassOn
  PROVE  IInv'
<1> DEFINE k == Len(pipe)
           b == Len(bridged)
<1>1. /\ mode = "bridging" /\ pipe # <<>> /\ pipe' = Tail(pipe) /\ bridged' = Append(bridged, Head(pipe))
      /\ UNCHANGED <<mode, session, buffer, written, responses, paired, closed, patient>>
  BY DEF PassOn
<1>2. /\ k \in Nat \ {0} /\ DOMAIN pipe = 1 .. k /\ Head(pipe) = pipe[1] /\ Head(pipe) \in Frames
      /\ pipe' \in Seq(Frames) /\ Len(pipe') = k - 1 /\ DOMAIN pipe' = 1 .. k - 1
      /\ \A i \in 1 .. k - 1 : pipe'[i] = pipe[i + 1]
  BY <1>1, Shortened DEF IInv, Typed
<1>3. /\ bridged' \in Seq(Frames) /\ b \in Nat /\ Len(bridged') = b + 1
      /\ DOMAIN bridged = 1 .. b /\ DOMAIN bridged' = 1 .. b + 1
      /\ \A i \in 1 .. b : bridged'[i] = bridged[i]
      /\ bridged'[b + 1] = Head(pipe)
  BY <1>1, <1>2, Appended DEF IInv, Typed
<1>4. Len(responses) \in Nat
  BY Places DEF IInv
<1>5. Typed'
  BY <1>1, <1>2, <1>3 DEF IInv, Typed, session
<1> HIDE DEF k, b
<1>6. BridgingPatiently'
  <2>1. SUFFICES ASSUME patient
        PROVE  BridgingPatiently'
    BY <1>1 DEF BridgingPatiently
  <2>2. /\ Len(written) = Len(responses) + b + k
        /\ Follows(bridged, Len(responses)) /\ Follows(pipe, Len(responses) + b)
    BY <1>1, <2>1 DEF IInv, BridgingPatiently, b, k
  <2>3. ASSUME NEW i \in DOMAIN bridged'
        PROVE  bridged'[i] = written[Len(responses) + i]
    <3>1. CASE i \in 1 .. b
      BY <1>3, <2>2, <3>1 DEF Follows
    <3>2. CASE i = b + 1
      <4>1. pipe[1] = written[(Len(responses) + b) + 1]
        BY <1>2, <2>2 DEF Follows
      <4>2. (Len(responses) + b) + 1 = Len(responses) + i
        BY <1>3, <1>4, <3>2
      <4> QED
        BY <1>2, <1>3, <3>2, <4>1, <4>2
    <3> QED
      BY <1>3, <3>1, <3>2
  <2>4. ASSUME NEW i \in DOMAIN pipe'
        PROVE  pipe'[i] = written[(Len(responses) + (b + 1)) + i]
    <3>1. pipe'[i] = pipe[i + 1] /\ i + 1 \in DOMAIN pipe
      BY <1>2
    <3>2. pipe[i + 1] = written[(Len(responses) + b) + (i + 1)]
      BY <2>2, <3>1 DEF Follows
    <3>3. (Len(responses) + b) + (i + 1) = (Len(responses) + (b + 1)) + i
      BY <1>2, <1>3, <1>4
    <3> QED
      BY <3>1, <3>2, <3>3
  <2>5. Len(written') = Len(responses') + Len(bridged') + Len(pipe')
    <3>1. Len(written') = Len(responses') + b + k
      BY <1>1, <2>2
    <3>2. Len(responses') \in Nat
      BY <1>1, <1>4
    <3> QED
      BY ONLY <1>2, <1>3, <3>1, <3>2
  <2> QED
    BY <1>1, <1>3, <2>3, <2>4, <2>5 DEF BridgingPatiently, Follows
<1>7. Serving'
  BY <1>1 DEF Serving
<1>8. ResponsesFollowFrames'
  BY <1>1 DEF IInv, ResponsesFollowFrames
<1>9. RequestsHaveIds' /\ Paired'
  BY <1>1 DEF IInv, RequestsHaveIds, Paired, session, IsRequest
<1> QED
  BY <1>5, <1>6, <1>7, <1>8, <1>9 DEF IInv

-----------------------------------------------------------------------------
LEMMA InitEstablishesIInv ==
  ASSUME Init
  PROVE  IInv
<1>1. Typed
  <2>1. Len(written) <= MaxFrames
    BY ClientAssumption, EmptySeq DEF Init
  <2>2. /\ pipe \in Seq(Frames) /\ buffer \in Seq(Frames) /\ written \in Seq(Frames)
        /\ bridged \in Seq(Frames) /\ paired \in Seq(Ids) /\ responses \in Seq(Responses)
    BY EmptySeq DEF Init
  <2> QED
    BY <2>1, <2>2 DEF Init, Typed
<1>2. ResponsesFollowFrames
  BY DEF Init, ResponsesFollowFrames
<1>3. RequestsHaveIds /\ Serving /\ BridgingPatiently /\ Paired
  BY DEF Init, RequestsHaveIds, Serving, BridgingPatiently, Paired, Follows
<1> QED
  BY <1>1, <1>2, <1>3 DEF IInv

LEMMA NextKeepsIInv ==
  ASSUME IInv, [Next]_vars
  PROVE  IInv'
<1>1. CASE Serve
  <2>1. Turn(Head(buffer))
    BY <1>1, ServeIsATurn DEF IInv
  <2>2. RequestsHaveIds'
    BY <2>1 DEF Turn, IInv, RequestsHaveIds, IsRequest
  <2> QED
    BY <2>1, <2>2, TurnTyped, TurnKeepsPaired, TurnKeepsResponses DEF IInv
<1>2. CASE UNCHANGED vars
  BY <1>2 DEF vars, session, IInv, Typed, RequestsHaveIds, IsRequest, ResponsesFollowFrames, Serving,
              BridgingPatiently, Paired, Follows
<1>3. CASE ClientCloses
  BY <1>3 DEF ClientCloses, session, IInv, Typed, RequestsHaveIds, IsRequest, ResponsesFollowFrames, Serving,
              BridgingPatiently, Paired, Follows
<1>4. CASE EndOfInput \/ StdioFails \/ BridgeEnds
  <2>1. /\ mode' \in {"ended", "failed"}
        /\ UNCHANGED <<session, pipe, buffer, written, responses, paired, bridged, closed, patient>>
    BY <1>4 DEF EndOfInput, StdioFails, BridgeEnds
  <2>2. Typed'
    BY <2>1 DEF IInv, Typed, session
  <2>3. Serving' /\ BridgingPatiently'
    BY <2>1 DEF Serving, BridgingPatiently
  <2> QED
    BY <2>1, <2>2, <2>3 DEF session, IInv, RequestsHaveIds, IsRequest, ResponsesFollowFrames, Paired
<1> QED
  BY <1>1, <1>2, <1>3, <1>4, ClientWritesKeeps, FillKeeps, PassOnKeeps DEF Next

(* The invariant of the broker's loop and its bridge.                      *)
THEOREM BrokerIInv == Spec => []IInv
BY InitEstablishesIInv, NextKeepsIInv, PTL DEF Spec

(* Frames stay frames and ids those of requests, wherever they are.        *)
THEOREM BrokerTyped == Spec => []TypeOK
<1>1. IInv => TypeOK
  BY DEF IInv, Typed, TypeOK
<1> QED
  BY <1>1, BrokerIInv, PTL

(* Each response is to the frame in its place, none but errors comes       *)
(* before a handshake and none after "ready" (run_broker), for any client, *)
(* host list and number of frames.                                         *)
THEOREM AlwaysFollowFrames == Spec => []ResponsesFollowFrames
<1>1. IInv => ResponsesFollowFrames
  BY DEF IInv
<1> QED
  BY <1>1, BrokerIInv, PTL

(* No id is paired under twice (BrokerSession::accept), however often the  *)
(* request is repeated.                                                    *)
THEOREM AlwaysPairedOnce == Spec => []PairedOnce
<1>1. IInv => PairedOnce
  BY DEF IInv, Paired, PairedOnce, IsInjective
<1> QED
  BY <1>1, BrokerIInv, PTL

(* To a client that waits, the handover loses and repeats nothing          *)
(* (run_broker's reader and bridge_stdio's).                               *)
THEOREM AlwaysStartsWhereRequestsEnd == Spec => []BridgeStartsWhereRequestsEnd
<1>1. ASSUME IInv, patient, mode = "bridging"
      PROVE  bridged \o pipe = SubSeq(written, Len(responses) + 1, Len(written))
  <2> DEFINE n == Len(written)
             r == Len(responses)
             b == Len(bridged)
             k == Len(pipe)
  <2>1. /\ n = r + b + k /\ Follows(bridged, r) /\ Follows(pipe, r + b)
        /\ n \in Nat /\ r \in Nat /\ b \in Nat /\ k \in Nat
        /\ DOMAIN bridged = 1 .. b /\ DOMAIN pipe = 1 .. k
        /\ \A i \in 1 .. n : written[i] \in Frames
    BY <1>1, Places, ElementOfSeq DEF IInv, BridgingPatiently, Typed
  <2> DEFINE s == SubSeq(written, r + 1, n)
             c == bridged \o pipe
  <2>2. /\ s \in Seq(Frames) /\ Len(s) = b + k
        /\ \A i \in 1 .. b + k : s[i] = written[r + i]
    <3>1. \A i \in r + 1 .. n : written[i] \in Frames
      BY <2>1
    <3>2. /\ s \in Seq(Frames)
          /\ Len(s) = IF r + 1 <= n THEN n - (r + 1) + 1 ELSE 0
          /\ \A i \in 1 .. n - (r + 1) + 1 : s[i] = written[(r + 1) + i - 1]
      BY <1>1, <2>1, <3>1, SubSeqProperties DEF IInv, Typed
    <3>3. n - (r + 1) + 1 = b + k /\ Len(s) = b + k
      BY <2>1, <3>2
    <3>4. \A i \in 1 .. b + k : (r + 1) + i - 1 = r + i
      BY <2>1
    <3> QED
      BY <3>2, <3>3, <3>4
  <2>3. /\ c \in Seq(Frames) /\ Len(c) = b + k
        /\ \A i \in 1 .. b + k : c[i] = IF i <= b THEN bridged[i] ELSE pipe[i - b]
    BY <1>1, ConcatProperties DEF IInv, Typed
  <2> HIDE DEF s, c, n, r, b, k
  <2>4. ASSUME NEW i \in 1 .. b + k
        PROVE  c[i] = s[i]
    <3>1. CASE i <= b
      <4>1. i \in DOMAIN bridged
        BY <2>1, <3>1
      <4> QED
        BY <2>1, <2>2, <2>3, <3>1, <4>1 DEF Follows
    <3>2. CASE ~ (i <= b)
      <4>1. i - b \in DOMAIN pipe /\ (r + b) + (i - b) = r + i
        BY <2>1, <3>2
      <4> QED
        BY <2>1, <2>2, <2>3, <3>2, <4>1 DEF Follows
    <3> QED
      BY <3>1, <3>2
  <2>5. c = s
    BY <2>2, <2>3, <2>4, SeqEqual
  <2> QED
    BY <2>5 DEF s, c, n, r
<1>2. IInv => BridgeStartsWhereRequestsEnd
  BY <1>1 DEF BridgeStartsWhereRequestsEnd
<1> QED
  BY <1>2, BrokerIInv, PTL

=============================================================================
