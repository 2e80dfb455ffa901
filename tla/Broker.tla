------------------------------- MODULE Broker -------------------------------
(***************************************************************************)
(* `rcodex broker` (run_broker in src/main.rs, BrokerSession in            *)
(* src/broker.rs): requests as lines on stdin, one response each on        *)
(* stdout, until an open_app_server succeeds and the lines that follow go  *)
(* to the host through the relay (bridge_stdio, module RelayTransport).    *)
(*                                                                         *)
(* One action per way a frame is dealt with.  Between the client's write   *)
(* and the broker's read a frame is in the pipe; what a read takes from    *)
(* the pipe beyond the first frame waits in the broker's BufReader.        *)
(*                                                                         *)
(* Abstractions.  A frame is its kind and request id.  The relay's answer  *)
(* to a request is the number of hosts it lists, or any error.             *)
(***************************************************************************)
EXTENDS Naturals, Sequences, SequencesExt

CONSTANTS
  Kinds,         \* the kinds of frames the client writes
  Ids,           \* the request ids it uses
  MaxFrames,     \* bound on the frames it writes
  MaxHosts,      \* MAX_REMOTE_ENVIRONMENTS
  HostsThatFit   \* hosts whose list is within MAX_BROKER_FRAME_BYTES

ASSUME ClientAssumption ==
  /\ Kinds \subseteq {"handshake", "pair", "list", "open", "malformed", "oversized", "app"}
  /\ Ids \subseteq Nat \ {0} /\ MaxFrames \in Nat
ASSUME HostsAssumption == MaxHosts \in Nat /\ HostsThatFit \in Nat

NoId == 0

VARIABLES
  mode,         \* "serving", "bridging", "ended" or "failed"
  initialized,  \* BrokerSession::initialized
  requestIds,   \* BrokerSession::request_ids
  pipe,         \* frames written and not read
  buffer,       \* frames in the BufReader
  written,      \* history: the frames the client wrote
  responses,    \* the responses written to stdout
  paired,       \* the ids of the pairings the relay was asked for
  bridged,      \* the frames that went on to the host
  closed,       \* the client has closed its end
  patient       \* it awaits each response before it writes again

session == <<initialized, requestIds>>
vars == <<mode, session, pipe, buffer, written, responses, paired, bridged, closed, patient>>

Frames == [kind : Kinds, id : Ids \cup {NoId}]

(* The frames in the various places are frames, the ids those of requests. *)
TypeOK ==
  /\ mode \in {"serving", "bridging", "ended", "failed"}
  /\ {initialized, closed, patient} \subseteq BOOLEAN
  /\ requestIds \subseteq Ids
  /\ pipe \in Seq(Frames) /\ buffer \in Seq(Frames)
  /\ written \in Seq(Frames) /\ bridged \in Seq(Frames) /\ paired \in Seq(Ids)
  /\ Len(written) <= MaxFrames

Init ==
  /\ mode = "serving"
  /\ initialized = FALSE /\ requestIds = {}
  /\ pipe = <<>> /\ buffer = <<>> /\ written = <<>>
  /\ responses = <<>> /\ paired = <<>> /\ bridged = <<>>
  /\ closed = FALSE /\ patient \in BOOLEAN

IsRequest(kind) == kind \in {"handshake", "pair", "list", "open"}

-----------------------------------------------------------------------------
(* The client: external.                                                   *)

Awaited == mode = "serving" /\ Len(responses) < Len(written)

(* app frames are meant for the host: only a client that does not wait     *)
(* writes one before it is told that the host is there.                    *)
ClientWrites(f) ==
  /\ ~ closed /\ Len(written) < MaxFrames
  /\ patient => ~ Awaited
  /\ IF IsRequest(f.kind) THEN f.id # NoId ELSE f.id = NoId
  /\ f.kind = "app" => \E i \in DOMAIN written : written[i].kind = "open"
  /\ patient => (f.kind = "app" <=> mode = "bridging")
  /\ pipe' = Append(pipe, f) /\ written' = Append(written, f)
  /\ UNCHANGED <<mode, session, buffer, responses, paired, bridged, closed, patient>>

ClientCloses ==
  /\ ~ closed /\ closed' = TRUE
  /\ UNCHANGED <<mode, session, pipe, buffer, written, responses, paired, bridged, patient>>

-----------------------------------------------------------------------------
(* The slip of a reader that goes on reading after the handover.           *)
FillAlways ==
  /\ mode \in {"serving", "bridging"}
  /\ buffer = <<>> /\ pipe # <<>>
  /\ \E n \in DOMAIN pipe :
       buffer' = SubSeq(pipe, 1, n) /\ pipe' = SubSeq(pipe, n + 1, Len(pipe))
  /\ UNCHANGED <<mode, session, written, responses, paired, bridged, closed, patient>>

(* A read takes what there is in the pipe, or as much as the buffer holds. *)
Fill ==
  /\ mode = "serving"
  /\ buffer = <<>> /\ pipe # <<>>
  /\ \E n \in DOMAIN pipe :
       buffer' = SubSeq(pipe, 1, n) /\ pipe' = SubSeq(pipe, n + 1, Len(pipe))
  /\ UNCHANGED <<mode, session, written, responses, paired, bridged, closed, patient>>

EndOfInput ==
  /\ mode = "serving" /\ closed /\ buffer = <<>> /\ pipe = <<>>
  /\ mode' = "ended"
  /\ UNCHANGED <<session, pipe, buffer, written, responses, paired, bridged, closed, patient>>

-----------------------------------------------------------------------------
(* One turn of run_broker's loop, for the frame at the head of the buffer. *)

Takes(kinds) ==
  /\ mode = "serving"
  /\ buffer # <<>> /\ Head(buffer).kind \in kinds
  /\ buffer' = Tail(buffer)
  /\ UNCHANGED <<pipe, written, bridged, closed, patient>>

Respond(kind, id) == responses' = Append(responses, [kind |-> kind, id |-> id])

(* write_broker_response: a list too long for a frame ends the broker.     *)
RespondHosts(kind, id, hosts) ==
  IF hosts <= HostsThatFit
    THEN Respond(kind, id) /\ UNCHANGED mode
    ELSE mode' = "failed" /\ UNCHANGED responses

FailOversized ==
  /\ Takes({"oversized"})
  /\ mode' = "failed"
  /\ UNCHANGED <<session, responses, paired>>

(* What decode_request refuses is answered without its id.                 *)
RefuseFrame ==
  /\ Takes({"malformed", "app"})
  /\ Respond("error", NoId)
  /\ UNCHANGED <<mode, session, paired>>

(* BrokerSession::accept.                                                  *)
Accepted(f) ==
  /\ f.id \notin requestIds
  /\ (f.kind = "handshake") # initialized

(* The slip of remembering only what has succeeded.                        *)
AcceptsForgetful(f) ==
  /\ requestIds' = requestIds
  /\ initialized' = TRUE

(* The slip of accepting before the handshake.                             *)
AcceptedWithoutHandshake(f) ==
  /\ f.id \notin requestIds
  /\ f.kind = "handshake" => ~ initialized

Accepts(f) ==
  /\ requestIds' = requestIds \cup {f.id}
  /\ initialized' = TRUE

RefuseRequest ==
  /\ Takes({"handshake", "pair", "list", "open"})
  /\ ~ Accepted(Head(buffer))
  /\ Respond("error", Head(buffer).id)
  /\ UNCHANGED <<mode, session, paired>>

(* One accepted request of a kind is taken.                                *)
TakesAccepted(kind) ==
  /\ Takes({kind})
  /\ Accepted(Head(buffer))
  /\ Accepts(Head(buffer))

Handshake ==
  /\ TakesAccepted("handshake")
  /\ Respond("handshake", Head(buffer).id)
  /\ UNCHANGED <<mode, paired>>

ListHosts ==
  /\ TakesAccepted("list")
  /\ \/ \E n \in 0 .. MaxHosts : RespondHosts("hosts", Head(buffer).id, n)
     \/ Respond("error", Head(buffer).id) /\ UNCHANGED mode
  /\ UNCHANGED paired

(* The code is used up, be the host list had afterwards or not.            *)
Pair ==
  /\ TakesAccepted("pair")
  /\ \/ /\ paired' = Append(paired, Head(buffer).id)
        /\ \/ \E n \in 0 .. MaxHosts : RespondHosts("paired", Head(buffer).id, n)
           \/ Respond("error", Head(buffer).id) /\ UNCHANGED mode
     \/ UNCHANGED <<paired, mode>> /\ Respond("error", Head(buffer).id)

(* bridge_stdio reads stdin anew; the reader used so far is not its own.   *)
Open ==
  /\ TakesAccepted("open")
  /\ Respond("ready", Head(buffer).id)
  /\ mode' = "bridging"
  /\ UNCHANGED paired

(* The slip of an error path without a response.                           *)
OpenFailsSilently ==
  /\ TakesAccepted("open")
  /\ UNCHANGED <<mode, responses, paired>>

OpenFails ==
  /\ TakesAccepted("open")
  /\ Respond("error", Head(buffer).id)
  /\ UNCHANGED <<mode, paired>>

(* stdin or stdout is broken: the broker ends, the response is not written.*)
StdioFails ==
  /\ mode = "serving" /\ closed
  /\ mode' = "failed"
  /\ UNCHANGED <<session, pipe, buffer, written, responses, paired, bridged, closed, patient>>

-----------------------------------------------------------------------------
(* bridge_stdio, as far as the client's frames are concerned.              *)

PassOn ==
  /\ mode = "bridging"
  /\ pipe # <<>>
  /\ bridged' = Append(bridged, Head(pipe)) /\ pipe' = Tail(pipe)
  /\ UNCHANGED <<mode, session, buffer, written, responses, paired, closed, patient>>

BridgeEnds ==
  /\ mode = "bridging"
  /\ mode' = IF closed /\ pipe = <<>> THEN "ended" ELSE "failed"
  /\ UNCHANGED <<session, pipe, buffer, written, responses, paired, bridged, closed, patient>>

Serve ==
  \/ FailOversized \/ RefuseFrame \/ RefuseRequest
  \/ Handshake \/ ListHosts \/ Pair \/ Open \/ OpenFails

Next ==
  \/ \E f \in Frames : ClientWrites(f)
  \/ ClientCloses
  \/ Fill \/ EndOfInput \/ Serve \/ StdioFails
  \/ PassOn \/ BridgeEnds

Spec == Init /\ [][Next]_vars

(* The loop awaits each step to its end, and every request has a timeout.  *)
FairSpec == Spec /\ WF_vars(Fill) /\ WF_vars(Serve)

-----------------------------------------------------------------------------
(* Each frame gets one response, in order, under its own id or under none, *)
(* so that a client can tell what it is about even if it does not wait;    *)
(* none but errors before a handshake, and none after the host is ready,   *)
(* when what follows on stdout is the host's.                              *)
ResponsesFollowFrames ==
  /\ Len(responses) <= Len(written)
  /\ \A i \in DOMAIN responses :
       /\ responses[i].id \in {written[i].id, NoId}
       /\ responses[i].kind = "error" \/ responses[i].kind \in
            (CASE written[i].kind = "handshake" -> {"handshake"}
               [] written[i].kind = "pair" -> {"paired"}
               [] written[i].kind = "list" -> {"hosts"}
               [] written[i].kind = "open" -> {"ready"}
               [] OTHER -> {})
       /\ responses[i].kind \in {"error", "handshake"}
            \/ \E j \in 1 .. i - 1 : responses[j].kind = "handshake"
       /\ responses[i].kind = "ready" => i = Len(responses)

(* A pairing is asked for at most once under an id, however often the      *)
(* client repeats the request and whether or not it succeeded (what        *)
(* RelayApi repeats by itself is one call).                                *)
PairedOnce == IsInjective(paired)

(* What a client that awaits its responses writes after the request that   *)
(* opened the host, and only that, goes to the host, in order and without  *)
(* loss.  (A client that does not wait loses what the reader had buffered: *)
(* TLC finds it if "patient" is struck out.)                               *)
BridgeStartsWhereRequestsEnd ==
  patient /\ mode = "bridging" =>
    bridged \o pipe = SubSeq(written, Len(responses) + 1, Len(written))

(* Every frame is answered, unless the broker ends or the bridge starts.   *)
EveryFrameIsAnswered ==
  \A n \in 1 .. MaxFrames : (Len(written) >= n) ~> (Len(responses) >= n \/ mode # "serving")

-----------------------------------------------------------------------------
(* What one might expect, and does not hold: no run checks it.             *)

(* "relay returned more environments than the broker safety limit": a list *)
(* within that limit is answered, and the broker goes on.  TLC refutes it  *)
(* where HostsThatFit < MaxHosts.                                          *)
HostListsAreAnswered ==
  [][(ListHosts \/ Pair) => mode' # "failed"]_vars
=============================================================================
