--------------------------- MODULE StreamDelivery ---------------------------
(***************************************************************************)
(* What the transport promises the local Codex client, however the relay   *)
(* behaves: on one stream the host's messages arrive in the order the host *)
(* sent them, each once, none skipped after the first that arrives and     *)
(* none from a stream the client has left.  The promise is of safety only: *)
(* a bridge that cannot keep it goes down instead.                         *)
(***************************************************************************)
EXTENDS Naturals, Sequences, FiniteSets

CONSTANT ServerMessages   \* records with fields stream, seq and a content

VARIABLES
  stream,      \* the stream the client is on
  sent,        \* every message the host has sent, of any stream
  delivered,   \* what the client has been given, in order
  up           \* the bridge is running

vars == <<stream, sent, delivered, up>>

Elements(q) == {q[i] : i \in DOMAIN q}

Init ==
  /\ stream = 0
  /\ sent = <<>>
  /\ delivered = <<>>
  /\ up = TRUE

(* The host numbers the messages of a stream from 1.                       *)
Send(m) ==
  /\ sent' = Append(sent, m)
  /\ m.seq = 1 + Cardinality({i \in DOMAIN sent : sent[i].stream = m.stream})
  /\ UNCHANGED <<stream, delivered, up>>

(* The client starts over: it takes a stream nobody has used.              *)
Reopen ==
  /\ up
  /\ stream' = stream + 1
  /\ UNCHANGED <<sent, delivered, up>>

IsFirst == \A d \in Elements(delivered) : d.stream # stream

Follows(m) ==
  LET d == delivered[Len(delivered)] IN d.stream = m.stream /\ m.seq = d.seq + 1

Deliver(m) ==
  /\ up
  /\ m.stream = stream
  /\ IsFirst \/ Follows(m)
  /\ delivered' = Append(delivered, m)
  /\ UNCHANGED <<stream, sent, up>>

GoDown ==
  /\ up
  /\ up' = FALSE
  /\ UNCHANGED <<stream, sent, delivered>>

Next ==
  \/ \E m \in ServerMessages : Send(m)
  \/ \E m \in Elements(sent) : Deliver(m)
  \/ Reopen
  \/ GoDown

Spec == Init /\ [][Next]_vars
=============================================================================
