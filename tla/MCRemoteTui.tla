----------------------------- MODULE MCRemoteTui -----------------------------
EXTENDS RemoteTui

CONSTANTS h1, h2

TwoHosts == {h1, h2}

(* No host is asked for, or one.                                           *)
OneRequest == {Unspecified, h1}

Entry(h, on, same) == [host |-> h, online |-> on, sameVersion |-> same]

(* The one asked for may be anything but offline with another version; the *)
(* other is there to be chosen or not.                                     *)
SomeEntries ==
  {Entry(h1, TRUE, TRUE), Entry(h1, TRUE, FALSE), Entry(h1, FALSE, TRUE), Entry(h2, TRUE, TRUE)}
=============================================================================
