------------------------------- MODULE MCRelay -------------------------------
(***************************************************************************)
(* RelayTransport in three kinds of surroundings.                          *)
(***************************************************************************)
EXTENDS RelayTransport

(* A relay that delivers frames in any order and any number of times, and  *)
(* a host that only notifies, in one segment or two ...                    *)
Reordered ==
  [freedoms |-> {"reordering"}, localKinds |-> {"initialize", "request"},
   serverKinds |-> {"notification"}, parts |-> {1, 2}, maxLocal |-> 2, maxServer |-> 4]

(* ... or one that delivers them in order but may repeat them, and a host  *)
(* that answers the requests in any order and makes requests of its own.   *)
Conversing ==
  [freedoms |-> {"repeating", "reply order"}, localKinds |-> AllLocalKinds,
   serverKinds |-> {"result", "error", "request"}, parts |-> {1}, maxLocal |-> 3, maxServer |-> 3]

AnyRelay == {Reordered, Conversing}

(* A relay and a host that keep to their order.                            *)
Orderly ==
  {[freedoms |-> {}, localKinds |-> {"initialize", "request", "notification", "close"},
    serverKinds |-> {"result", "error", "garbled"}, parts |-> {1, 2}, maxLocal |-> 2, maxServer |-> 3]}

(* The same, when each side makes requests of the other.                   *)
BothRequesting ==
  {[freedoms |-> {}, localKinds |-> {"request"}, serverKinds |-> {"result", "error", "request"},
    parts |-> {1}, maxLocal |-> 3, maxServer |-> 3]}
=============================================================================
