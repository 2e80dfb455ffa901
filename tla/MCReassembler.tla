--------------------------- MODULE MCReassembler ---------------------------
(* Every segment over a small grid of keys, ids, counts, sizes and chunks, *)
(* one step beyond each limit included.                                    *)
EXTENDS Reassembler, TLC

Chunks ==
  [len : 0 .. MaxChunk + 1, data : {"text"}] \cup [len : {1}, data : {"noise"}]

MCSegments ==
  [key : Keys, id : 0 .. MaxSegments, count : 1 .. MaxSegments + 1,
   size : {0} \cup 2 .. MaxMessageBytes + 1, chunk : Chunks]

(* "text" chunks make an object, anything containing "noise" does not.     *)
MCObjects ==
  UNION {[Ids(n) -> [len : 1 .. MaxChunk, data : {"text"}]] : n \in 2 .. MaxSegments}

KeySymmetry == Permutations(Keys)
=============================================================================
