--------------------------- MODULE MCSegmentation ---------------------------
(* Every length up to beyond the message limit, with every amount of       *)
(* metadata up to beyond what leaves room for a byte, at sizes in the      *)
(* proportions of the code's (100 KiB, 150 KiB, 64 MiB).                   *)
EXTENDS Segmentation

MCLengths == 1 .. MaxMessage + 2
MCMetadata == 0 .. MaxFrame + 1
=============================================================================
