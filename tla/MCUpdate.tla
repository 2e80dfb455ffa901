------------------------------ MODULE MCUpdate ------------------------------
EXTENDS Update, TLC

(* The processes are interchangeable: nothing tells them apart.            *)
ProcSymmetry == Permutations(Procs)

(* The first version is installed, the second may or may not fit, and the  *)
(* third is any kind of release.                                           *)
MixedCatalogs ==
  {<<"fits", "fits", k>> : k \in Kinds} \cup {<<"fits", "unsupported", "fits">>}

GoodCatalog == {<<"fits", "fits">>}
=============================================================================
