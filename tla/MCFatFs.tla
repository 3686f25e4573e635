------------------------------ MODULE MCFatFs ------------------------------
(* FatFs.tla for TLC: names are interchangeable. *)
EXTENDS FatFs

Renamings == Permutations(NameSet \ LongNames)
=============================================================================
