----------------------------- MODULE MCTreeBin -----------------------------
(* Constants of the model-checking run of TreeBin.                         *)
EXTENDS TreeBin, TLC

SameChunk == Permutations(Chunk)
=============================================================================
