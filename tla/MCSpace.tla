------------------------------ MODULE MCSpace ------------------------------
(* Constants of the model-checking runs of Space.                          *)
EXTENDS Observers

CONSTANTS t1, t2

OneThread == {t1}
TwoThreads == {t1, t2}
SameThread == Permutations(Threads)
ThreeGranules == 1 .. 3
FourGranules == 1 .. 4
=============================================================================
