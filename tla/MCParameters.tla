---------------------------- MODULE MCParameters ----------------------------
EXTENDS Parameters

CONSTANTS t1, t2, t3

ThreeThreads == {t1, t2, t3}
=============================================================================
