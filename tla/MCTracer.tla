------------------------------ MODULE MCTracer ------------------------------
(* Small instances of Tracer for TLC.                                      *)
EXTENDS Tracer, TLC

CONSTANTS t1, t2

One == {t1}
Two == {t1, t2}

\* a status function and a create function
Pair == {"clFinish", "clCreateBuffer"}
Finish == {"clFinish"}

Symmetry == Permutations(Two)
=============================================================================
