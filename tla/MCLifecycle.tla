---------------------------- MODULE MCLifecycle ----------------------------
(* A small instance of Lifecycle for TLC.                                  *)
EXTENDS Lifecycle, TLC

CONSTANTS main, t1, t2

MCThread   == {main, t1, t2}
MCProvided == {2}

Symmetry == Permutations({t1, t2})
=============================================================================
