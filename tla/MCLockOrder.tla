---------------------------- MODULE MCLockOrder ----------------------------
(* A small instance of LockOrder for TLC.                                  *)
EXTENDS LockOrder, TLC

CONSTANTS t1, t2, t3

Three == {t1, t2, t3}
Symmetry == Permutations(Three)
=============================================================================
