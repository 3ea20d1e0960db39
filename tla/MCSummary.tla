----------------------------- MODULE MCSummary -----------------------------
(* Small instances of Summary for TLC.                                     *)
EXTENDS Summary, TLC

CONSTANTS t1, t2

MCThread   == {t1, t2}
MCDuration == {-1, 0, 1, 2}

Symmetry == Permutations(MCThread)
=============================================================================
