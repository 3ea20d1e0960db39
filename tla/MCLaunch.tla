------------------------------ MODULE MCLaunch ------------------------------
(* A small instance of Launch for TLC.                                     *)
EXTENDS Launch

CONSTANTS p1, p2, file1, file2, lib

MCProcess == {p1, p2}
MCFile    == {file1, file2}
MCLibrary == {lib}
=============================================================================
