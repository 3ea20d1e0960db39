------------------------------- MODULE Tables -------------------------------
(***************************************************************************)
(* Tables, as the program and its headers have them in pieces: functions   *)
(* from names, and several of them as one.                                 *)
(***************************************************************************)

\* the same entry for each of the names
All(entry, names) == [name \in names |-> entry]

\* several tables as one
Merge(tables) == [name \in UNION {DOMAIN table : table \in tables} |->
                    (CHOOSE table \in tables : name \in DOMAIN table)[name]]
=============================================================================
