------------------------------ MODULE Registry ------------------------------
(***************************************************************************)
(* What the shim's list of handles promises, without threads, mutex,       *)
(* references or nodes: the list is a set of libraries, each of which is   *)
(* loaded for as long as it is on the list.  A library is listed only      *)
(* while it is loaded, and unloaded only while it is not listed.           *)
(***************************************************************************)
CONSTANTS Library, Resident  \* Resident: loaded by init() for good

VARIABLES loaded, listed

rvars == <<loaded, listed>>

Init == loaded = Resident /\ listed = Resident

\* the real dlopen, ocltrace.c:323
Load(L) ==
  /\ L \notin loaded
  /\ loaded' = loaded \union {L}
  /\ UNCHANGED listed

\* LIST_INSERT_HEAD, ocltrace.c:329
List(L) ==
  /\ L \in loaded
  /\ listed' = listed \union {L}
  /\ UNCHANGED loaded

\* LIST_REMOVE, ocltrace.c:221 and 347
Unlist(L) ==
  /\ listed' = listed \ {L}
  /\ UNCHANGED loaded

\* the real dlclose of the last reference, ocltrace.c:353
Unload(L) ==
  /\ L \in loaded \ (listed \union Resident)
  /\ loaded' = loaded \ {L}
  /\ UNCHANGED listed

Next == \E L \in Library : Load(L) \/ List(L) \/ Unlist(L) \/ Unload(L)

Spec == Init /\ [][Next]_rvars
=============================================================================
