------------------------------- MODULE DlShim -------------------------------
(***************************************************************************)
(* The dynamic-loader shim of ocltrace (ocltrace.c:213-224, 267-354): the  *)
(* interposed dlopen, dlclose and dlsym that every thread of the traced    *)
(* program calls, the list `handles` of libraries they keep, the mutex     *)
(* `lock' around that list, and the part of the destructor fini() that     *)
(* frees it.                                                               *)
(*                                                                         *)
(* A step is one access to shared state: taking the mutex, one node of a   *)
(* LIST_FOREACH walk, or one call into the real loader.  The loader itself *)
(* is external; it is modelled by the references it counts (refs) and by   *)
(* the symbols each library exports.                                       *)
(*                                                                         *)
(* The behaviour starts when init() has returned: init opened OpenCL and   *)
(* ocltrace itself through this very dlopen, and never closes them.        *)
(***************************************************************************)
EXTENDS Integers, FiniteSets, Sequences, SequencesExt

CONSTANTS
  Thread,        \* the threads of the traced program
  Library,       \* what dlopen can load; a library stands for its handle
  Symbol,        \* the names dlsym is asked for
  Ref,           \* dlopen references that can be outstanding at once (a bound)
  Exports,       \* [Library -> SUBSET Symbol]
  Global,        \* libraries in the default lookup scope while they are loaded
  OpenCL,        \* the library of libopencl_handle
  Tracer,        \* ocltrace itself: it exports one wrapper per traced function
  OpenCLRef, TracerRef,  \* the references init() holds for good
  Memory,        \* what the allocator may do: subset of {"ends","wild","nomem"}
  Reopen,        \* libraries the program may dlopen while they are open already
  NoThread, NoLibrary, NoRef, NoSymbol

ASSUME LibraryAssumption ==
  /\ {OpenCL, Tracer} \subseteq Library /\ OpenCL # Tracer
  /\ Exports \in [Library -> SUBSET Symbol]
  /\ Global \subseteq Library
ASSUME RefAssumption ==
  /\ IsFiniteSet(Ref)
  /\ {OpenCLRef, TracerRef} \subseteq Ref /\ OpenCLRef # TracerRef
ASSUME NothingAssumption ==
  /\ NoThread \notin Thread /\ NoLibrary \notin Library
  /\ NoRef \notin Ref /\ NoSymbol \notin Symbol
ASSUME BehaviourAssumption == 
  Memory \subseteq {"ends", "wild", "nomem"} /\ Reopen \subseteq Library

VARIABLES
  lock,      \* the thread that owns the mutex, or NoThread
  handles,   \* the list: handles[i] is the library of the i-th struct handle
  refs,      \* the loader: refs[r] is the library reference r keeps loaded
  pc,        \* where each thread is in the shim
  ref,       \* the reference its call is about (NoRef: dlsym(NULL, name))
  at,        \* the index of the node `h' of its LIST_FOREACH
  sym,       \* the name its dlsym asks for
  found,     \* what its last dlsym returned: the library providing the address
  status     \* of the process: "running", "exiting", "ended" or "crashed"

vars == <<lock, handles, refs, pc, ref, at, sym, found, status>>

Traced  == Exports[Tracer]                 \* func_names
Walking == {"close", "walk", "fini"}       \* inside a LIST_FOREACH
Locked  == Walking \union {"insert", "match", "default"}
Outside == {"idle", "opened", "unlisted", "direct", "last"}
Alive   == status \in {"running", "exiting"}

Loaded(L) == \E r \in Ref : refs[r] = L
Scope     == {L \in Global : Loaded(L)}

TypeOK ==
  /\ lock \in Thread \union {NoThread}
  /\ handles \in Seq(Library)
  /\ refs \in [Ref -> Library \union {NoLibrary}]
  /\ pc \in [Thread -> Locked \union Outside]
  /\ ref \in [Thread -> Ref \union {NoRef}]
  /\ at \in [Thread -> Nat \ {0}]
  /\ sym \in [Thread -> Symbol \union {NoSymbol}]
  /\ found \in [Thread -> Library \union {NoLibrary}]
  /\ status \in {"running", "exiting", "ended", "crashed"}

Init ==
  /\ lock = NoThread
  /\ handles = <<Tracer, OpenCL>>
  /\ refs = [r \in Ref |-> CASE r = OpenCLRef -> OpenCL
                             [] r = TracerRef -> Tracer
                             [] OTHER -> NoLibrary]
  /\ pc = [t \in Thread |-> "idle"]
  /\ ref = [t \in Thread |-> NoRef]
  /\ at = [t \in Thread |-> 1]
  /\ sym = [t \in Thread |-> NoSymbol]
  /\ found = [t \in Thread |-> NoLibrary]
  /\ status = "running"

(***************************************************************************)
(* Building blocks.  A call that would block in pthread_mutex_lock has     *)
(* done nothing yet, so entering the call and taking the mutex is one step.*)
(***************************************************************************)
Goto(t, from, to) == Alive /\ pc[t] = from /\ pc' = [pc EXCEPT ![t] = to]
Acquire(t) == lock = NoThread /\ lock' = t
Release == lock' = NoThread
Forget(t) == ref' = [ref EXCEPT ![t] = NoRef]
More(t) == at[t] <= Len(handles)
Node(t) == handles[at[t]]
Answer(t, L) ==
  /\ found' = [found EXCEPT ![t] = L]
  /\ sym' = [sym EXCEPT ![t] = NoSymbol]

\* Seeded fault: the node is freed and left on the list.
FreeNode_Linked(t) == UNCHANGED <<handles, at, status>>

\* LIST_REMOVE(h, l); free(h); and then LIST_FOREACH reads h->l.le_next from
\* the node just freed.  The memory may still hold the link, may have been
\* cleared (the walk ends early), or may hold anything else (the walk follows
\* a wild pointer).
FreeNode(t) ==
  /\ handles' = RemoveAt(handles, at[t])
  /\ \/ UNCHANGED <<at, status>>
     \/ "ends" \in Memory /\ at' = [at EXCEPT ![t] = Len(handles)] /\ UNCHANGED status
     \/ "wild" \in Memory /\ status' = "crashed" /\ UNCHANGED at

\* The program's side of the contract: it passes a handle it got from dlopen
\* and has not closed, and closes none that another of its threads is using.
Usable == {r \in Ref \ {OpenCLRef, TracerRef} :
             /\ refs[r] # NoLibrary
             /\ \A t \in Thread : ref[t] = r => pc[t] \in {"match", "direct"}}
Closable == {r \in Usable : \A t \in Thread : ref[t] # r}

-----------------------------------------------------------------------------
(* dlopen.  A real dlopen that fails changes nothing and is not a step.    *)

\* Seeded fault: a dlopen that failed is put on the list too (324 dropped).
OpenReal_KeepsFailures(t) == \E r \in Ref, L \in Library \union {NoLibrary} :
  /\ Goto(t, "idle", "opened")
  /\ refs[r] = NoLibrary
  /\ refs' = [refs EXCEPT ![r] = L]
  /\ ref' = [ref EXCEPT ![t] = r]
  /\ UNCHANGED <<lock, handles, at, sym, found, status>>

\* 323: the real dlopen, outside the mutex
OpenReal(t) == \E r \in Ref, L \in Library :
  /\ Goto(t, "idle", "opened")
  /\ refs[r] = NoLibrary
  /\ L \in Reopen \/ ~Loaded(L)
  /\ refs' = [refs EXCEPT ![r] = L]
  /\ ref' = [ref EXCEPT ![t] = r]
  /\ UNCHANGED <<lock, handles, at, sym, found, status>>

\* Seeded fault: the list is written without the mutex.
OpenLock_NoMutex(t) ==
  /\ Goto(t, "opened", "insert")
  /\ UNCHANGED <<lock, handles, refs, ref, at, sym, found, status>>

\* 325: pthread_mutex_lock
OpenLock(t) ==
  /\ Goto(t, "opened", "insert")
  /\ Acquire(t)
  /\ UNCHANGED <<handles, refs, ref, at, sym, found, status>>

\* 326-330: malloc, LIST_INSERT_HEAD, pthread_mutex_unlock
OpenInsert(t) ==
  /\ Goto(t, "insert", "idle")
  /\ handles' = <<refs[ref[t]]>> \o handles
  /\ Release
  /\ Forget(t)
  /\ UNCHANGED <<refs, at, sym, found, status>>

\* 326-328: malloc returned NULL and h->handle is written through it
OpenNoMemory(t) ==
  /\ Goto(t, "insert", "insert")
  /\ "nomem" \in Memory
  /\ status' = "crashed"
  /\ UNCHANGED <<lock, handles, refs, ref, at, sym, found>>

-----------------------------------------------------------------------------
(* dlclose                                                                 *)

\* Seeded fault: the walk starts behind the head of the list.
CloseLock_SkipsHead(t) == \E r \in Closable :
  /\ Goto(t, "idle", "close")
  /\ Acquire(t)
  /\ ref' = [ref EXCEPT ![t] = r]
  /\ at' = [at EXCEPT ![t] = 2]
  /\ UNCHANGED <<handles, refs, sym, found, status>>

\* 337
CloseLock(t) == \E r \in Closable :
  /\ Goto(t, "idle", "close")
  /\ Acquire(t)
  /\ ref' = [ref EXCEPT ![t] = r]
  /\ at' = [at EXCEPT ![t] = 1]
  /\ UNCHANGED <<handles, refs, sym, found, status>>

\* Seeded fault: every node is freed, whatever its handle (346 dropped).
CloseWalk_FreesAll(t) ==
  /\ Goto(t, "close", "close")
  /\ More(t)
  /\ FreeNode(t)
  /\ UNCHANGED <<lock, refs, ref, sym, found>>

\* Seeded fault: after a node of another library the walk starts anew.
CloseWalk_StartsAnew(t) ==
  /\ Goto(t, "close", "close")
  /\ More(t)
  /\ \/ Node(t) = refs[ref[t]] /\ FreeNode(t)
     \/ /\ Node(t) # refs[ref[t]]
        /\ at' = [at EXCEPT ![t] = 1]
        /\ UNCHANGED <<handles, status>>
  /\ UNCHANGED <<lock, refs, ref, sym, found>>

\* 345-350: the walk does not stop at the first node it removes
CloseWalk(t) ==
  /\ Goto(t, "close", "close")
  /\ More(t)
  /\ \/ Node(t) = refs[ref[t]] /\ FreeNode(t)
     \/ /\ Node(t) # refs[ref[t]]
        /\ at' = [at EXCEPT ![t] = @ + 1]
        /\ UNCHANGED <<handles, status>>
  /\ UNCHANGED <<lock, refs, ref, sym, found>>

\* Seeded fault: the walk gives up before the end of the list.
CloseUnlock_Early(t) ==
  /\ Goto(t, "close", "unlisted")
  /\ Release
  /\ UNCHANGED <<handles, refs, ref, at, sym, found, status>>

\* 352
CloseUnlock(t) ==
  /\ Goto(t, "close", "unlisted")
  /\ ~More(t)
  /\ Release
  /\ UNCHANGED <<handles, refs, ref, at, sym, found, status>>

\* 353: the real dlclose, outside the mutex
CloseReal(t) ==
  /\ Goto(t, "unlisted", "idle")
  /\ refs' = [refs EXCEPT ![ref[t]] = NoLibrary]
  /\ Forget(t)
  /\ UNCHANGED <<lock, handles, at, sym, found, status>>

-----------------------------------------------------------------------------
(* dlsym                                                                   *)

\* What the real dlsym(RTLD_DEFAULT, s) returns.  ocltrace was preloaded, so
\* its wrappers come first in the scope.
DefaultLookup(s) ==
  IF s \in Traced THEN {Tracer}
  ELSE LET providers == {L \in Scope : s \in Exports[L]}
       IN  IF providers = {} THEN {NoLibrary} ELSE providers

\* What the real dlsym returns for a handle.
LookupIn(L, s) == IF s \in Exports[L] THEN L ELSE NoLibrary

\* 268, 275: dlsym(NULL, s)
SymNull(t) == \E s \in Symbol :
  /\ Goto(t, "idle", "default")
  /\ Acquire(t)
  /\ sym' = [sym EXCEPT ![t] = s]
  /\ at' = [at EXCEPT ![t] = 1]
  /\ UNCHANGED <<handles, refs, ref, found, status>>

\* 277-281: the default search order first
SymDefault(t) == \E L \in DefaultLookup(sym[t]) :
  /\ pc[t] = "default"
  /\ \/ /\ L # NoLibrary
        /\ Goto(t, "default", "idle")
        /\ Answer(t, L)
        /\ Release
     \/ /\ L = NoLibrary
        /\ Goto(t, "default", "walk")
        /\ UNCHANGED <<lock, sym, found>>
  /\ UNCHANGED <<handles, refs, ref, at, status>>

\* 285-291: one node of the fall-back.  The loader reads the memory behind
\* h->handle, which is gone once the library is.
SymWalk(t) ==
  /\ pc[t] = "walk" /\ More(t)
  /\ \/ /\ ~Loaded(Node(t))
        /\ Goto(t, "walk", "walk")
        /\ status' = "crashed"
        /\ UNCHANGED <<lock, at, sym, found>>
     \/ /\ Loaded(Node(t)) /\ LookupIn(Node(t), sym[t]) # NoLibrary
        /\ Goto(t, "walk", "idle")
        /\ Answer(t, Node(t))
        /\ Release
        /\ UNCHANGED <<at, status>>
     \/ /\ Loaded(Node(t)) /\ LookupIn(Node(t), sym[t]) = NoLibrary
        /\ Goto(t, "walk", "walk")
        /\ at' = [at EXCEPT ![t] = @ + 1]
        /\ UNCHANGED <<lock, sym, found, status>>
  /\ UNCHANGED <<handles, refs, ref>>

\* Seeded fault: a return path that keeps the mutex.
SymWalkEnd_KeepsMutex(t) ==
  /\ Goto(t, "walk", "last")
  /\ ~More(t)
  /\ UNCHANGED <<lock, handles, refs, ref, at, sym, found, status>>

\* 293
SymWalkEnd(t) ==
  /\ Goto(t, "walk", "last")
  /\ ~More(t)
  /\ Release
  /\ UNCHANGED <<handles, refs, ref, at, sym, found, status>>

\* 294: the default search order once more, outside the mutex
SymLast(t) == \E L \in DefaultLookup(sym[t]) :
  /\ Goto(t, "last", "idle")
  /\ Answer(t, L)
  /\ UNCHANGED <<lock, handles, refs, ref, at, status>>

\* 268, 275: dlsym(handle, s)
SymHandle(t) == \E r \in Usable, s \in Symbol :
  /\ Goto(t, "idle", "match")
  /\ Acquire(t)
  /\ ref' = [ref EXCEPT ![t] = r]
  /\ sym' = [sym EXCEPT ![t] = s]
  /\ UNCHANGED <<handles, refs, at, found, status>>

\* Seeded fault: 298 compares the wrong way round.
Intercepts_Others(L, s) == L # OpenCL /\ s \in Traced

\* 298, 305-306: is it a handle of libopencl and a name of func_names?
Intercepts(L, s) == L = OpenCL /\ s \in Traced

\* 298-312
SymMatch(t) ==
  /\ pc[t] = "match"
  /\ Release
  /\ \/ /\ Intercepts(refs[ref[t]], sym[t])
        /\ Goto(t, "match", "idle")
        /\ Answer(t, Tracer)
        /\ Forget(t)
     \/ /\ ~Intercepts(refs[ref[t]], sym[t])
        /\ Goto(t, "match", "direct")
        /\ UNCHANGED <<ref, sym, found>>
  /\ UNCHANGED <<handles, refs, at, status>>

\* 300, 313: the real dlsym, outside the mutex
SymDirect(t) ==
  /\ Goto(t, "direct", "idle")
  /\ Answer(t, LookupIn(refs[ref[t]], sym[t]))
  /\ Forget(t)
  /\ UNCHANGED <<lock, handles, refs, at, status>>

-----------------------------------------------------------------------------
(* fini, run by the one thread that calls exit().  The model ends where    *)
(* fini releases the mutex.                                                *)

\* 218
FiniLock(t) ==
  /\ Goto(t, "idle", "fini")
  /\ status = "running"
  /\ Acquire(t)
  /\ status' = "exiting"
  /\ at' = [at EXCEPT ![t] = 1]
  /\ UNCHANGED <<handles, refs, ref, sym, found>>

\* 220-223
FiniWalk(t) ==
  /\ Goto(t, "fini", "fini")
  /\ More(t)
  /\ FreeNode(t)
  /\ UNCHANGED <<lock, refs, ref, sym, found>>

\* 224
FiniUnlock(t) ==
  /\ Goto(t, "fini", "idle")
  /\ ~More(t)
  /\ Release
  /\ status' = "ended"
  /\ UNCHANGED <<handles, refs, ref, at, sym, found>>

-----------------------------------------------------------------------------
\* The steps of a call that has begun; the program decides when one begins.
Continue(t) ==
  \/ OpenLock(t) \/ OpenInsert(t) \/ OpenNoMemory(t)
  \/ CloseWalk(t) \/ CloseUnlock(t) \/ CloseReal(t)
  \/ SymDefault(t) \/ SymWalk(t) \/ SymWalkEnd(t) \/ SymLast(t)
  \/ SymMatch(t) \/ SymDirect(t)
  \/ FiniWalk(t) \/ FiniUnlock(t)

Call(t) ==
  \/ OpenReal(t) \/ CloseLock(t) \/ SymNull(t) \/ SymHandle(t) \/ FiniLock(t)

Stopped == ~Alive /\ UNCHANGED vars

Next == (\E t \in Thread : Call(t) \/ Continue(t)) \/ Stopped

Spec == Init /\ [][Next]_vars

\* The steps of the owner of the mutex in which it calls no loader: they wait for
\* nobody.
Unhindered(t) ==
  \/ OpenInsert(t) \/ OpenNoMemory(t)
  \/ CloseWalk(t) \/ CloseUnlock(t)
  \/ SymWalkEnd(t) \/ SymMatch(t)
  \/ FiniWalk(t) \/ FiniUnlock(t)

\* 277, 286: the owner is in the real dlsym, which waits for the loader's lock.
\* Nothing says that it returns (module LockOrder).
InLoader(t) == pc[t] = "default" \/ (pc[t] = "walk" /\ More(t))

\* The kernel keeps scheduling every thread.  Nothing says that a mutex is fair,
\* that a call of the loader returns, or that the program makes one.
FairSpec == Spec /\ \A t \in Thread : WF_vars(Unhindered(t))

-----------------------------------------------------------------------------
(* Properties                                                              *)

\* The list never names a library the loader has already unmapped, whatever
\* dlopen, dlclose and the fall-back of dlsym do in other threads and however
\* often a library is open: dlsym at 286 never searches freed memory.
NoStaleHandle == \A i \in 1..Len(handles) : Loaded(handles[i])

\* A thread owns the mutex exactly while it is between a lock and an unlock:
\* none of the return paths of dlsym (278-313), dlopen and dlclose leaves with
\* it, and none touches the list without it.
LockDiscipline == \A t \in Thread : lock = t <=> pc[t] \in Locked

\* When the fall-back gives up on a node it never has to come back to it: no
\* node it has passed offers the name, although other threads open libraries
\* and insert in front of the node it stands on.
SearchMissesNothing ==
  \A t \in Thread : pc[t] = "walk" =>
    \A i \in 1..(at[t] - 1) : i <= Len(handles) /\ sym[t] \notin Exports[handles[i]]

\* Before the real dlclose runs (353) no node of that library is left, unless
\* a dlopen of the same library, which keeps it loaded, came in between.
UnlistedBeforeUnload ==
  \A t \in Thread : pc[t] = "unlisted" =>
    \A i \in 1..Len(handles) : handles[i] = refs[ref[t]] =>
      \E r \in Ref \ {ref[t]} : refs[r] = refs[ref[t]]

\* The fall-back of dlsym is commented "iterating over all dlopened libraries"
\* (283): a library whose dlopen has returned and whose dlclose has not begun
\* is on the list whenever no walk is under way, provided it is never opened
\* twice: dlclose (345) removes every node of the library at the first of two
\* closes.  The opening and closing of other libraries does not matter.
OpenIsListed ==
  (Alive /\ lock = NoThread) => \A r \in Ref :
    (refs[r] \notin Reopen \union {NoLibrary} /\ \A t \in Thread : ref[t] # r)
      => \E i \in 1..Len(handles) : handles[i] = refs[r]

\* dlsym never hands out the real function behind a wrapper to a program that
\* asks the default scope or libopencl for it (275-281, 298-308).
Intercepted ==
  [][\A t \in Thread :
       /\ pc[t] \in {"default", "walk", "last", "match", "direct"} /\ pc'[t] = "idle"
       /\ sym[t] \in Traced /\ (ref[t] = NoRef \/ refs[ref[t]] = OpenCL)
       => found'[t] = Tracer]_vars

\* The shim implements the abstract registry: a library joins the list only
\* while it is loaded and leaves it before it is unloaded.
R == INSTANCE Registry WITH
       Resident <- {OpenCL, Tracer},
       loaded   <- {L \in Library : Loaded(L)},
       listed   <- ToSet(handles)
ImplementsRegistry == R!Spec

\* Whoever takes the mutex gives it back, or the process dies, or one call of
\* the real dlsym under the mutex (277, 286) never returns: no walk is endless
\* although some remove nodes as they go, and none asks the loader for ever.
LockReleased == \A t \in Thread :
  \/ []<>(lock # t \/ ~Alive)
  \/ \E n \in 1..Cardinality(Ref) : <>[](InLoader(t) /\ at[t] = n)

\* Once fini has begun the process gets past it, on to the summary (232).
FiniCompletes == status = "exiting" ~> status = "ended"
=============================================================================
