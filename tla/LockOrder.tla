----------------------------- MODULE LockOrder -----------------------------
(***************************************************************************)
(* The two locks of the dynamic-loader shim: the mutex `lock' of           *)
(* ocltrace.c and the loader's own lock.  DlShim takes the real loader     *)
(* calls as single steps.  Here they take time, as the loader keeps its    *)
(* lock while dlopen and dlclose run the constructors and destructors of   *)
(* the library, and those may call dlopen, dlclose and dlsym again, which  *)
(* is the shim.  The mutex is not recursive; the loader's lock is.         *)
(*                                                                         *)
(* The loader is external.  A thread's stack holds the shim calls it is    *)
(* in, the innermost last, each by the place it has reached.               *)
(***************************************************************************)
EXTENDS Naturals, Sequences, SequencesExt

CONSTANTS
  Thread, NoThread,
  MaxDepth    \* bound: shim calls nested in one another

ASSUME NestingAssumption == NoThread \notin Thread /\ MaxDepth \in Nat \ {0}

VARIABLES lock, stack

vars == <<lock, stack>>

\* Places, by what the thread holds there.
InLibrary == {"constructors", "destructors"}       \* library code, run by the loader
InLoader  == InLibrary \union {"search", "lookup"}
InMutex   == {"insert", "unlisting", "default", "search", "answered", "missed", "match"}
\* Places where the next step needs the mutex, or the loader's lock.
WantsMutex  == {"opened", "close", "null", "handle"}
WantsLoader == {"open", "unlisted", "default", "direct"}
Entry == {"open", "close", "null", "handle"}
Place == InLoader \union InMutex \union WantsMutex \union WantsLoader

TypeOK ==
  /\ lock \in Thread \union {NoThread}
  /\ stack \in [Thread -> Seq(Place)]

Init == lock = NoThread /\ stack = [t \in Thread |-> <<>>]

Top(t) == IF stack[t] = <<>> THEN "none" ELSE Last(stack[t])
Move(t, from, to) == Top(t) = from /\ stack' = [stack EXCEPT ![t] = Front(@) \o <<to>>]

\* Seeded fault: a call that returns leaves its entry behind.
Return_Unpopped(t, from) == Top(t) = from /\ stack' = [stack EXCEPT ![t] = Front(@) \o <<"none">>]
Return(t, from) == Top(t) = from /\ stack' = [stack EXCEPT ![t] = Front(@)]

Acquire(t) == lock = NoThread /\ lock' = t  \* pthread_mutex_lock
Release == lock' = NoThread

\* The loader's lock is taken by going to a place of InLoader; the thread may
\* have it already.
UsesLoader(t) == \E i \in DOMAIN stack[t] : stack[t][i] \in InLoader
LoaderFree(t) == \A u \in Thread \ {t} : ~UsesLoader(u)

-----------------------------------------------------------------------------
\* The program, or a constructor or destructor, calls the shim.
Begin(t) == \E call \in Entry :
  /\ Top(t) \in {"none"} \union InLibrary
  /\ Len(stack[t]) < MaxDepth
  /\ stack' = [stack EXCEPT ![t] = Append(@, call)]
  /\ UNCHANGED lock

\* Seeded fault: dlopen takes the mutex before it calls the real dlopen.
OpenEnter_UnderMutex(t) == Move(t, "open", "constructors") /\ LoaderFree(t) /\ Acquire(t)

\* dlopen, 323: the real dlopen
OpenEnter(t) == Move(t, "open", "constructors") /\ LoaderFree(t) /\ UNCHANGED lock
OpenLeave(t) == Move(t, "constructors", "opened") /\ UNCHANGED lock
\* 324: a dlopen that fails runs no constructor and is not listed
OpenFail(t) == Return(t, "open") /\ LoaderFree(t) /\ UNCHANGED lock
\* 325
OpenLock(t) == Move(t, "opened", "insert") /\ Acquire(t)
\* 330
OpenUnlock(t) == Return(t, "insert") /\ Release

\* dlclose, 337
CloseLock(t) == Move(t, "close", "unlisting") /\ Acquire(t)
\* Seeded fault: dlclose calls the real dlclose before it releases the mutex.
CloseUnlock_Late(t) == Move(t, "unlisting", "unlisted") /\ UNCHANGED lock
\* 352
CloseUnlock(t) == Move(t, "unlisting", "unlisted") /\ Release
\* 353: the real dlclose
CloseEnter(t) == Move(t, "unlisted", "destructors") /\ LoaderFree(t) /\ UNCHANGED lock
CloseLeave(t) == Return(t, "destructors") /\ UNCHANGED lock

\* dlsym(NULL, name), 268
NullLock(t) == Move(t, "null", "default") /\ Acquire(t)
\* 277 and 286: the real dlsym, under the mutex
NullSearch(t) == Move(t, "default", "search") /\ LoaderFree(t) /\ UNCHANGED lock
\* the name was found (278, 287), or there are libraries left to ask (285), or not
NullFound(t) == \E to \in {"answered", "default", "missed"} :
  Move(t, "search", to) /\ UNCHANGED lock
\* 279, 288
NullReturn(t) == Return(t, "answered") /\ Release
\* 293
NullMissed(t) == Move(t, "missed", "direct") /\ Release

\* dlsym(handle, name), 268
HandleLock(t) == Move(t, "handle", "match") /\ Acquire(t)
\* 299, 312
HandlePass(t) == Move(t, "match", "direct") /\ Release
\* 307
HandleIntercept(t) == Return(t, "match") /\ Release

\* 294, 300, 313: the real dlsym, after the mutex is released
DirectLookup(t) == Move(t, "direct", "lookup") /\ LoaderFree(t) /\ UNCHANGED lock
DirectReturn(t) == Return(t, "lookup") /\ UNCHANGED lock

Continue(t) ==
  \/ OpenEnter(t) \/ OpenLeave(t) \/ OpenFail(t) \/ OpenLock(t) \/ OpenUnlock(t)
  \/ CloseLock(t) \/ CloseUnlock(t) \/ CloseEnter(t) \/ CloseLeave(t)
  \/ NullLock(t) \/ NullSearch(t) \/ NullFound(t) \/ NullReturn(t) \/ NullMissed(t)
  \/ HandleLock(t) \/ HandlePass(t) \/ HandleIntercept(t)
  \/ DirectLookup(t) \/ DirectReturn(t)

Next == \E t \in Thread : Begin(t) \/ Continue(t)

Spec == Init /\ [][Next]_vars

-----------------------------------------------------------------------------
(* Properties                                                              *)

\* No thread is in library code while it owns the mutex, so a constructor or
\* destructor that calls the shim never waits for its own thread: every real
\* dlopen and dlclose is outside the lock and unlock pairs (323, 353).
NoSelfDeadlock == \A t \in Thread :
  lock = t => \A i \in DOMAIN stack[t] : stack[t][i] \in InMutex <=> i = Len(stack[t])

\* What holds thread t up: another owner of the mutex, or of the loader's lock.
Waits(t) == \/ Top(t) \in WantsMutex /\ lock # NoThread
            \/ Top(t) \in WantsLoader /\ ~LoaderFree(t)

\* Thread t keeps the mutex and u the loader's lock, and neither can go on.
Deadlocked(t, u) == lock = t /\ Waits(t) /\ UsesLoader(u) /\ Waits(u)

\* Threads that hold the two locks wait for each other only if one is inside
\* dlsym(NULL, name), which calls the loader under the mutex (277, 286), and the
\* other inside library code, run by the loader, that has called the shim again.
\* dlopen, dlclose and dlsym(handle, name) meet in no other deadlock.
DeadlockNeedsNullLookup == \A t, u \in Thread : Deadlocked(t, u) =>
  /\ t # u /\ Top(t) = "default"
  /\ Top(u) \in WantsMutex /\ \E i \in DOMAIN stack[u] : stack[u][i] \in InLibrary
=============================================================================
