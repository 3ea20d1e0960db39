-------------------------- MODULE LockOrderProofs --------------------------
(***************************************************************************)
(* Theorems about LockOrder: the mutex of the shim is never held in        *)
(* library code, and it and the loader's lock are in each other's way only *)
(* through dlsym(NULL, name).  They hold for any set of threads and any    *)
(* depth of nesting.                                                       *)
(***************************************************************************)
EXTENDS LockOrder, SequenceTheorems, TLAPS

\* Only library code calls the shim again: everything below the top of a stack
\* is a constructor or destructor being run.
Nested == \A t \in Thread : \A i \in 1..(Len(stack[t]) - 1) : stack[t][i] \in InLibrary

\* The owner of the mutex is the thread whose innermost call is between a lock
\* and an unlock.
MutexOwned == \A t \in Thread : lock = t <=> Top(t) \in InMutex

\* The loader's lock excludes.
LoaderOwned == \A t, u \in Thread : UsesLoader(t) /\ UsesLoader(u) => t = u

Inv == TypeOK /\ Nested /\ MutexOwned /\ LoaderOwned

-----------------------------------------------------------------------------
(* The stack                                                               *)

LEMMA Replaced ==
  ASSUME NEW s \in Seq(Place), s # <<>>, NEW x \in Place
  PROVE  LET r == Front(s) \o <<x>> IN
         /\ r \in Seq(Place) /\ r # <<>> /\ Len(r) = Len(s) /\ Len(s) \in Nat \ {0}
         /\ Last(r) = x /\ r[Len(s)] = x
         /\ \A i \in 1..(Len(s) - 1) : r[i] = s[i]
BY DEF Front, Last

LEMMA Popped ==
  ASSUME NEW s \in Seq(Place), s # <<>>
  PROVE  LET r == Front(s) IN
         /\ r \in Seq(Place) /\ Len(r) = Len(s) - 1 /\ Len(s) \in Nat \ {0}
         /\ \A i \in 1..(Len(s) - 1) : r[i] = s[i]
         /\ r # <<>> => Len(s) - 1 > 0 /\ Last(r) = s[Len(s) - 1]
<1>1. Len(s) \in Nat \ {0} /\ Front(s) \in Seq(Place) /\ Len(Front(s)) = Len(s) - 1
      /\ \A i \in 1..(Len(s) - 1) : Front(s)[i] = s[i]
  <2>. DEFINE n == Len(s) - 1
  <2>1. n \in Nat /\ Len(s) = n + 1 /\ \A i \in 1..n : s[i] \in Place
    BY LenProperties
  <2>2. /\ SubSeq(s, 1, n) \in Seq(Place)
        /\ Len(SubSeq(s, 1, n)) = IF 1 <= n THEN n - 1 + 1 ELSE 0
        /\ \A i \in 1..(n - 1 + 1) : SubSeq(s, 1, n)[i] = s[1 + i - 1]
    BY <2>1, SubSeqProperties
  <2>3. Front(s) = SubSeq(s, 1, n)
    BY DEF Front
  <2>. HIDE DEF n
  <2>4. \A i \in 1..n : i \in 1..(n - 1 + 1) /\ 1 + i - 1 = i
    BY <2>1
  <2>5. (IF 1 <= n THEN n - 1 + 1 ELSE 0) = n
    BY <2>1
  <2>6. Front(s) \in Seq(Place) /\ Len(Front(s)) = n /\ \A i \in 1..n : Front(s)[i] = s[i]
    BY <2>2, <2>3, <2>4, <2>5
  <2>. QED
    BY <2>1, <2>6 DEF n
<1>2. Front(s) # <<>> => Len(Front(s)) > 0
  BY <1>1
<1>. QED
  BY <1>1, <1>2 DEF Last

LEMMA Pushed ==
  ASSUME NEW s \in Seq(Place), NEW x \in Place
  PROVE  LET r == Append(s, x) IN
         /\ r \in Seq(Place) /\ r # <<>> /\ Len(r) = Len(s) + 1 /\ Len(s) \in Nat
         /\ Last(r) = x /\ r[Len(r)] = x
         /\ \A i \in 1..Len(s) : r[i] = s[i]
         /\ s # <<>> => Len(s) > 0 /\ Last(s) = s[Len(s)]
BY DEF Last

LEMMA PlaceNames ==
  /\ "none" \notin Place /\ InLibrary \subseteq Place
  /\ InLibrary \intersect InMutex = {}
  /\ Entry \subseteq Place /\ Entry \intersect (InMutex \union InLoader) = {}
BY DEF Place, InLibrary, InLoader, InMutex, WantsMutex, WantsLoader, Entry

\* UsesLoader in terms of positions
LEMMA Uses ==
  ASSUME TypeOK, NEW t \in Thread
  PROVE  UsesLoader(t) <=> \E i \in 1..Len(stack[t]) : stack[t][i] \in InLoader
BY DEF TypeOK, UsesLoader
-----------------------------------------------------------------------------
(* The three kinds of steps                                                *)

\* A step from one place to another in the same call, which takes or releases
\* the mutex exactly when the places say so, and the loader's lock only if free.
Sound(t, from, to) ==
  /\ to \in Place
  /\ \/ (from \in InMutex <=> to \in InMutex) /\ UNCHANGED lock
     \/ from \notin InMutex /\ to \in InMutex /\ Acquire(t)
     \/ from \in InMutex /\ to \notin InMutex /\ Release
  /\ to \in InLoader => from \in InLoader \/ LoaderFree(t)

LEMMA MoveStep ==
  ASSUME Inv, NEW t \in Thread, NEW from \in Place, NEW to, Move(t, from, to), Sound(t, from, to)
  PROVE  Inv'
<1>. DEFINE s == stack[t]
            r == Front(s) \o <<to>>
<1>1. /\ s = stack[t] /\ s \in Seq(Place) /\ s # <<>> /\ to \in Place /\ Last(s) = from /\ from = s[Len(s)]
      /\ stack' = [stack EXCEPT ![t] = r] /\ stack \in [Thread -> Seq(Place)]
  BY PlaceNames DEF Inv, TypeOK, Move, Top, Sound, Last
<1>2. /\ r \in Seq(Place) /\ r # <<>> /\ Len(r) = Len(s) /\ Len(s) \in Nat \ {0}
      /\ Last(r) = to /\ r[Len(s)] = to
      /\ \A i \in 1..(Len(s) - 1) : r[i] = s[i]
  BY <1>1, Replaced
<1>3. /\ stack' \in [Thread -> Seq(Place)] /\ stack'[t] = r
      /\ \A u \in Thread \ {t} : stack'[u] = stack[u]
  BY <1>1, <1>2
<1>. HIDE DEF s, r
<1>4. TypeOK'
  BY <1>3 DEF Inv, TypeOK, Sound, Acquire, Release
<1>5. Nested'
  <2>1. \A i \in 1..(Len(r) - 1) : r[i] \in InLibrary
    BY <1>1, <1>2 DEF Inv, Nested
  <2>. QED
    BY <1>3, <2>1 DEF Inv, Nested
<1>6. MutexOwned'
  <2>1. Top(t) = from /\ Top(t)' = to /\ \A u \in Thread \ {t} : Top(u)' = Top(u)
    BY <1>1, <1>2, <1>3 DEF Top
  <2>2. \A u \in Thread : lock = u <=> Top(u) \in InMutex
    BY DEF Inv, MutexOwned
  <2>. QED
    BY <2>1, <2>2, NestingAssumption DEF MutexOwned, Sound, Acquire, Release
<1>7. LoaderOwned'
  <2>1. \A u \in Thread \ {t} : UsesLoader(u)' = UsesLoader(u)
    BY <1>3 DEF UsesLoader
  <2>2. UsesLoader(t)' => UsesLoader(t) \/ LoaderFree(t)
    <3>1. UsesLoader(t)' <=> \E i \in 1..Len(r) : r[i] \in InLoader
      BY <1>2, <1>3 DEF UsesLoader
    <3>2. UsesLoader(t) <=> \E i \in 1..Len(s) : s[i] \in InLoader
      BY <1>1 DEF UsesLoader
    <3>. QED
      BY <1>1, <1>2, <3>1, <3>2 DEF Sound
  <2>. QED
    BY <2>1, <2>2 DEF Inv, LoaderOwned, LoaderFree
<1>. QED
  BY <1>4, <1>5, <1>6, <1>7 DEF Inv

\* The innermost call returns, with the mutex released.
LEMMA ReturnStep ==
  ASSUME Inv, NEW t \in Thread, NEW from \in Place, Return(t, from),
         IF from \in InMutex THEN Release ELSE UNCHANGED lock
  PROVE  Inv'
<1>. DEFINE s == stack[t]
            r == Front(s)
<1>1. /\ s = stack[t] /\ s \in Seq(Place) /\ s # <<>> /\ Last(s) = from /\ from = s[Len(s)]
      /\ stack' = [stack EXCEPT ![t] = r] /\ stack \in [Thread -> Seq(Place)]
  BY PlaceNames DEF Inv, TypeOK, Return, Top, Last
<1>2. /\ r \in Seq(Place) /\ Len(r) = Len(s) - 1 /\ Len(s) \in Nat \ {0}
      /\ \A i \in 1..(Len(s) - 1) : r[i] = s[i]
      /\ r # <<>> => Len(s) - 1 > 0 /\ Last(r) = s[Len(s) - 1]
  BY <1>1, Popped
<1>3. /\ stack' \in [Thread -> Seq(Place)] /\ stack'[t] = r
      /\ \A u \in Thread \ {t} : stack'[u] = stack[u]
  BY <1>1, <1>2
<1>. HIDE DEF s, r
<1>4. TypeOK'
  BY <1>3 DEF Inv, TypeOK, Release
<1>5. Nested'
  <2>1. \A i \in 1..(Len(r) - 1) : r[i] \in InLibrary
    BY <1>1, <1>2 DEF Inv, Nested
  <2>. QED
    BY <1>3, <2>1 DEF Inv, Nested
<1>6. MutexOwned'
  <2>1. Top(t) = from /\ \A u \in Thread \ {t} : Top(u)' = Top(u)
    BY <1>1, <1>3 DEF Top
  <2>2. Top(t)' \notin InMutex
    <3>1. r # <<>> => Last(r) \in InLibrary
      BY <1>1, <1>2 DEF Inv, Nested
    <3>2. Top(t)' = IF r = <<>> THEN "none" ELSE Last(r)
      BY <1>3 DEF Top
    <3>. QED
      BY <3>1, <3>2, PlaceNames DEF InMutex
  <2>3. \A u \in Thread : lock = u <=> Top(u) \in InMutex
    BY DEF Inv, MutexOwned
  <2>. QED
    BY <2>1, <2>2, <2>3, NestingAssumption DEF MutexOwned, Release
<1>7. LoaderOwned'
  <2>1. \A u \in Thread \ {t} : UsesLoader(u)' = UsesLoader(u)
    BY <1>3 DEF UsesLoader
  <2>2. UsesLoader(t)' => UsesLoader(t)
    BY <1>1, <1>2, <1>3 DEF UsesLoader
  <2>. QED
    BY <2>1, <2>2 DEF Inv, LoaderOwned
<1>. QED
  BY <1>4, <1>5, <1>6, <1>7 DEF Inv

LEMMA BeginStep ==
  ASSUME Inv, NEW t \in Thread, Begin(t)
  PROVE  Inv'
<1>1. PICK call \in Entry : /\ Top(t) \in {"none"} \union InLibrary
                            /\ stack' = [stack EXCEPT ![t] = Append(@, call)]
                            /\ UNCHANGED lock
  BY DEF Begin
<1>. DEFINE s == stack[t]
            r == Append(s, call)
<1>2. s \in Seq(Place) /\ call \in Place /\ stack \in [Thread -> Seq(Place)]
  BY PlaceNames DEF Inv, TypeOK
<1>3. /\ r \in Seq(Place) /\ r # <<>> /\ Len(r) = Len(s) + 1 /\ Len(s) \in Nat
      /\ Last(r) = call /\ r[Len(r)] = call
      /\ \A i \in 1..Len(s) : r[i] = s[i]
      /\ s # <<>> => Len(s) > 0 /\ Last(s) = s[Len(s)]
  BY <1>2, Pushed
<1>4. /\ stack' \in [Thread -> Seq(Place)] /\ stack'[t] = r
      /\ \A u \in Thread \ {t} : stack'[u] = stack[u]
  BY <1>1, <1>2, <1>3
<1>5. TypeOK'
  BY <1>1, <1>4 DEF Inv, TypeOK
<1>6. Nested'
  <2>1. s # <<>> => s[Len(s)] \in InLibrary
    BY <1>1, <1>3, PlaceNames DEF Top, InLibrary
  <2>2. \A i \in 1..Len(s) : s[i] \in InLibrary
    BY <1>2, <1>3, <2>1 DEF Inv, Nested
  <2>3. \A i \in 1..(Len(r) - 1) : r[i] \in InLibrary
    BY <1>3, <2>2
  <2>. QED
    BY <1>4, <2>3 DEF Inv, Nested
<1>7. MutexOwned'
  <2>1. Top(t)' = call /\ \A u \in Thread \ {t} : Top(u)' = Top(u)
    BY <1>3, <1>4 DEF Top
  <2>2. Top(t) \notin InMutex /\ call \notin InMutex
    BY <1>1, PlaceNames DEF InMutex, InLibrary
  <2>. QED
    BY <1>1, <2>1, <2>2 DEF Inv, MutexOwned
<1>8. LoaderOwned'
  <2>1. \A u \in Thread \ {t} : UsesLoader(u)' = UsesLoader(u)
    BY <1>4 DEF UsesLoader
  <2>2. UsesLoader(t)' => UsesLoader(t)
    <3>1. UsesLoader(t)' <=> \E i \in 1..Len(r) : r[i] \in InLoader
      BY <1>3, <1>4 DEF UsesLoader
    <3>2. UsesLoader(t) <=> \E i \in 1..Len(s) : s[i] \in InLoader
      BY <1>2 DEF UsesLoader
    <3>. QED
      BY <1>3, <3>1, <3>2, PlaceNames
  <2>. QED
    BY <2>1, <2>2 DEF Inv, LoaderOwned
<1>. QED
  BY <1>5, <1>6, <1>7, <1>8 DEF Inv

-----------------------------------------------------------------------------
(* The inductive invariant                                                 *)

LEMMA Initially == Init => Inv
<1>. SUFFICES ASSUME Init PROVE Inv
  OBVIOUS
<1>1. \A t \in Thread : stack[t] = <<>> /\ Len(stack[t]) = 0
  BY DEF Init
<1>. QED
  BY <1>1, NestingAssumption
  DEF Init, Inv, TypeOK, Nested, MutexOwned, LoaderOwned, Top, UsesLoader, InMutex

\* Every step of a call that has begun is a sound move or a return.
LEMMA Continuing ==
  ASSUME Inv, NEW t \in Thread, Continue(t)
  PROVE  Inv'
<1>. USE DEF Place, InLibrary, InLoader, InMutex, WantsMutex, WantsLoader
<1>1. CASE OpenEnter(t)
  BY <1>1, MoveStep DEF OpenEnter, Sound
<1>2. CASE OpenLeave(t)
  BY <1>2, MoveStep DEF OpenLeave, Sound
<1>3. CASE OpenFail(t)
  BY <1>3, ReturnStep DEF OpenFail
<1>4. CASE OpenLock(t)
  BY <1>4, MoveStep DEF OpenLock, Sound
<1>5. CASE OpenUnlock(t)
  BY <1>5, ReturnStep DEF OpenUnlock
<1>6. CASE CloseLock(t)
  BY <1>6, MoveStep DEF CloseLock, Sound
<1>7. CASE CloseUnlock(t)
  BY <1>7, MoveStep DEF CloseUnlock, Sound
<1>8. CASE CloseEnter(t)
  BY <1>8, MoveStep DEF CloseEnter, Sound
<1>9. CASE CloseLeave(t)
  BY <1>9, ReturnStep DEF CloseLeave
<1>10. CASE NullLock(t)
  BY <1>10, MoveStep DEF NullLock, Sound
<1>11. CASE NullSearch(t)
  BY <1>11, MoveStep DEF NullSearch, Sound
<1>12. CASE NullFound(t)
  BY <1>12, MoveStep DEF NullFound, Sound
<1>13. CASE NullReturn(t)
  BY <1>13, ReturnStep DEF NullReturn
<1>14. CASE NullMissed(t)
  BY <1>14, MoveStep DEF NullMissed, Sound
<1>15. CASE HandleLock(t)
  BY <1>15, MoveStep DEF HandleLock, Sound
<1>16. CASE HandlePass(t)
  BY <1>16, MoveStep DEF HandlePass, Sound
<1>17. CASE HandleIntercept(t)
  BY <1>17, ReturnStep DEF HandleIntercept
<1>18. CASE DirectLookup(t)
  BY <1>18, MoveStep DEF DirectLookup, Sound
<1>19. CASE DirectReturn(t)
  BY <1>19, ReturnStep DEF DirectReturn
<1>. QED
  BY <1>1, <1>2, <1>3, <1>4, <1>5, <1>6, <1>7, <1>8, <1>9, <1>10, <1>11, <1>12,
     <1>13, <1>14, <1>15, <1>16, <1>17, <1>18, <1>19 DEF Continue

LEMMA Stuttering ==
  ASSUME Inv, UNCHANGED vars
  PROVE  Inv'
BY DEF vars, Inv, TypeOK, Nested, MutexOwned, LoaderOwned, Top, UsesLoader

LEMMA Invariance == Spec => []Inv
<1>1. Inv /\ [Next]_vars => Inv'
  BY BeginStep, Continuing, Stuttering DEF Next
<1>. QED
  BY Initially, <1>1, PTL DEF Spec

-----------------------------------------------------------------------------
(* The theorems                                                            *)

\* The stacks hold places of the shim, and the mutex a thread.
THEOREM LockOrderTypeCorrect == Spec => []TypeOK
<1>1. Inv => TypeOK
  BY DEF Inv
<1>. QED
  BY Invariance, <1>1, PTL

\* No thread runs a constructor or a destructor with the mutex, so the shim call
\* that library code makes never waits for its own thread (323, 353).
THEOREM NoSelfDeadlockHolds == Spec => []NoSelfDeadlock
<1>1. Inv => NoSelfDeadlock
  <2>. SUFFICES ASSUME Inv, NEW t \in Thread, lock = t, NEW i \in DOMAIN stack[t]
                PROVE  stack[t][i] \in InMutex <=> i = Len(stack[t])
    BY DEF NoSelfDeadlock
  <2>1. stack[t] \in Seq(Place) /\ i \in 1..Len(stack[t])
    BY DEF Inv, TypeOK
  <2>2. Last(stack[t]) \in InMutex /\ Last(stack[t]) = stack[t][Len(stack[t])]
    BY <2>1 DEF Inv, MutexOwned, Top, InMutex, Last
  <2>3. i # Len(stack[t]) => stack[t][i] \in InLibrary
    BY <2>1 DEF Inv, Nested
  <2>. QED
    BY <2>2, <2>3, PlaceNames
<1>. QED
  BY Invariance, <1>1, PTL

\* The mutex and the loader's lock block each other only between a thread in
\* dlsym(NULL, name) and one whose library code has called the shim (277, 286).
THEOREM DeadlockNeedsNullLookupHolds == Spec => []DeadlockNeedsNullLookup
<1>1. Inv => DeadlockNeedsNullLookup
  <2>. SUFFICES ASSUME Inv, NEW t \in Thread, NEW u \in Thread, Deadlocked(t, u)
                PROVE  /\ t # u /\ Top(t) = "default"
                       /\ Top(u) \in WantsMutex
                       /\ \E i \in DOMAIN stack[u] : stack[u][i] \in InLibrary
    BY DEF DeadlockNeedsNullLookup
  <2>1. Top(t) \in InMutex
    BY DEF Deadlocked, Inv, MutexOwned
  <2>2. Top(t) = "default" /\ ~LoaderFree(t)
    BY <2>1 DEF Deadlocked, Waits, InMutex, WantsMutex, WantsLoader
  <2>3. LoaderFree(u)
    BY DEF Deadlocked, Inv, LoaderOwned, LoaderFree
  <2>4. t # u
    BY <2>2, <2>3
  <2>5. Top(u) \in WantsMutex
    BY <2>3 DEF Deadlocked, Waits
  <2>6. \E i \in DOMAIN stack[u] : stack[u][i] \in InLibrary
    <3>1. stack[u] \in Seq(Place)
      BY DEF Inv, TypeOK
    <3>2. PICK i \in 1..Len(stack[u]) : stack[u][i] \in InLoader
      BY Uses DEF Deadlocked, Inv
    <3>3. stack[u][Len(stack[u])] \notin InLoader
      BY <2>5, <3>1 DEF Top, Last, WantsMutex, InLoader, InLibrary
    <3>4. i \in 1..(Len(stack[u]) - 1)
      BY <3>1, <3>2, <3>3
    <3>. QED
      BY <3>1, <3>4 DEF Inv, Nested
  <2>. QED
    BY <2>2, <2>4, <2>5, <2>6
<1>. QED
  BY Invariance, <1>1, PTL
=============================================================================
