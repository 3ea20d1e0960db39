---------------------------- MODULE DlShimProofs ----------------------------
(***************************************************************************)
(* Proofs about DlShim, for every set of threads, libraries and names and  *)
(* every finite bound on outstanding references.                           *)
(***************************************************************************)
EXTENDS DlShim, FiniteSetTheorems, SequenceTheorems, TLAPS

-----------------------------------------------------------------------------
(* The inductive invariant, in named parts.                                *)

Using  == {"opened", "insert", "close", "unlisted", "match", "direct"}
Owning == {"opened", "insert", "close", "unlisted"}

\* A call that needs a reference has a live one, and a call that creates or
\* drops a reference shares it with nobody.
RefsOwned ==
  \A t \in Thread :
    /\ pc[t] \in Using => ref[t] \in Ref /\ refs[ref[t]] \in Library
    /\ pc[t] \notin Using => ref[t] = NoRef
    /\ pc[t] \in Owning => \A u \in Thread : u # t => ref[u] # ref[t]

-----------------------------------------------------------------------------
(* LIST_REMOVE on a sequence                                               *)

\* Removing the node at i leaves the others in their order.
LEMMA RemoveAtProperties ==
  ASSUME NEW S, NEW s \in Seq(S), NEW i \in 1..Len(s)
  PROVE  /\ RemoveAt(s, i) \in Seq(S)
         /\ Len(RemoveAt(s, i)) = Len(s) - 1
         /\ \A j \in 1..(Len(s) - 1) :
              RemoveAt(s, i)[j] = IF j < i THEN s[j] ELSE s[j + 1]
<1> DEFINE a == SubSeq(s, 1, i - 1)
           b == SubSeq(s, i + 1, Len(s))
<1>1. /\ Len(s) \in Nat /\ \A j \in 1..Len(s) : s[j] \in S
  BY LenProperties
<1>2. /\ a \in Seq(S) /\ Len(a) = i - 1
      /\ \A j \in 1..(i - 1) : a[j] = s[j]
  BY <1>1, SubSeqProperties
<1>3. /\ b \in Seq(S) /\ Len(b) = Len(s) - i
      /\ \A j \in 1..(Len(s) - i) : b[j] = s[i + j]
  BY <1>1, SubSeqProperties
<1>4. /\ a \o b \in Seq(S) /\ Len(a \o b) = Len(a) + Len(b)
      /\ \A j \in 1..(Len(a) + Len(b)) :
           (a \o b)[j] = IF j <= Len(a) THEN a[j] ELSE b[j - Len(a)]
  <2> HIDE DEF a, b
  <2> QED BY <1>2, <1>3, ConcatProperties
<1>5. RemoveAt(s, i) = a \o b
  BY DEF RemoveAt
<1> HIDE DEF a, b
<1>6. ASSUME NEW j \in 1..(Len(s) - 1)
      PROVE  (a \o b)[j] = IF j < i THEN s[j] ELSE s[j + 1]
  <2>1. CASE j < i
    BY <2>1, <1>1, <1>2, <1>3, <1>4
  <2>2. CASE ~(j < i)
    <3>1. (a \o b)[j] = b[j - Len(a)] /\ j - Len(a) \in 1..(Len(s) - i)
      BY <2>2, <1>1, <1>2, <1>3, <1>4
    <3>2. b[j - Len(a)] = s[i + (j - Len(a))] /\ i + (j - Len(a)) = j + 1
      BY <3>1, <1>1, <1>2, <1>3
    <3> QED BY <3>1, <3>2, <2>2
  <2> QED BY <2>1, <2>2
<1> QED BY <1>1, <1>2, <1>3, <1>4, <1>5, <1>6

-----------------------------------------------------------------------------
(* Types, and who owns which reference                                     *)

\* What freeing a node leaves behind.
LEMMA FreeNodeType ==
  ASSUME TypeOK, NEW t \in Thread, More(t), FreeNode(t)
  PROVE  /\ handles' \in Seq(Library)
         /\ Len(handles') = Len(handles) - 1
         /\ \A j \in 1..Len(handles') :
              handles'[j] = IF j < at[t] THEN handles[j] ELSE handles[j + 1]
         /\ at' \in [Thread -> Nat \ {0}]
         /\ at' = at \/ at' = [at EXCEPT ![t] = Len(handles)]
         /\ status' \in {status, "crashed"}
<1>1. handles \in Seq(Library) /\ at[t] \in 1..Len(handles) /\ Len(handles) \in Nat \ {0}
  BY LenProperties DEF TypeOK, More
<1>2. handles' = RemoveAt(handles, at[t])
  BY DEF FreeNode
<1>3. /\ handles' \in Seq(Library) /\ Len(handles') = Len(handles) - 1
      /\ \A j \in 1..(Len(handles) - 1) :
           handles'[j] = IF j < at[t] THEN handles[j] ELSE handles[j + 1]
  BY <1>1, <1>2, RemoveAtProperties
<1>4. at' \in [Thread -> Nat \ {0}] /\ status' \in {status, "crashed"}
  BY <1>1 DEF FreeNode, TypeOK
<1>5. at' = at \/ at' = [at EXCEPT ![t] = Len(handles)]
  BY DEF FreeNode
<1> QED BY <1>3, <1>4, <1>5

\* What the loader may answer is a library or nothing.
LEMMA LookupType ==
  ASSUME TypeOK
  PROVE  /\ \A s : DefaultLookup(s) \subseteq Library \union {NoLibrary}
         /\ \A s : \A L \in Library : LookupIn(L, s) \in Library \union {NoLibrary}
BY LibraryAssumption DEF DefaultLookup, LookupIn, Scope

\* Every step keeps the types and the ownership of references.
LEMMA TypeStep ==
  ASSUME TypeOK, RefsOwned, [Next]_vars
  PROVE  TypeOK' /\ RefsOwned'
<1> USE DEF TypeOK, RefsOwned, Goto, Acquire, Release, Forget, Answer, Using,
            Owning, Locked, Walking, Outside
<1>1. CASE UNCHANGED vars
  BY <1>1 DEF vars
<1>2. CASE Stopped
  BY <1>2 DEF vars, Stopped
<1>3. ASSUME NEW t \in Thread, Call(t) \/ Continue(t) PROVE TypeOK' /\ RefsOwned'
  <2>1. CASE OpenReal(t)
    BY <2>1, NothingAssumption DEF OpenReal
  <2>2. CASE OpenLock(t)
    BY <2>2 DEF OpenLock
  <2>3. CASE OpenInsert(t)
    <3>1. refs[ref[t]] \in Library
      BY <2>3 DEF OpenInsert
    <3>2. <<refs[ref[t]]>> \o handles \in Seq(Library)
      BY <3>1, ConcatProperties
    <3> QED BY <2>3, <3>2, NothingAssumption DEF OpenInsert
  <2>4. CASE OpenNoMemory(t)
    BY <2>4 DEF OpenNoMemory
  <2>5. CASE CloseLock(t)
    BY <2>5 DEF CloseLock, Closable, Usable
  <2>6. CASE CloseWalk(t)
    <3>1. CASE FreeNode(t)
      BY <2>6, <3>1, FreeNodeType DEF CloseWalk
    <3>2. CASE ~FreeNode(t)
      BY <2>6, <3>2 DEF CloseWalk
    <3> QED BY <3>1, <3>2
  <2>7. CASE CloseUnlock(t)
    BY <2>7 DEF CloseUnlock
  <2>8. CASE CloseReal(t)
    BY <2>8, NothingAssumption DEF CloseReal
  <2>9. CASE SymNull(t)
    BY <2>9 DEF SymNull
  <2>10. CASE SymDefault(t)
    <3>1. PICK L \in DefaultLookup(sym[t]) :
            /\ pc[t] = "default"
            /\ \/ L # NoLibrary /\ Goto(t, "default", "idle") /\ Answer(t, L) /\ Release
               \/ L = NoLibrary /\ Goto(t, "default", "walk") /\ UNCHANGED <<lock, sym, found>>
            /\ UNCHANGED <<handles, refs, ref, at, status>>
      BY <2>10 DEF SymDefault
    <3>2. L \in Library \union {NoLibrary}
      BY LookupType
    <3>3. CASE Goto(t, "default", "idle") /\ Answer(t, L) /\ Release
      BY <3>1, <3>2, <3>3
    <3>4. CASE Goto(t, "default", "walk") /\ UNCHANGED <<lock, sym, found>>
      BY <3>1, <3>4
    <3> QED BY <3>1, <3>3, <3>4
  <2>11. CASE SymWalk(t)
    <3>1. Node(t) \in Library
      BY <2>11, LenProperties DEF SymWalk, More, Node
    <3>2. CASE Goto(t, "walk", "idle") /\ Answer(t, Node(t)) /\ UNCHANGED <<at, status>>
      BY <2>11, <3>1, <3>2 DEF SymWalk
    <3>3. CASE Goto(t, "walk", "walk") /\ at' = at /\ status' = "crashed"
               /\ UNCHANGED <<lock, sym, found>>
      BY <2>11, <3>3 DEF SymWalk
    <3>4. CASE Goto(t, "walk", "walk") /\ at' = [at EXCEPT ![t] = @ + 1]
               /\ UNCHANGED <<lock, sym, found, status>>
      BY <2>11, <3>4 DEF SymWalk
    <3> QED BY <2>11, <3>2, <3>3, <3>4 DEF SymWalk
  <2>12. CASE SymWalkEnd(t)
    BY <2>12 DEF SymWalkEnd
  <2>13. CASE SymLast(t)
    BY <2>13, LookupType DEF SymLast
  <2>14. CASE SymHandle(t)
    BY <2>14 DEF SymHandle, Usable
  <2>15. CASE SymMatch(t)
    <3>1. CASE Goto(t, "match", "idle") /\ Answer(t, Tracer) /\ Forget(t)
      BY <2>15, <3>1, LibraryAssumption, NothingAssumption DEF SymMatch
    <3>2. CASE Goto(t, "match", "direct") /\ UNCHANGED <<ref, sym, found>>
      BY <2>15, <3>2 DEF SymMatch
    <3> QED BY <2>15, <3>1, <3>2 DEF SymMatch
  <2>16. CASE SymDirect(t)
    <3>1. LookupIn(refs[ref[t]], sym[t]) \in Library \union {NoLibrary}
      BY <2>16, LookupType DEF SymDirect
    <3> QED BY <2>16, <3>1, NothingAssumption DEF SymDirect
  <2>17. CASE FiniLock(t)
    BY <2>17 DEF FiniLock
  <2>18. CASE FiniWalk(t)
    BY <2>18, FreeNodeType DEF FiniWalk
  <2>19. CASE FiniUnlock(t)
    BY <2>19 DEF FiniUnlock
  <2> QED BY <1>3, <2>1, <2>2, <2>3, <2>4, <2>5, <2>6, <2>7, <2>8, <2>9, <2>10,
             <2>11, <2>12, <2>13, <2>14, <2>15, <2>16, <2>17, <2>18, <2>19
             DEF Call, Continue
<1> QED BY <1>1, <1>2, <1>3 DEF Next

LEMMA TypeInit == Init => TypeOK /\ RefsOwned
BY LibraryAssumption DEF Init, TypeOK, RefsOwned, Locked, Walking, Outside,
                         Using, Owning

\* The type invariant of the shim: in particular the list holds only handles
\* that a successful dlopen returned.
THEOREM TypeCorrect == Spec => [](TypeOK /\ RefsOwned)
BY TypeInit, TypeStep, PTL DEF Spec

-----------------------------------------------------------------------------
(* Mutual exclusion                                                        *)

\* Every step leaves the mutex with exactly the thread inside the locked part.
LEMMA LockStep ==
  ASSUME TypeOK, LockDiscipline, [Next]_vars
  PROVE  LockDiscipline'
<1> USE NothingAssumption DEF TypeOK, LockDiscipline, Goto, Acquire, Release,
                              Locked, Walking, Outside
<1>1. CASE UNCHANGED vars
  BY <1>1 DEF vars
<1>2. CASE Stopped
  BY <1>2 DEF vars, Stopped
<1>3. ASSUME NEW t \in Thread, Call(t) PROVE LockDiscipline'
  BY <1>3 DEF Call, OpenReal, CloseLock, SymNull, SymHandle, FiniLock
<1>4. ASSUME NEW t \in Thread, Continue(t) PROVE LockDiscipline'
  <2>1. CASE OpenLock(t) \/ OpenInsert(t) \/ OpenNoMemory(t)
    BY <2>1 DEF OpenLock, OpenInsert, OpenNoMemory
  <2>2. CASE CloseWalk(t) \/ CloseUnlock(t) \/ CloseReal(t)
    BY <2>2 DEF CloseWalk, CloseUnlock, CloseReal
  <2>3. CASE SymDefault(t) \/ SymWalk(t) \/ SymWalkEnd(t) \/ SymLast(t)
    BY <2>3 DEF SymDefault, SymWalk, SymWalkEnd, SymLast
  <2>4. CASE SymMatch(t) \/ SymDirect(t)
    BY <2>4 DEF SymMatch, SymDirect
  <2>5. CASE FiniWalk(t) \/ FiniUnlock(t)
    BY <2>5 DEF FiniWalk, FiniUnlock
  <2> QED BY <1>4, <2>1, <2>2, <2>3, <2>4, <2>5 DEF Continue
<1> QED BY <1>1, <1>2, <1>3, <1>4 DEF Next

\* No return path of dlopen, dlclose, dlsym or fini leaves with the mutex, and
\* none touches the list without it.
THEOREM LockDisciplineHolds == Spec => []LockDiscipline
<1>1. Init => LockDiscipline
  BY NothingAssumption DEF Init, LockDiscipline, Locked, Walking
<1>2. TypeOK /\ LockDiscipline /\ [Next]_vars => LockDiscipline'
  BY LockStep
<1> QED BY <1>1, <1>2, TypeCorrect, PTL DEF Spec

-----------------------------------------------------------------------------
(* The fall-back search                                                    *)

\* A step of another thread leaves the list alone while t holds the mutex.
LEMMA ListIsStable ==
  ASSUME TypeOK, LockDiscipline, [Next]_vars,
         NEW t \in Thread, pc[t] \in Locked,
         NEW u \in Thread, u # t, Call(u) \/ Continue(u)
  PROVE  UNCHANGED <<handles, at[t], pc[t], sym[t], ref[t]>>
<1>1. lock = t /\ pc[u] \notin Locked /\ lock # NoThread
  BY NothingAssumption DEF LockDiscipline, TypeOK
<1> USE <1>1 DEF TypeOK, Goto, Locked, Walking, Outside
<1>2. CASE Call(u)
  BY <1>2 DEF Call, OpenReal, CloseLock, SymNull, SymHandle, FiniLock, Acquire
<1>3. CASE Continue(u)
  BY <1>3 DEF Continue, OpenLock, OpenInsert, OpenNoMemory, CloseWalk, CloseUnlock,
      CloseReal, SymDefault, SymWalk, SymWalkEnd, SymLast, SymMatch, SymDirect,
      FiniWalk, FiniUnlock, Acquire, Answer, Forget
<1> QED BY <1>2, <1>3

\* Every walk of the fall-back starts at the head of the list.
StartsAtHead == \A t \in Thread : pc[t] = "default" => at[t] = 1

\* Every step keeps the passed part of a search free of the name.
LEMMA SearchStep ==
  ASSUME TypeOK, LockDiscipline, SearchMissesNothing, StartsAtHead, [Next]_vars
  PROVE  SearchMissesNothing' /\ StartsAtHead'
<1> USE DEF TypeOK, SearchMissesNothing, StartsAtHead, Goto
<1>1. CASE UNCHANGED vars
  BY <1>1 DEF vars
<1>2. CASE Stopped
  BY <1>2 DEF vars, Stopped
<1>3. ASSUME NEW u \in Thread, Call(u) \/ Continue(u)
      PROVE  SearchMissesNothing' /\ StartsAtHead'
  <2> SUFFICES ASSUME NEW t \in Thread
               PROVE  /\ pc'[t] = "walk" => \A i \in 1..(at'[t] - 1) :
                           i <= Len(handles') /\ sym'[t] \notin Exports[handles'[i]]
                      /\ pc'[t] = "default" => at'[t] = 1
    OBVIOUS
  <2>1. CASE t # u
    <3>1. pc'[t] = pc[t]
      BY <1>3, <2>1 DEF Call, Continue, OpenReal, CloseLock, SymNull, SymHandle,
         FiniLock, OpenLock, OpenInsert, OpenNoMemory, CloseWalk, CloseUnlock,
         CloseReal, SymDefault, SymWalk, SymWalkEnd, SymLast, SymMatch, SymDirect,
         FiniWalk, FiniUnlock
    <3>2. CASE pc[t] \in {"walk", "default"}
      <4>1. UNCHANGED <<handles, at[t], pc[t], sym[t], ref[t]>>
        BY <1>3, <2>1, <3>2, ListIsStable DEF Locked, Walking
      <4> QED BY <4>1
    <3> QED BY <3>1, <3>2
  <2>2. CASE t = u /\ Call(u)
    BY <2>2 DEF Call, OpenReal, CloseLock, SymNull, SymHandle, FiniLock
  <2>3. CASE t = u /\ SymDefault(u)
    BY <2>3 DEF SymDefault
  <2>4. CASE t = u /\ SymWalk(u)
    <3>1. Node(t) \in Library /\ Len(handles) \in Nat
      BY <2>4, LenProperties DEF SymWalk, More, Node
    <3>2. CASE pc'[t] # "walk"
      BY <2>4, <3>2 DEF SymWalk
    <3>3. CASE at' = at
      BY <2>4, <3>3 DEF SymWalk
    <3>4. CASE /\ at' = [at EXCEPT ![t] = @ + 1] /\ sym' = sym
               /\ LookupIn(Node(t), sym[t]) = NoLibrary
      <4>1. sym[t] \notin Exports[handles[at[t]]]
        BY <3>1, <3>4, NothingAssumption DEF LookupIn, Node
      <4>2. at'[t] = at[t] + 1 /\ sym'[t] = sym[t] /\ handles' = handles
        BY <2>4, <3>4 DEF SymWalk
      <4> QED BY <2>4, <3>1, <4>1, <4>2 DEF SymWalk, More
    <3> QED BY <2>4, <3>2, <3>3, <3>4 DEF SymWalk
  <2>5. CASE t = u /\ Continue(u) /\ ~SymDefault(u) /\ ~SymWalk(u)
    BY <2>5 DEF Continue, OpenLock, OpenInsert, OpenNoMemory, CloseWalk, CloseUnlock,
       CloseReal, SymWalkEnd, SymLast, SymMatch, SymDirect, FiniWalk, FiniUnlock
  <2> QED BY <1>3, <2>1, <2>2, <2>3, <2>4, <2>5
<1> QED BY <1>1, <1>2, <1>3 DEF Next

\* Whatever other threads open or close during a dlsym(NULL, name), no node
\* the search has passed offers the name.
THEOREM SearchIsSound == Spec => []SearchMissesNothing
<1>1. Init => SearchMissesNothing /\ StartsAtHead
  BY DEF Init, SearchMissesNothing, StartsAtHead
<1>2. TypeOK /\ LockDiscipline /\ SearchMissesNothing /\ StartsAtHead /\ [Next]_vars
        => SearchMissesNothing' /\ StartsAtHead'
  BY SearchStep
<1> QED BY <1>1, <1>2, TypeCorrect, LockDisciplineHolds, PTL DEF Spec

-----------------------------------------------------------------------------
(* Counting nodes                                                          *)

Positions(s, L) == {i \in 1..Len(s) : s[i] = L}

LEMMA PositionsFinite ==
  ASSUME NEW S, NEW s \in Seq(S), NEW L
  PROVE  IsFiniteSet(Positions(s, L)) /\ Cardinality(Positions(s, L)) \in Nat
<1>1. IsFiniteSet(1..Len(s))
  BY LenProperties, FS_Interval
<1>2. Positions(s, L) \in SUBSET (1..Len(s))
  BY DEF Positions
<1> QED BY <1>1, <1>2, FS_Subset, FS_CardinalityType

\* Removing a node loses its own position and gains none.
LEMMA PositionsRemove ==
  ASSUME NEW S, NEW s \in Seq(S), NEW i \in 1..Len(s), NEW L
  PROVE  Cardinality(Positions(RemoveAt(s, i), L)) <= Cardinality(Positions(s, L) \ {i})
<1> DEFINE new == Positions(RemoveAt(s, i), L)
           old == Positions(s, L) \ {i}
           f == [j \in new |-> IF j < i THEN j ELSE j + 1]
<1>1. /\ Len(s) \in Nat /\ Len(RemoveAt(s, i)) = Len(s) - 1
      /\ \A j \in 1..(Len(s) - 1) :
           RemoveAt(s, i)[j] = IF j < i THEN s[j] ELSE s[j + 1]
  BY RemoveAtProperties, LenProperties
<1>2. ASSUME NEW j \in new PROVE f[j] \in old
  <2>1. CASE j < i
    BY <1>1, <2>1 DEF Positions
  <2>2. CASE ~(j < i)
    BY <1>1, <2>2 DEF Positions
  <2> QED BY <2>1, <2>2
<1>3. \A j, k \in new : f[j] = f[k] => j = k
  BY <1>1 DEF Positions
<1>4. f \in Injection(new, old)
  <2> HIDE DEF new, old
  <2> QED BY <1>2, <1>3 DEF Injection, IsInjective
<1>5. IsFiniteSet(old)
  BY PositionsFinite, FS_RemoveElement
<1> HIDE DEF new, old, f
<1>6. Cardinality(new) <= Cardinality(old)
  BY <1>4, <1>5, FS_Injection
<1> QED BY <1>6 DEF new, old

\* Inserting at the head adds at most the one position of the new node.
LEMMA PositionsInsert ==
  ASSUME NEW S, NEW s \in Seq(S), NEW K \in S, NEW L
  PROVE  Cardinality(Positions(<<K>> \o s, L))
           <= Cardinality(Positions(s, L)) + (IF K = L THEN 1 ELSE 0)
<1> DEFINE new  == Positions(<<K>> \o s, L)
           tail == new \ {1}
           old  == Positions(s, L)
           f    == [j \in tail |-> j - 1]
<1>1. /\ Len(s) \in Nat /\ Len(<<K>> \o s) = Len(s) + 1 /\ <<K>> \o s \in Seq(S)
      /\ (<<K>> \o s)[1] = K
      /\ \A j \in 2..(Len(s) + 1) : (<<K>> \o s)[j] = s[j - 1]
  BY LenProperties, ConcatProperties
<1>2. f \in Injection(tail, old)
  <2>1. \A j \in tail : f[j] \in old
    BY <1>1 DEF Positions
  <2>2. \A j, k \in tail : f[j] = f[k] => j = k
    BY <1>1 DEF Positions
  <2> HIDE DEF tail, old
  <2> QED BY <2>1, <2>2 DEF Injection, IsInjective
<1>3. IsFiniteSet(old) /\ Cardinality(old) \in Nat /\ IsFiniteSet(new)
  BY <1>1, PositionsFinite
<1>4. Cardinality(tail) <= Cardinality(old)
  <2> HIDE DEF tail, old, f
  <2> QED BY <1>2, <1>3, FS_Injection
<1>5. 1 \in new <=> K = L
  BY <1>1 DEF Positions
<1>6. Cardinality(tail) = IF K = L THEN Cardinality(new) - 1 ELSE Cardinality(new)
  <2> HIDE DEF new
  <2> QED BY <1>3, <1>5, FS_RemoveElement
<1>7. Cardinality(new) \in Nat
  <2> HIDE DEF new
  <2> QED BY <1>3, FS_CardinalityType
<1> HIDE DEF new, tail, old
<1>8. Cardinality(new) <= Cardinality(old) + (IF K = L THEN 1 ELSE 0)
  <2>1. CASE K = L
    BY <2>1, <1>3, <1>4, <1>6, <1>7
  <2>2. CASE K # L
    BY <2>2, <1>3, <1>4, <1>6, <1>7
  <2> QED BY <2>1, <2>2
<1> QED BY <1>8 DEF new, old

-----------------------------------------------------------------------------
(* No library is unloaded while it is on the list                          *)

\* The references to L that can have a node: those whose dlopen has inserted it
\* and whose dlclose has not finished its walk.
Linked(r) == \A t \in Thread : ref[t] = r => pc[t] \notin {"opened", "insert", "unlisted"}
Backing(L) == {r \in Ref : refs[r] = L /\ Linked(r)}

Nodes(L) == Positions(handles, L)

\* A library never has more nodes than references.  (It can have fewer: one
\* dlclose removes the nodes of all dlopens of the library.)
Counted == \A L \in Library : Cardinality(Nodes(L)) <= Cardinality(Backing(L))

\* Half-way through its walk, dlclose has freed a node or passed none.
Closing ==
  \A t \in Thread : pc[t] = "close" =>
    \/ Cardinality(Nodes(refs[ref[t]])) < Cardinality(Backing(refs[ref[t]]))
    \/ \A i \in Nodes(refs[ref[t]]) : i >= at[t]

Inv == TypeOK /\ RefsOwned /\ LockDiscipline /\ Counted /\ Closing

LEMMA BackingFinite ==
  ASSUME TypeOK, NEW L
  PROVE  /\ IsFiniteSet(Backing(L)) /\ Cardinality(Backing(L)) \in Nat
         /\ IsFiniteSet(Nodes(L)) /\ Cardinality(Nodes(L)) \in Nat
<1>1. Backing(L) \in SUBSET Ref /\ IsFiniteSet(Ref)
  BY RefAssumption DEF Backing
<1>2. IsFiniteSet(Backing(L)) /\ Cardinality(Backing(L)) \in Nat
  BY <1>1, FS_Subset, FS_CardinalityType
<1>3. handles \in Seq(Library)
  BY DEF TypeOK
<1> QED BY <1>2, <1>3, PositionsFinite DEF Nodes

\* What counting is for: a library with a node has a reference.
LEMMA CountedMeansLoaded ==
  ASSUME TypeOK, Counted
  PROVE  NoStaleHandle
<1> SUFFICES ASSUME NEW i \in 1..Len(handles) PROVE Loaded(handles[i])
  BY DEF NoStaleHandle
<1> DEFINE L == handles[i]
<1>1. L \in Library
  BY LenProperties DEF TypeOK
<1>2. i \in Nodes(L)
  BY DEF Nodes, Positions
<1>3. Cardinality(Nodes(L)) # 0
  BY <1>2, BackingFinite, FS_EmptySet
<1>4. Cardinality(Backing(L)) # 0
  BY <1>1, <1>3, BackingFinite DEF Counted
<1>5. Backing(L) # {}
  BY <1>4, FS_EmptySet
<1> QED BY <1>5 DEF Backing, Loaded

\* Nobody else is inside a walk while u is inside the locked part or takes the
\* mutex.
LEMMA Alone ==
  ASSUME TypeOK, LockDiscipline, NEW t \in Thread, NEW u \in Thread, t # u,
         pc[u] \in Locked \/ lock = NoThread
  PROVE  pc[t] # "close"
BY NothingAssumption DEF LockDiscipline, TypeOK, Locked, Walking

\* The actions that move neither a node nor a reference that can have one.
Quiet(t) ==
  \/ OpenReal(t) \/ OpenLock(t) \/ OpenNoMemory(t) \/ CloseLock(t) \/ CloseReal(t)
  \/ SymNull(t) \/ SymDefault(t) \/ SymWalk(t) \/ SymWalkEnd(t) \/ SymLast(t)
  \/ SymHandle(t) \/ SymMatch(t) \/ SymDirect(t) \/ FiniLock(t) \/ FiniUnlock(t)

LEMMA QuietKeepsBacking ==
  ASSUME TypeOK, RefsOwned, NEW t \in Thread, Quiet(t)
  PROVE  handles' = handles /\ \A L \in Library : Backing(L)' = Backing(L)
<1> USE NothingAssumption DEF TypeOK, RefsOwned, Goto, Linked, Using, Owning, Forget
<1>1. CASE OpenReal(t)
  BY <1>1 DEF OpenReal, Backing
<1>2. CASE OpenLock(t) \/ OpenNoMemory(t)
  BY <1>2 DEF OpenLock, OpenNoMemory, Backing
<1>3. CASE CloseLock(t)
  <2>1. PICK r \in Closable : ref' = [ref EXCEPT ![t] = r]
    BY <1>3 DEF CloseLock
  <2>2. pc[t] = "idle" /\ pc' = [pc EXCEPT ![t] = "close"] /\ refs' = refs /\ handles' = handles
    BY <1>3 DEF CloseLock
  <2>3. \A q \in Ref : Linked(q)' <=> Linked(q)
    BY <2>1, <2>2 DEF Closable, Usable
  <2> HIDE DEF Linked
  <2> QED BY <2>2, <2>3 DEF Backing
<1>4. CASE CloseReal(t)
  BY <1>4 DEF CloseReal, Backing
<1>5. CASE SymNull(t) \/ SymDefault(t) \/ SymWalk(t) \/ SymWalkEnd(t) \/ SymLast(t)
  BY <1>5 DEF SymNull, SymDefault, SymWalk, SymWalkEnd, SymLast, Backing
<1>6. CASE SymHandle(t)
  <2>1. PICK r \in Usable : ref' = [ref EXCEPT ![t] = r]
    BY <1>6 DEF SymHandle
  <2>2. pc[t] = "idle" /\ pc' = [pc EXCEPT ![t] = "match"] /\ refs' = refs /\ handles' = handles
    BY <1>6 DEF SymHandle
  <2>3. \A q \in Ref : Linked(q)' <=> Linked(q)
    BY <2>1, <2>2 DEF Usable
  <2> HIDE DEF Linked
  <2> QED BY <2>2, <2>3 DEF Backing
<1>7. CASE SymMatch(t) \/ SymDirect(t)
  <2>1. /\ pc[t] \in {"match", "direct"} /\ refs' = refs /\ handles' = handles
        /\ \/ pc' = [pc EXCEPT ![t] = "idle"] /\ ref' = [ref EXCEPT ![t] = NoRef]
           \/ pc' = [pc EXCEPT ![t] = "direct"] /\ ref' = ref
    BY <1>7 DEF SymMatch, SymDirect
  <2>2. \A q \in Ref : Linked(q)' <=> Linked(q)
    BY <2>1
  <2> HIDE DEF Linked
  <2> QED BY <2>1, <2>2 DEF Backing
<1>8. CASE FiniLock(t) \/ FiniUnlock(t)
  BY <1>8 DEF FiniLock, FiniUnlock, Backing
<1> QED BY <1>1, <1>2, <1>3, <1>4, <1>5, <1>6, <1>7, <1>8 DEF Quiet

LEMMA FreeNodeCounts ==
  ASSUME TypeOK, NEW t \in Thread, More(t), FreeNode(t), NEW L
  PROVE  /\ Cardinality(Nodes(L)') <= Cardinality(Nodes(L))
         /\ Node(t) = L => Cardinality(Nodes(L)') < Cardinality(Nodes(L))
         /\ Cardinality(Nodes(L)') \in Nat
<1>1. handles \in Seq(Library) /\ at[t] \in 1..Len(handles) /\ handles' = RemoveAt(handles, at[t])
  BY LenProperties DEF TypeOK, More, FreeNode
<1>2. Cardinality(Positions(handles', L)) <= Cardinality(Positions(handles, L) \ {at[t]})
  BY <1>1, PositionsRemove
<1>3. at[t] \in Positions(handles, L) <=> Node(t) = L
  BY <1>1 DEF Positions, Node
<1>4. IsFiniteSet(Positions(handles, L)) /\ Cardinality(Positions(handles, L)) \in Nat
  BY <1>1, PositionsFinite
<1>5. Cardinality(Positions(handles, L) \ {at[t]}) =
        IF Node(t) = L THEN Cardinality(Positions(handles, L)) - 1
        ELSE Cardinality(Positions(handles, L))
  BY <1>3, <1>4, FS_RemoveElement
<1>6. Cardinality(Positions(handles', L)) \in Nat
  BY FreeNodeType, PositionsFinite
<1> QED BY <1>2, <1>4, <1>5, <1>6 DEF Nodes

LEMMA QuietStep ==
  ASSUME Inv, NEW u \in Thread, Quiet(u)
  PROVE  Counted' /\ Closing'
<1> USE DEF Inv
<1>1. handles' = handles /\ \A L \in Library : Backing(L)' = Backing(L)
  BY QuietKeepsBacking
<1>2. \A L : Nodes(L)' = Nodes(L)
  BY <1>1 DEF Nodes
<1>3. Counted'
  BY <1>1, <1>2 DEF Counted
<1>4. ASSUME NEW t \in Thread, pc'[t] = "close"
      PROVE  \/ Cardinality(Nodes(refs[ref[t]])') < Cardinality(Backing(refs[ref[t]])')
             \/ \A i \in Nodes(refs[ref[t]])' : i >= at'[t]
  <2>1. CASE t = u
    <3>1. at'[t] = 1
      BY <1>4, <2>1 DEF TypeOK, Goto, Quiet, OpenReal, OpenLock, OpenNoMemory, CloseLock,
         CloseReal, SymNull, SymDefault, SymWalk, SymWalkEnd, SymLast, SymHandle,
         SymMatch, SymDirect, FiniLock, FiniUnlock
    <3> QED BY <1>1, <3>1 DEF Nodes, Positions
  <2>2. CASE t # u
    <3>1. pc[t] = "close" /\ ref'[t] = ref[t] /\ refs[ref[t]] \in Library
      BY <1>4, <2>2 DEF TypeOK, RefsOwned, Using, Goto, Forget, Quiet, OpenReal, OpenLock,
         OpenNoMemory, CloseLock, CloseReal, SymNull, SymDefault, SymWalk, SymWalkEnd,
         SymLast, SymHandle, SymMatch, SymDirect, FiniLock, FiniUnlock
    <3>2. at'[t] = at[t] /\ refs'[ref[t]] = refs[ref[t]]
      <4>1. ~(pc[u] \in Locked \/ lock = NoThread)
        BY <2>2, <3>1, Alone
      <4>2. CASE OpenReal(u)
        BY <3>1, <4>2, NothingAssumption DEF OpenReal, TypeOK
      <4>3. CASE CloseReal(u)
        BY <2>2, <3>1, <4>3 DEF CloseReal, Goto, TypeOK, RefsOwned, Owning
      <4>4. CASE SymLast(u) \/ SymDirect(u)
        BY <4>4 DEF SymLast, SymDirect
      <4> QED BY <4>1, <4>2, <4>3, <4>4 DEF Quiet, Goto, Acquire, Locked, Walking,
             OpenLock, OpenNoMemory, CloseLock, SymNull, SymDefault, SymWalk,
             SymWalkEnd, SymHandle, SymMatch, FiniLock, FiniUnlock
    <3>3. refs'[ref'[t]] = refs[ref[t]]
      BY <3>1, <3>2
    <3> QED BY <1>1, <1>2, <3>1, <3>2, <3>3 DEF Closing
  <2> QED BY <2>1, <2>2
<1> QED BY <1>3, <1>4 DEF Closing

\* A step inside the mutex by u: nobody else can be walking in dlclose.
LEMMA OthersNotClosing ==
  ASSUME Inv, NEW u \in Thread, pc[u] \in Locked, NEW t \in Thread, t # u,
         pc'[t] = pc[t]
  PROVE  pc'[t] # "close"
BY Alone DEF Inv

LEMMA OpenInsertStep ==
  ASSUME Inv, NEW u \in Thread, OpenInsert(u)
  PROVE  Counted' /\ Closing'
<1> USE DEF Inv
<1>r. PICK r \in Ref, K \in Library : r = ref[u] /\ K = refs[r]
  BY DEF OpenInsert, Goto, RefsOwned, Using
<1>1. /\ pc[u] = "insert" /\ pc' = [pc EXCEPT ![u] = "idle"] /\ refs' = refs
      /\ ref' = [ref EXCEPT ![u] = NoRef] /\ handles' = <<K>> \o handles
  BY <1>r DEF OpenInsert, Goto, Forget
<1>2. ref[u] = r /\ refs[r] = K /\ \A t \in Thread : t # u => ref[t] # r
  BY <1>1, <1>r DEF RefsOwned, Using, Owning
<1>3. \A q \in Ref : q # r => (Linked(q)' <=> Linked(q))
  BY <1>1, <1>2, NothingAssumption DEF Linked, TypeOK
<1>4. ~Linked(r) /\ Linked(r)'
  BY <1>1, <1>2, NothingAssumption DEF Linked, TypeOK
<1>5. ASSUME NEW L \in Library
      PROVE  Cardinality(Nodes(L)') <= Cardinality(Backing(L)')
  <2>1. Cardinality(Nodes(L)') <= Cardinality(Nodes(L)) + (IF K = L THEN 1 ELSE 0)
    BY <1>1, <1>2, PositionsInsert DEF TypeOK, Nodes
  <2>2. Cardinality(Backing(L)') = Cardinality(Backing(L)) + (IF K = L THEN 1 ELSE 0)
    <3>1. CASE K = L
      <4>1. Backing(L)' = Backing(L) \union {r} /\ r \notin Backing(L)
        BY <1>1, <1>2, <1>3, <1>4, <3>1 DEF Backing
      <4> QED BY <3>1, <4>1, BackingFinite, FS_AddElement
    <3>2. CASE K # L
      <4>1. Backing(L)' = Backing(L)
        BY <1>1, <1>2, <1>3, <3>2 DEF Backing
      <4>2. Cardinality(Backing(L)) \in Nat
        BY BackingFinite
      <4> QED BY <3>2, <4>1, <4>2
    <3> QED BY <3>1, <3>2
  <2>3. Cardinality(Nodes(L)) <= Cardinality(Backing(L))
    BY DEF Counted
  <2>4. Cardinality(Nodes(L)) \in Nat /\ Cardinality(Backing(L)) \in Nat
    BY BackingFinite
  <2>5. Cardinality(Nodes(L)') \in Nat
    <3>1. handles' \in Seq(Library)
      BY <1>1, ConcatProperties DEF TypeOK
    <3> QED BY <3>1, PositionsFinite DEF Nodes
  <2>6. CASE K = L
    BY <2>1, <2>2, <2>3, <2>4, <2>5, <2>6
  <2>7. CASE K # L
    BY <2>1, <2>2, <2>3, <2>4, <2>5, <2>7
  <2> QED BY <2>6, <2>7
<1>6. \A t \in Thread : pc'[t] # "close"
  BY <1>1, OthersNotClosing DEF TypeOK, Locked, Walking
<1> QED BY <1>5, <1>6 DEF Counted, Closing

LEMMA CloseWalkStep ==
  ASSUME Inv, NEW u \in Thread, CloseWalk(u)
  PROVE  Counted' /\ Closing'
<1> USE DEF Inv
<1>k. PICK K \in Library : K = refs[ref[u]]
  BY DEF CloseWalk, Goto, RefsOwned, Using
<1>1. /\ pc[u] = "close" /\ pc' = pc /\ refs' = refs /\ ref' = ref /\ More(u)
  BY DEF CloseWalk, Goto, TypeOK, RefsOwned, Using
<1>2. \A L : Backing(L)' = Backing(L)
  BY <1>1 DEF Backing, Linked
<1>3. \A t \in Thread : t # u => pc'[t] # "close"
  BY <1>1, OthersNotClosing DEF Locked, Walking
<1>4. CASE Node(u) = K /\ FreeNode(u)
  <2>1. \A L : Cardinality(Nodes(L)') \in Nat /\ Cardinality(Nodes(L)') <= Cardinality(Nodes(L))
    BY <1>1, <1>4, FreeNodeCounts
  <2>2. Cardinality(Nodes(K)') < Cardinality(Nodes(K))
    BY <1>1, <1>4, FreeNodeCounts
  <2>3. \A L : Cardinality(Nodes(L)) \in Nat /\ Cardinality(Backing(L)) \in Nat
    BY BackingFinite
  <2>4. \A L \in Library : Cardinality(Nodes(L)) <= Cardinality(Backing(L))
    BY DEF Counted
  <2>5. Counted'
    BY <1>2, <2>1, <2>3, <2>4 DEF Counted
  <2>6. Cardinality(Nodes(K)') < Cardinality(Backing(K)')
    BY <1>1, <1>2, <2>1, <2>2, <2>3, <2>4
  <2>7. (refs[ref[u]])' = K
    BY <1>1, <1>k
  <2>8. Closing'
    BY <1>1, <1>3, <2>6, <2>7 DEF Closing
  <2> QED BY <2>5, <2>8
<1>5. CASE /\ Node(u) # K /\ at' = [at EXCEPT ![u] = @ + 1] /\ UNCHANGED <<handles, status>>
  <2>1. \A L : Nodes(L)' = Nodes(L)
    BY <1>5 DEF Nodes
  <2>2. Counted'
    BY <1>2, <2>1 DEF Counted
  <2>3. ASSUME \A i \in Nodes(K) : i >= at[u]
        PROVE  \A i \in Nodes(K) : i >= at'[u]
    BY <1>1, <1>5, <2>3, LenProperties DEF Nodes, Positions, Node, TypeOK
  <2>4. (refs[ref[u]])' = K
    BY <1>1, <1>k
  <2>5. \/ Cardinality(Nodes(K)) < Cardinality(Backing(K))
        \/ \A i \in Nodes(K) : i >= at[u]
    BY <1>1, <1>k DEF Closing
  <2>6. Closing'
    BY <1>1, <1>2, <1>3, <2>1, <2>3, <2>4, <2>5 DEF Closing
  <2> QED BY <2>2, <2>6
<1> QED BY <1>4, <1>5, <1>k DEF CloseWalk

LEMMA CloseUnlockStep ==
  ASSUME Inv, NEW u \in Thread, CloseUnlock(u)
  PROVE  Counted' /\ Closing'
<1> USE DEF Inv
<1>r. PICK r \in Ref, K \in Library : r = ref[u] /\ K = refs[r]
  BY DEF CloseUnlock, Goto, RefsOwned, Using
<1>1. /\ pc[u] = "close" /\ pc' = [pc EXCEPT ![u] = "unlisted"] /\ refs' = refs
      /\ ref' = ref /\ handles' = handles /\ at[u] > Len(handles)
  BY LenProperties DEF CloseUnlock, Goto, More, TypeOK
<1>2. ref[u] = r /\ refs[r] = K /\ \A t \in Thread : t # u => ref[t] # r
  BY <1>1, <1>r DEF RefsOwned, Using, Owning
<1>3. \A q \in Ref : q # r => (Linked(q)' <=> Linked(q))
  BY <1>1, <1>2 DEF Linked, TypeOK
<1>4. Linked(r) /\ ~Linked(r)'
  BY <1>1, <1>2 DEF Linked, TypeOK
<1>5. \A L : Nodes(L)' = Nodes(L)
  BY <1>1 DEF Nodes
<1>6. \/ Cardinality(Nodes(K)) < Cardinality(Backing(K))
      \/ \A i \in Nodes(K) : i >= at[u]
  BY <1>1, <1>r DEF Closing
<1>7. Cardinality(Nodes(K)) < Cardinality(Backing(K))
  <2>1. CASE \A i \in Nodes(K) : i >= at[u]
    <3>1. Nodes(K) = {}
      BY <1>1, <2>1, LenProperties DEF Nodes, Positions, TypeOK
    <3>2. r \in Backing(K)
      BY <1>2, <1>4 DEF Backing
    <3> QED BY <3>1, <3>2, BackingFinite, FS_EmptySet
  <2> QED BY <1>6, <2>1
<1>8. ASSUME NEW L \in Library
      PROVE  Cardinality(Nodes(L)) <= Cardinality(Backing(L)')
  <2>1. Cardinality(Nodes(L)) \in Nat /\ Cardinality(Backing(L)) \in Nat /\ IsFiniteSet(Backing(L))
    BY BackingFinite
  <2>2. CASE L = K
    <3>1. Backing(L)' = Backing(L) \ {r} /\ r \in Backing(L)
      BY <1>1, <1>2, <1>3, <1>4, <2>2 DEF Backing
    <3>2. Cardinality(Backing(L)') = Cardinality(Backing(L)) - 1
      BY <2>1, <3>1, FS_RemoveElement
    <3>3. Cardinality(Nodes(L)) < Cardinality(Backing(L))
      BY <1>7, <2>2
    <3> QED BY <2>1, <3>2, <3>3
  <2>3. CASE L # K
    <3>1. Backing(L)' = Backing(L)
      BY <1>1, <1>2, <1>3, <2>3 DEF Backing
    <3> QED BY <3>1 DEF Counted
  <2> QED BY <2>2, <2>3
<1>9. \A t \in Thread : pc'[t] # "close"
  BY <1>1, OthersNotClosing DEF TypeOK, Locked, Walking
<1> QED BY <1>5, <1>8, <1>9 DEF Counted, Closing

LEMMA FiniWalkStep ==
  ASSUME Inv, NEW u \in Thread, FiniWalk(u)
  PROVE  Counted' /\ Closing'
<1> USE DEF Inv
<1>1. /\ pc[u] = "fini" /\ pc' = pc /\ refs' = refs /\ ref' = ref /\ More(u) /\ FreeNode(u)
  BY DEF FiniWalk, Goto, TypeOK
<1>2. \A L : Backing(L)' = Backing(L)
  BY <1>1 DEF Backing, Linked
<1>3. \A L : Cardinality(Nodes(L)') \in Nat /\ Cardinality(Nodes(L)') <= Cardinality(Nodes(L))
  BY <1>1, FreeNodeCounts
<1>4. \A L : Cardinality(Nodes(L)) \in Nat /\ Cardinality(Backing(L)) \in Nat
  BY BackingFinite
<1>5. \A t \in Thread : pc'[t] # "close"
  BY <1>1, OthersNotClosing DEF Locked, Walking
<1> QED BY <1>2, <1>3, <1>4, <1>5 DEF Counted, Closing

LEMMA CountStep ==
  ASSUME Inv, [Next]_vars
  PROVE  Counted' /\ Closing'
<1>1. CASE UNCHANGED vars
  BY <1>1 DEF vars, Inv, Counted, Closing, Nodes, Backing, Linked
<1>2. CASE Stopped
  BY <1>2 DEF Stopped, vars, Inv, Counted, Closing, Nodes, Backing, Linked
<1>3. ASSUME NEW t \in Thread, Call(t) \/ Continue(t) PROVE Counted' /\ Closing'
  BY <1>3, QuietStep, OpenInsertStep, CloseWalkStep, CloseUnlockStep, FiniWalkStep
     DEF Quiet, Call, Continue
<1> QED BY <1>1, <1>2, <1>3 DEF Next

LEMMA CountInit == Init => Counted /\ Closing
<1> SUFFICES ASSUME Init PROVE Counted
  BY DEF Init, Closing
<1> SUFFICES ASSUME NEW L \in Library
             PROVE  Cardinality(Nodes(L)) <= Cardinality(Backing(L))
  BY DEF Counted
<1>1. TypeOK
  BY TypeInit
<1>2. DEFINE f == [i \in Nodes(L) |-> IF i = 1 THEN TracerRef ELSE OpenCLRef]
<1>3. Nodes(L) \subseteq {1, 2} /\ handles[1] = Tracer /\ handles[2] = OpenCL
  BY DEF Init, Nodes, Positions
<1>4. \A i \in Nodes(L) : f[i] \in Backing(L)
  BY <1>3, LibraryAssumption, RefAssumption, NothingAssumption
     DEF Init, Nodes, Positions, Backing, Linked
<1>5. f \in Injection(Nodes(L), Backing(L))
  BY <1>3, <1>4, RefAssumption DEF Injection, IsInjective
<1> QED BY <1>1, <1>5, BackingFinite, FS_Injection

\* The list never names a library the loader has unmapped: neither a race of
\* dlopen, dlclose and dlsym, nor a library that is opened more often than it
\* is listed, nor a walk cut short, leaves a handle behind.
THEOREM NoStaleHandleHolds == Spec => []NoStaleHandle
<1>1. Init => Inv
  BY TypeInit, CountInit, NothingAssumption DEF Inv, Init, LockDiscipline, Locked, Walking
<1>2. Inv /\ [Next]_vars => Inv'
  BY TypeStep, LockStep, CountStep DEF Inv
<1>3. Inv => NoStaleHandle
  BY CountedMeansLoaded DEF Inv
<1> QED BY <1>1, <1>2, <1>3, PTL DEF Spec

\* A dlclose that has finished its walk no longer backs a node: one that is
\* there now belongs to another reference.
LEMMA UnlistedHasAnother ==
  ASSUME TypeOK, RefsOwned, Counted
  PROVE  UnlistedBeforeUnload
<1> SUFFICES ASSUME NEW t \in Thread, pc[t] = "unlisted",
                    NEW i \in 1..Len(handles), handles[i] = refs[ref[t]]
             PROVE  \E r \in Ref \ {ref[t]} : refs[r] = refs[ref[t]]
  BY DEF UnlistedBeforeUnload
<1> DEFINE L == refs[ref[t]]
<1>1. L \in Library
  BY DEF RefsOwned, Using
<1>2. i \in Nodes(L)
  BY DEF Nodes, Positions
<1>3. Cardinality(Backing(L)) # 0
  BY <1>1, <1>2, BackingFinite, FS_EmptySet DEF Counted
<1>4. PICK r \in Backing(L) : TRUE
  BY <1>3, FS_EmptySet
<1>5. r \in Ref /\ refs[r] = L /\ r # ref[t]
  BY <1>4 DEF Backing, Linked
<1> QED BY <1>5

\* When the real dlclose is called, no node of the library is left unless
\* another dlopen keeps it loaded, however the two calls interleave.
THEOREM UnlistedBeforeUnloadHolds == Spec => []UnlistedBeforeUnload
<1>1. Init => Inv
  BY TypeInit, CountInit, NothingAssumption DEF Inv, Init, LockDiscipline, Locked, Walking
<1>2. Inv /\ [Next]_vars => Inv'
  BY TypeStep, LockStep, CountStep DEF Inv
<1>3. Inv => UnlistedBeforeUnload
  BY UnlistedHasAnother DEF Inv
<1> QED BY <1>1, <1>2, <1>3, PTL DEF Spec

-----------------------------------------------------------------------------
(* Wrappers are handed out wherever there is one                           *)

\* A lookup that has left the first branches of dlsym is not one of a traced
\* name in the default scope or in libopencl.
PastInterception ==
  \A t \in Thread :
    /\ pc[t] \in {"walk", "last"} => sym[t] \notin Traced
    /\ pc[t] = "direct" => ~Intercepts(refs[ref[t]], sym[t])

LEMMA TracedDefault ==
  ASSUME NEW s \in Traced PROVE DefaultLookup(s) = {Tracer} /\ Tracer # NoLibrary
BY LibraryAssumption, NothingAssumption DEF DefaultLookup

LEMMA InterceptStep ==
  ASSUME TypeOK, RefsOwned, PastInterception, [Next]_vars
  PROVE  PastInterception'
<1> USE DEF TypeOK, PastInterception, Goto
<1>1. CASE UNCHANGED vars \/ Stopped
  BY <1>1 DEF vars, Stopped
<1>2. ASSUME NEW u \in Thread, Call(u) \/ Continue(u),
             NEW t \in Thread
      PROVE  /\ pc'[t] \in {"walk", "last"} => sym'[t] \notin Traced
             /\ pc'[t] = "direct" => ~Intercepts(refs'[ref'[t]], sym'[t])
  <2>1. CASE t # u
    <3>1. pc'[t] = pc[t] /\ sym'[t] = sym[t] /\ ref'[t] = ref[t]
      BY <1>2, <2>1 DEF Call, Continue, OpenReal, CloseLock, SymNull, SymHandle,
         FiniLock, OpenLock, OpenInsert, OpenNoMemory, CloseWalk, CloseUnlock,
         CloseReal, SymDefault, SymWalk, SymWalkEnd, SymLast, SymMatch, SymDirect,
         FiniWalk, FiniUnlock, Answer, Forget
    <3>2. CASE pc[t] = "direct"
      <4>1. ref[t] \in Ref /\ refs[ref[t]] # NoLibrary
        BY <3>2, NothingAssumption DEF RefsOwned, Using
      <4>2. CASE CloseReal(u)
        <5>1. ref[u] # ref[t]
          BY <2>1, <4>2 DEF CloseReal, RefsOwned, Owning
        <5> QED BY <3>1, <3>2, <4>1, <4>2, <5>1 DEF CloseReal
      <4>3. CASE OpenReal(u)
        BY <3>1, <3>2, <4>1, <4>3 DEF OpenReal
      <4>4. CASE ~CloseReal(u) /\ ~OpenReal(u)
        <5>1. refs' = refs
          BY <1>2, <4>4 DEF Call, Continue, CloseLock, SymNull, SymHandle, FiniLock,
             OpenLock, OpenInsert, OpenNoMemory, CloseWalk, CloseUnlock, SymDefault,
             SymWalk, SymWalkEnd, SymLast, SymMatch, SymDirect, FiniWalk, FiniUnlock
        <5> QED BY <3>1, <3>2, <5>1
      <4> QED BY <4>2, <4>3, <4>4
    <3> QED BY <3>1, <3>2
  <2>2. CASE t = u /\ Call(u)
    BY <2>2 DEF Call, OpenReal, CloseLock, SymNull, SymHandle, FiniLock
  <2>3. CASE t = u /\ SymDefault(u)
    BY <2>3, TracedDefault DEF SymDefault
  <2>4. CASE t = u /\ SymMatch(u)
    BY <2>4 DEF SymMatch
  <2>5. CASE t = u /\ (SymWalk(u) \/ SymWalkEnd(u))
    BY <2>5 DEF SymWalk, SymWalkEnd
  <2>6. CASE t = u /\ (SymLast(u) \/ SymDirect(u) \/ CloseReal(u) \/ OpenInsert(u) \/ FiniUnlock(u))
    BY <2>6 DEF SymLast, SymDirect, CloseReal, OpenInsert, FiniUnlock
  <2>7. CASE t = u /\ (OpenLock(u) \/ OpenNoMemory(u) \/ CloseWalk(u) \/ CloseUnlock(u) \/ FiniWalk(u))
    BY <2>7 DEF OpenLock, OpenNoMemory, CloseWalk, CloseUnlock, FiniWalk
  <2> QED BY <1>2, <2>1, <2>2, <2>3, <2>4, <2>5, <2>6, <2>7 DEF Continue
<1> QED BY <1>1, <1>2 DEF Next

\* The answer of a lookup that ends is the wrapper, if the name has one and
\* the lookup was in the default scope or in libopencl.
LEMMA AnswerStep ==
  ASSUME TypeOK, RefsOwned, PastInterception, [Next]_vars, NEW t \in Thread,
         pc[t] \in {"default", "walk", "last", "match", "direct"}, pc'[t] = "idle",
         sym[t] \in Traced, ref[t] = NoRef \/ refs[ref[t]] = OpenCL
  PROVE  found'[t] = Tracer
<1> USE DEF TypeOK, PastInterception, Goto
<1>1. PICK u \in Thread : Call(u) \/ Continue(u)
  BY DEF Next, Stopped, vars
<1>2. u = t
  BY <1>1 DEF Call, Continue, OpenReal, CloseLock, SymNull, SymHandle,
     FiniLock, OpenLock, OpenInsert, OpenNoMemory, CloseWalk, CloseUnlock,
     CloseReal, SymDefault, SymWalk, SymWalkEnd, SymLast, SymMatch, SymDirect,
     FiniWalk, FiniUnlock
<1>3. CASE SymDefault(t)
  BY <1>3, TracedDefault DEF SymDefault, Answer
<1>4. CASE SymMatch(t)
  <2>1. Intercepts(refs[ref[t]], sym[t])
    BY <1>4, NothingAssumption DEF SymMatch, Intercepts, RefsOwned, Using
  <2> QED BY <1>4, <2>1 DEF SymMatch, Answer
<1>5. pc[t] \notin {"walk", "last"}
  OBVIOUS
<1>6. pc[t] # "direct"
  BY NothingAssumption DEF Intercepts, RefsOwned, Using
<1> QED BY <1>1, <1>2, <1>3, <1>4, <1>5, <1>6 DEF Call, Continue, OpenReal, CloseLock,
     SymNull, SymHandle, FiniLock, OpenLock, OpenInsert, OpenNoMemory, CloseWalk,
     CloseUnlock, CloseReal, SymWalk, SymWalkEnd, SymLast, SymDirect, FiniWalk, FiniUnlock

\* A program that asks the default scope or libopencl for a traced function
\* gets the wrapper, whatever other threads open and close meanwhile.
THEOREM InterceptedHolds == Spec => Intercepted
<1>1. Init => PastInterception
  BY DEF Init, PastInterception
<1>2. TypeOK /\ RefsOwned /\ PastInterception /\ [Next]_vars => PastInterception'
  BY InterceptStep
<1>3. TypeOK /\ RefsOwned /\ PastInterception /\ [Next]_vars
        => [\A t \in Thread :
              /\ pc[t] \in {"default", "walk", "last", "match", "direct"} /\ pc'[t] = "idle"
              /\ sym[t] \in Traced /\ (ref[t] = NoRef \/ refs[ref[t]] = OpenCL)
              => found'[t] = Tracer]_vars
  BY AnswerStep
<1> QED BY <1>1, <1>2, <1>3, TypeCorrect, PTL DEF Spec, Intercepted

-----------------------------------------------------------------------------
(* The shim implements the registry                                        *)

\* The references of init() stay, and no call of the program is about them.
ResidentKept ==
  /\ refs[OpenCLRef] = OpenCL /\ refs[TracerRef] = Tracer
  /\ \A t \in Thread : ref[t] \notin {OpenCLRef, TracerRef}

Open   == {L \in Library : Loaded(L)}
Listed == ToSet(handles)

\* How a step moves the list and the loader's references.
Moves ==
  \/ /\ handles' = handles
     /\ \/ refs' = refs
        \/ \E r \in Ref, L \in Library : refs[r] = NoLibrary /\ refs' = [refs EXCEPT ![r] = L]
        \/ \E r \in Ref : refs[r] \in Library /\ refs' = [refs EXCEPT ![r] = NoLibrary]
  \/ /\ refs' = refs
     /\ \E r \in Ref : refs[r] \in Library /\ handles' = <<refs[r]>> \o handles
  \/ /\ refs' = refs
     /\ \E i \in 1..Len(handles) : handles' = RemoveAt(handles, i)

LEMMA StepMoves ==
  ASSUME TypeOK, RefsOwned, [Next]_vars
  PROVE  Moves
<1> USE DEF Moves
<1>1. CASE UNCHANGED vars \/ Stopped
  BY <1>1 DEF Stopped, vars
<1>2. ASSUME NEW t \in Thread, Call(t) PROVE Moves
  BY <1>2 DEF Call, OpenReal, CloseLock, SymNull, SymHandle, FiniLock
<1>3. ASSUME NEW t \in Thread, Continue(t) PROVE Moves
  <2>1. CASE OpenInsert(t)
    BY <2>1 DEF OpenInsert, Goto, RefsOwned, Using
  <2>2. CASE FreeNode(t) /\ More(t) /\ refs' = refs
    BY <2>2, LenProperties DEF FreeNode, More, TypeOK
  <2>3. CASE CloseReal(t)
    BY <2>3 DEF CloseReal, Goto, RefsOwned, Using
  <2>4. CASE OpenLock(t) \/ OpenNoMemory(t) \/ CloseWalk(t) \/ CloseUnlock(t)
    BY <2>2, <2>4 DEF OpenLock, OpenNoMemory, CloseWalk, CloseUnlock
  <2>5. CASE SymDefault(t) \/ SymWalk(t) \/ SymWalkEnd(t) \/ SymLast(t) \/ SymMatch(t) \/ SymDirect(t)
    BY <2>5 DEF SymDefault, SymWalk, SymWalkEnd, SymLast, SymMatch, SymDirect
  <2>6. CASE FiniWalk(t) \/ FiniUnlock(t)
    BY <2>2, <2>6 DEF FiniWalk, FiniUnlock
  <2> QED BY <1>3, <2>1, <2>3, <2>4, <2>5, <2>6 DEF Continue
<1> QED BY <1>1, <1>2, <1>3 DEF Next

LEMMA ResidentStep ==
  ASSUME TypeOK, RefsOwned, ResidentKept, [Next]_vars
  PROVE  ResidentKept'
<1> USE LibraryAssumption, RefAssumption, NothingAssumption
    DEF TypeOK, ResidentKept, Goto, Forget
<1>1. CASE UNCHANGED vars \/ Stopped
  BY <1>1 DEF Stopped, vars
<1>2. ASSUME NEW t \in Thread, Call(t) PROVE ResidentKept'
  BY <1>2 DEF Call, OpenReal, CloseLock, SymNull, SymHandle, FiniLock, Closable, Usable
<1>3. ASSUME NEW t \in Thread, Continue(t) PROVE ResidentKept'
  BY <1>3 DEF Continue, OpenLock, OpenInsert, OpenNoMemory, CloseWalk, CloseUnlock,
     CloseReal, SymDefault, SymWalk, SymWalkEnd, SymLast, SymMatch, SymDirect,
     FiniWalk, FiniUnlock
<1> QED BY <1>1, <1>2, <1>3 DEF Next

LEMMA ListedAfterInsert ==
  ASSUME TypeOK, NEW L \in Library, handles' = <<L>> \o handles
  PROVE  Listed' = Listed \union {L}
<1>1. /\ handles \in Seq(Library) /\ handles' \in Seq(Library) /\ Len(handles) \in Nat
      /\ Len(handles') = Len(handles) + 1 /\ handles'[1] = L
      /\ \A j \in 2..(Len(handles) + 1) : handles'[j] = handles[j - 1]
  BY LenProperties, ConcatProperties DEF TypeOK
<1>2. /\ Listed = {handles[j] : j \in 1..Len(handles)}
      /\ Listed' = {handles'[j] : j \in 1..Len(handles')}
  BY <1>1, LenProperties DEF Listed, ToSet
<1>3. ASSUME NEW K \in Listed' PROVE K \in Listed \union {L}
  <2>1. PICK j \in 1..Len(handles') : K = handles'[j]
    BY <1>2
  <2>2. CASE j = 1
    BY <1>1, <2>1, <2>2
  <2>3. CASE j # 1
    <3>1. j \in 2..(Len(handles) + 1) /\ j - 1 \in 1..Len(handles)
      BY <1>1, <2>1, <2>3
    <3> QED BY <1>1, <1>2, <2>1, <3>1
  <2> QED BY <2>2, <2>3
<1>4. L \in Listed'
  BY <1>1, <1>2
<1>5. ASSUME NEW K \in Listed PROVE K \in Listed'
  <2>1. PICK j \in 1..Len(handles) : K = handles[j]
    BY <1>2
  <2>2. j + 1 \in 2..(Len(handles) + 1) /\ j + 1 \in 1..Len(handles') /\ (j + 1) - 1 = j
    BY <1>1, <2>1
  <2>3. handles'[j + 1] = K
    BY <1>1, <2>1, <2>2
  <2> QED BY <1>2, <2>2, <2>3
<1> QED BY <1>3, <1>4, <1>5

\* The positions that RemoveAt leaves name what they named before, and at most
\* one library leaves the list.
LEMMA ListedAfterRemove ==
  ASSUME TypeOK, NEW i \in 1..Len(handles), handles' = RemoveAt(handles, i)
  PROVE  Listed' = Listed \/ Listed' = Listed \ {handles[i]}
<1>1. /\ handles \in Seq(Library) /\ handles' \in Seq(Library) /\ Len(handles) \in Nat
      /\ Len(handles') = Len(handles) - 1
      /\ \A j \in 1..(Len(handles) - 1) :
           handles'[j] = IF j < i THEN handles[j] ELSE handles[j + 1]
  BY RemoveAtProperties, LenProperties DEF TypeOK
<1>2. /\ Listed = {handles[j] : j \in 1..Len(handles)}
      /\ Listed' = {handles'[j] : j \in 1..Len(handles')}
  BY <1>1, LenProperties DEF Listed, ToSet
<1>3. ASSUME NEW L \in Listed' PROVE L \in Listed
  BY <1>1, <1>2
<1>4. ASSUME NEW L \in Listed, L # handles[i] PROVE L \in Listed'
  <2>1. PICK j \in 1..Len(handles) : L = handles[j] /\ j # i
    BY <1>2, <1>4
  <2>2. CASE j < i
    <3>1. j \in 1..Len(handles') /\ handles'[j] = L
      BY <1>1, <2>1, <2>2
    <3> QED BY <1>2, <3>1
  <2>3. CASE ~(j < i)
    <3>1. j - 1 \in 1..Len(handles') /\ handles'[j - 1] = L
      BY <1>1, <2>1, <2>3
    <3> QED BY <1>2, <3>1
  <2> QED BY <2>2, <2>3
<1> QED BY <1>3, <1>4

-----------------------------------------------------------------------------
(* A library that is never opened twice is listed while it is open         *)

\* Whether reference r has its node: its dlopen has inserted it, its dlclose
\* has not begun, and fini is not at work on the list.
Due(r) ==
  /\ refs[r] \notin Reopen \union {NoLibrary}
  /\ \A t \in Thread : ref[t] = r => pc[t] \notin Owning

\* One reference at most to such a library, and a node for it.
DueListed ==
  /\ \A r, q \in Ref : refs[r] = refs[q] /\ refs[r] \notin Reopen \union {NoLibrary} => r = q
  /\ status = "running" => \A r \in Ref : Due(r) => refs[r] \in Listed
  /\ status = "exiting" => \E t \in Thread : pc[t] = "fini"
  /\ \A t \in Thread : pc[t] = "fini" => status # "running"

\* The walk of a dlclose removes nodes of the library it closes and no other.
LEMMA CloseKeepsListed ==
  ASSUME TypeOK, RefsOwned, DueListed, NEW t \in Thread, CloseWalk(t), status = "running",
         NEW r \in Ref, Due(r)
  PROVE  refs[r] \in Listed'
<1>1. pc[t] = "close" /\ refs[r] \in Listed
  BY DEF CloseWalk, Goto, DueListed
<1>2. refs[ref[t]] # refs[r]
  BY <1>1 DEF DueListed, Due, RefsOwned, Using, Owning
<1>3. CASE handles' = handles
  BY <1>1, <1>3 DEF Listed
<1>4. CASE FreeNode(t) /\ Node(t) = refs[ref[t]]
  <2>1. at[t] \in 1..Len(handles) /\ handles' = RemoveAt(handles, at[t])
    BY <1>4, LenProperties DEF CloseWalk, More, FreeNode, TypeOK
  <2> QED BY <1>1, <1>2, <1>4, <2>1, ListedAfterRemove DEF Node
<1> QED BY <1>3, <1>4 DEF CloseWalk

LEMMA DueStep ==
  ASSUME TypeOK, RefsOwned, LockDiscipline, DueListed, [Next]_vars
  PROVE  DueListed'
<1> USE DEF TypeOK, Goto
<1>1. CASE UNCHANGED vars \/ Stopped
  <2>1. UNCHANGED vars
    BY <1>1 DEF Stopped
  <2> QED BY <2>1 DEF vars, DueListed, Due, Listed
<1>2. ASSUME NEW u \in Thread, OpenReal(u) PROVE DueListed'
  <2>1. PICK q \in Ref, L \in Library :
          /\ refs[q] = NoLibrary /\ (L \in Reopen \/ ~Loaded(L))
          /\ refs' = [refs EXCEPT ![q] = L] /\ ref' = [ref EXCEPT ![u] = q]
          /\ handles' = handles /\ status' = status
          /\ pc[u] = "idle" /\ pc' = [pc EXCEPT ![u] = "opened"]
    BY <1>2 DEF OpenReal
  <2>2. ASSUME NEW r \in Ref, Due(r)' PROVE r # q /\ Due(r) /\ refs'[r] = refs[r]
    BY <2>1, <2>2 DEF Due, Owning, RefsOwned, Using
  <2>3. Listed' = Listed
    BY <2>1 DEF Listed
  <2>4. \A r, p \in Ref : refs'[r] = refs'[p] /\ refs'[r] \notin Reopen \union {NoLibrary} => r = p
    BY <2>1 DEF DueListed, Loaded
  <2>5. status' = "running" => \A r \in Ref : Due(r)' => refs'[r] \in Listed'
    BY <2>1, <2>2, <2>3 DEF DueListed
  <2>6. /\ status' = "exiting" => \E t \in Thread : pc'[t] = "fini"
        /\ \A t \in Thread : pc'[t] = "fini" => status' # "running"
    BY <2>1 DEF DueListed
  <2> QED BY <2>4, <2>5, <2>6 DEF DueListed
<1>3. ASSUME NEW u \in Thread, CloseReal(u) PROVE DueListed'
  <2>1. /\ pc[u] = "unlisted" /\ pc' = [pc EXCEPT ![u] = "idle"]
        /\ refs' = [refs EXCEPT ![ref[u]] = NoLibrary] /\ ref[u] \in Ref
        /\ ref' = [ref EXCEPT ![u] = NoRef]
        /\ handles' = handles /\ status' = status
    BY <1>3 DEF CloseReal, Forget, RefsOwned, Using
  <2>2. ASSUME NEW r \in Ref, Due(r)' PROVE Due(r) /\ refs'[r] = refs[r]
    BY <2>1, <2>2 DEF Due, RefsOwned, Owning
  <2>3. Listed' = Listed
    BY <2>1 DEF Listed
  <2>4. status' = "exiting" => \E t \in Thread : pc'[t] = "fini"
    BY <2>1 DEF DueListed
  <2>5. \A r, p \in Ref : refs'[r] = refs'[p] /\ refs'[r] \notin Reopen \union {NoLibrary} => r = p
    BY <2>1 DEF DueListed
  <2> QED BY <2>1, <2>2, <2>3, <2>4, <2>5 DEF DueListed
<1>4. ASSUME NEW u \in Thread, OpenInsert(u) PROVE DueListed'
  <2>1. /\ pc[u] = "insert" /\ pc' = [pc EXCEPT ![u] = "idle"]
        /\ refs' = refs /\ refs[ref[u]] \in Library /\ ref[u] \in Ref
        /\ ref' = [ref EXCEPT ![u] = NoRef]
        /\ handles' = <<refs[ref[u]]>> \o handles /\ status' = status
    BY <1>4 DEF OpenInsert, Forget, RefsOwned, Using
  <2>2. Listed' = Listed \union {refs[ref[u]]}
    BY <2>1, ListedAfterInsert
  <2>3. ASSUME NEW r \in Ref, Due(r)' PROVE r = ref[u] \/ Due(r)
    BY <2>1, <2>3 DEF Due
  <2>4. status' = "exiting" => \E t \in Thread : pc'[t] = "fini"
    BY <2>1 DEF DueListed
  <2> QED BY <2>1, <2>2, <2>3, <2>4 DEF DueListed
<1>5. ASSUME NEW u \in Thread, CloseWalk(u) PROVE DueListed'
  <2>1. pc' = pc /\ refs' = refs /\ ref' = ref /\ status' \in {status, "crashed"} /\ pc[u] = "close"
    BY <1>5, FreeNodeType DEF CloseWalk
  <2>2. \A r \in Ref : Due(r)' <=> Due(r)
    BY <2>1 DEF Due
  <2>3. status' = "running" => \A r \in Ref : Due(r)' => refs'[r] \in Listed'
    BY <1>5, <2>1, <2>2, CloseKeepsListed
  <2> QED BY <2>1, <2>3 DEF DueListed
<1>6. ASSUME NEW u \in Thread, FiniLock(u) \/ FiniWalk(u) \/ FiniUnlock(u) PROVE DueListed'
  <2>1. CASE FiniLock(u)
    BY <2>1 DEF FiniLock, DueListed
  <2>2. CASE FiniWalk(u)
    <3>1. pc' = pc /\ refs' = refs /\ status' \in {status, "crashed"} /\ pc[u] = "fini"
      BY <2>2, FreeNodeType DEF FiniWalk
    <3>2. status # "running"
      BY <3>1 DEF DueListed
    <3> QED BY <3>1, <3>2 DEF DueListed
  <2>3. CASE FiniUnlock(u)
    BY <2>3 DEF FiniUnlock, DueListed
  <2> QED BY <1>6, <2>1, <2>2, <2>3
\* The other steps move no reference and no node, and put no thread outside
\* a dlopen or dlclose it was inside.
<1>7. ASSUME UNCHANGED <<handles, refs>>, status' \in {status, "crashed"},
             \A r \in Ref : Due(r)' => Due(r),
             \A t \in Thread : pc[t] = "fini" <=> pc'[t] = "fini"
      PROVE  DueListed'
  <2>1. Listed' = Listed
    BY <1>7 DEF Listed
  <2>2. status' # "crashed" => status' = status
    BY <1>7
  <2>3. status' = "running" => \A r \in Ref : Due(r)' => refs'[r] \in Listed'
    BY <1>7, <2>1, <2>2 DEF DueListed
  <2> QED BY <1>7, <2>2, <2>3 DEF DueListed
<1>8. ASSUME NEW u \in Thread, CloseLock(u) \/ SymNull(u) \/ SymHandle(u) PROVE DueListed'
  BY <1>7, <1>8 DEF CloseLock, SymNull, SymHandle, Due, Owning
<1>9. ASSUME NEW u \in Thread, OpenLock(u) \/ OpenNoMemory(u) \/ CloseUnlock(u) PROVE DueListed'
  BY <1>7, <1>9 DEF OpenLock, OpenNoMemory, CloseUnlock, Due, Owning
<1>10. ASSUME NEW u \in Thread,
              SymDefault(u) \/ SymWalk(u) \/ SymWalkEnd(u) \/ SymLast(u) PROVE DueListed'
  BY <1>7, <1>10 DEF SymDefault, SymWalk, SymWalkEnd, SymLast, Due, Owning
<1>11. ASSUME NEW u \in Thread, SymMatch(u) \/ SymDirect(u) PROVE DueListed'
  BY <1>7, <1>11 DEF SymMatch, SymDirect, Forget, Due, Owning, RefsOwned, Using
<1> QED BY <1>1, <1>2, <1>3, <1>4, <1>5, <1>6, <1>8, <1>9, <1>10, <1>11
        DEF Next, Call, Continue

LEMMA DueInit == Init => DueListed
<1> SUFFICES ASSUME Init PROVE DueListed
  OBVIOUS
<1>1. Listed = {OpenCL, Tracer}
  BY DEF Init, Listed, ToSet
<1> QED BY <1>1, LibraryAssumption, RefAssumption, NothingAssumption
        DEF Init, DueListed, Due

\* The fall-back of dlsym has every open library before it: one whose dlopen has
\* returned and whose dlclose has not begun is on the list, in every
\* interleaving, unless the program opens it twice.
THEOREM OpenIsListedHolds == Spec => []OpenIsListed
<1>1. TypeOK /\ RefsOwned /\ LockDiscipline /\ DueListed /\ [Next]_vars => DueListed'
  BY DueStep
<1>2. TypeOK /\ LockDiscipline /\ DueListed => OpenIsListed
  <2> SUFFICES ASSUME TypeOK, LockDiscipline, DueListed, Alive, lock = NoThread,
                      NEW r \in Ref, refs[r] \notin Reopen \union {NoLibrary},
                      \A t \in Thread : ref[t] # r
               PROVE  \E i \in 1..Len(handles) : handles[i] = refs[r]
    BY DEF OpenIsListed
  <2>1. \A t \in Thread : pc[t] # "fini"
    BY NothingAssumption DEF LockDiscipline, Locked, Walking
  <2>2. status = "running"
    BY <2>1 DEF Alive, DueListed
  <2>3. refs[r] \in Listed
    BY <2>2 DEF DueListed, Due
  <2>4. Listed = {handles[j] : j \in 1..Len(handles)}
    BY LenProperties DEF Listed, ToSet, TypeOK
  <2> QED BY <2>3, <2>4
<1> QED BY <1>1, <1>2, DueInit, TypeCorrect, LockDisciplineHolds, PTL DEF Spec

LEMMA InvStep ==
  ASSUME Inv, [Next]_vars
  PROVE  Inv' /\ NoStaleHandle'
<1>1. Inv'
  BY TypeStep, LockStep, CountStep DEF Inv
<1>2. (Inv => NoStaleHandle)'
  BY CountedMeansLoaded, PTL DEF Inv
<1> QED BY <1>1, <1>2

\* Every step of the shim is a step of the registry or leaves it alone.
LEMMA RegistryStep ==
  ASSUME Inv, ResidentKept, [Next]_vars
  PROVE  [R!Next]_<<Open, Listed>>
<1> USE DEF Inv
<1>1. TypeOK' /\ ResidentKept' /\ NoStaleHandle'
  BY InvStep, ResidentStep DEF Inv
<1>2. Moves
  BY StepMoves
<1>3. Listed' \subseteq Open'
  <2>1. handles' \in Seq(Library)
    BY <1>1 DEF TypeOK
  <2>2. Listed' = {handles'[j] : j \in 1..Len(handles')} /\ \A j \in 1..Len(handles') : handles'[j] \in Library
    BY <2>1, LenProperties DEF Listed, ToSet
  <2> QED BY <1>1, <2>2 DEF NoStaleHandle, Open
<1>4. {OpenCL, Tracer} \subseteq Open'
  BY <1>1, LibraryAssumption, RefAssumption DEF ResidentKept, Open, Loaded
<1>5. CASE handles' = handles /\ refs' = refs
  BY <1>5 DEF Open, Listed, Loaded
<1>6. ASSUME NEW r \in Ref, NEW L \in Library, handles' = handles,
             refs[r] = NoLibrary, refs' = [refs EXCEPT ![r] = L]
      PROVE  [R!Next]_<<Open, Listed>>
  <2>1. Open' = Open \union {L} /\ Listed' = Listed
    BY <1>6, NothingAssumption DEF Open, Loaded, Listed, TypeOK
  <2> QED BY <2>1 DEF R!Next, R!Load, Open, Listed
<1>7. ASSUME NEW r \in Ref, handles' = handles,
             refs[r] \in Library, refs' = [refs EXCEPT ![r] = NoLibrary]
      PROVE  [R!Next]_<<Open, Listed>>
  <2> DEFINE L == refs[r]
  <2>1. Open' = Open \/ (L \notin Open' /\ Open' = Open \ {L})
    BY <1>7, NothingAssumption DEF Open, Loaded, TypeOK
  <2>2. Listed' = Listed
    BY <1>7 DEF Listed
  <2>3. L \in Open
    BY <1>7 DEF Open, Loaded
  <2>4. CASE L \notin Open' /\ Open' = Open \ {L}
    <3>1. L \notin Listed \union {OpenCL, Tracer}
      BY <1>3, <1>4, <2>2, <2>4
    <3> QED BY <1>7, <2>2, <2>3, <2>4, <3>1 DEF R!Next, R!Unload, Open, Listed
  <2> QED BY <2>1, <2>2, <2>4
<1>8. ASSUME NEW r \in Ref, refs' = refs, refs[r] \in Library, handles' = <<refs[r]>> \o handles
      PROVE  [R!Next]_<<Open, Listed>>
  <2> DEFINE L == refs[r]
  <2>1. Open' = Open /\ L \in Open
    BY <1>8 DEF Open, Loaded
  <2>2. Listed' = Listed \union {L}
    BY <1>8, ListedAfterInsert DEF TypeOK
  <2> QED BY <1>8, <2>1, <2>2 DEF R!Next, R!List, Open, Listed
<1>9. ASSUME NEW i \in 1..Len(handles), refs' = refs, handles' = RemoveAt(handles, i)
      PROVE  [R!Next]_<<Open, Listed>>
  <2>1. Open' = Open
    BY <1>9 DEF Open, Loaded
  <2>2. handles[i] \in Library
    BY <1>9, LenProperties DEF TypeOK
  <2>3. Listed' = Listed \/ Listed' = Listed \ {handles[i]}
    BY <1>9, ListedAfterRemove
  <2> QED BY <2>1, <2>2, <2>3 DEF R!Next, R!Unlist, Open, Listed
<1> QED BY <1>2, <1>5, <1>6, <1>7, <1>8, <1>9 DEF Moves

\* The shim with its threads, its mutex and its walks implements the registry:
\* a library joins the list only while it is loaded and is unloaded only when
\* it is not on it.
THEOREM Refinement == Spec => ImplementsRegistry
<1>1. Init => R!Init
  <2> SUFFICES ASSUME Init PROVE R!Init
    OBVIOUS
  <2>1. Open = {OpenCL, Tracer}
    BY LibraryAssumption, RefAssumption, NothingAssumption DEF Init, Open, Loaded
  <2>2. Listed = {OpenCL, Tracer}
    BY DEF Init, Listed, ToSet
  <2> QED BY <2>1, <2>2 DEF R!Init, Open, Listed
<1>2. Init => Inv /\ ResidentKept
  BY TypeInit, CountInit, LibraryAssumption, RefAssumption, NothingAssumption
     DEF Inv, Init, LockDiscipline, Locked, Walking, ResidentKept
<1>3. Inv /\ ResidentKept /\ [Next]_vars => Inv' /\ ResidentKept' /\ [R!Next]_<<Open, Listed>>
  BY InvStep, ResidentStep, RegistryStep DEF Inv
<1>4. [R!Next]_<<Open, Listed>> => [R!Next]_(R!rvars)
  BY DEF R!rvars, Open, Listed
<1> QED BY <1>1, <1>2, <1>3, <1>4, PTL DEF Spec, ImplementsRegistry, R!Spec
=============================================================================
