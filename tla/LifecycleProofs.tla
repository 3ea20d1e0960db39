-------------------------- MODULE LifecycleProofs --------------------------
(***************************************************************************)
(* Theorems about Lifecycle: between init and fini every call finds the    *)
(* stream, the mutex and the function it needs.  They hold for any number  *)
(* of functions and threads, and any subset of the functions in the        *)
(* OpenCL library.                                                         *)
(***************************************************************************)
EXTENDS Lifecycle, TLAPS

\* The loop of init has filled opencl_fptr below i, and libopencl_handle is set
\* behind the loop, so the shim answered none of its lookups with a wrapper.
Filled ==
  /\ \A f \in Function : real[f] = IF f < i /\ f \in Provided THEN "real" ELSE "null"
  /\ known => i > N
  /\ phase \in {"stderr", "file", "stats", "null", "running"} => known
  /\ phase \in {"before", "library", "tracer", "fill", "abandoned"} => ~known

\* fout is set right after; only what init opened is closed, and the mutex goes
\* last.
TakenDown ==
  /\ known /\ phase # "stderr" => out # "null"
  /\ closed => out \notin {"null", "stderr"} /\ phase \in {"destroying", "after", "gone"}
  /\ mutex = "destroyed" => phase \in {"after", "gone"}

\* A call under way before init is through began before that.
EarlyCalls ==
  phase \in InitPhases \union {"abandoned"} => \A t \in Thread : at[t] # "out" => early[t]

\* A call that came past emit_open without storing its name did so when
\* statistics were off, and they go on only in init.
Named == \A t \in Thread : at[t] \in {"real", "end"} /\ ~named[t] => early[t] \/ stats = 0

HolderInside == holder # NoThread => at[holder] = "shim"

\* What each kind of harm says about the process.
HarmExplained ==
  /\ harm # "none" => culprit \in Thread
  /\ harm = "stream" => TooEarly
  /\ harm = "closed" => closed /\ phase \in {"destroying", "after"}
  /\ harm = "function" => TooEarly \/ fn[culprit] \notin Provided
  /\ harm = "name" => TooEarly
  /\ harm = "mutex" => TooEarly \/ phase = "after"
  /\ harm # "recursion"

Inv == /\ TypeOK /\ Filled /\ TakenDown /\ EarlyCalls /\ Named /\ HolderInside
       /\ HarmExplained

-----------------------------------------------------------------------------
LEMMA Initially == Init => Inv
<1>. SUFFICES ASSUME Init PROVE Inv
  OBVIOUS
<1>. USE FunctionAssumption, ThreadAssumption DEF Init
<1>1. TypeOK
  <2>1. want \in [file : BOOLEAN, stats : 0..2]
    OBVIOUS
  <2>2. i \in 1..(N + 1)
    OBVIOUS
  <2>3. /\ real \in [Function -> {"null", "real", "wrapper"}]
        /\ wrap \in [Function -> {"null", "wrapper"}]
    OBVIOUS
  <2>4. /\ fn \in [Thread -> Function \union {0}]
        /\ at \in [Thread -> {"out", "open", "real", "end", "shim"}]
        /\ named \in [Thread -> BOOLEAN] /\ early \in [Thread -> BOOLEAN]
        /\ \A t \in Thread : at[t] = "out"
    OBVIOUS
  <2>5. phase \in Phases /\ runner \in Thread /\ stats \in 0..2 /\ harm \in Harms
    BY DEF Phases, InitPhases, Harms
  <2>6. known \in BOOLEAN /\ closed \in BOOLEAN
    BY Zenon
  <2>7. out = "null" /\ mutex = "good" /\ holder = NoThread /\ culprit = NoThread
    OBVIOUS
  <2>. HIDE DEF Init
  <2>. QED
    BY <2>1, <2>2, <2>3, <2>4, <2>5, <2>6, <2>7 DEF TypeOK
<1>2. Filled
  BY DEF Filled, Function, Phases, InitPhases, FiniPhases, Harms, TooEarly
<1>3. TakenDown
  BY DEF TakenDown, Function, Phases, InitPhases, FiniPhases, Harms, TooEarly
<1>4. EarlyCalls
  BY DEF EarlyCalls, Function, Phases, InitPhases, FiniPhases, Harms, TooEarly
<1>5. Named
  BY DEF Named, Function, Phases, InitPhases, FiniPhases, Harms, TooEarly
<1>6. HolderInside
  BY DEF HolderInside, Function, Phases, InitPhases, FiniPhases, Harms, TooEarly
<1>7. HarmExplained
  BY DEF HarmExplained, Function, Phases, InitPhases, FiniPhases, Harms, TooEarly
<1>. QED
  BY <1>1, <1>2, <1>3, <1>4, <1>5, <1>6, <1>7 DEF Inv

(***************************************************************************)
(* One step for each action.  init and fini: the steps are small enough to *)
(* be proved as a whole.                                                   *)
(***************************************************************************)
LEMMA ProcessStep ==
  ASSUME Inv, Initialise \/ Finalise \/ \E t \in Thread : Exit(t)
  PROVE  Inv'
<1>. USE FunctionAssumption, ThreadAssumption
     DEF Go, Unharmed, Suffer, Disturb, Dlsym, TooEarly, Function,
         Phases, InitPhases, FiniPhases, Harms, tables, stream, options, calls, history,
         Inv, TypeOK, Filled, TakenDown, EarlyCalls, Named, HolderInside, HarmExplained
<1>1. CASE InitMutex
  BY <1>1, SMTT(30) DEF InitMutex
<1>2. CASE OpenLibraries
  BY <1>2, SMTT(30) DEF OpenLibraries
<1>3. CASE OpenFails
  BY <1>3, SMTT(30) DEF OpenFails
<1>4. CASE Fill
  BY <1>4, SMTT(30) DEF Fill
<1>5. CASE SetHandle
  BY <1>5, SMTT(30) DEF SetHandle
<1>6. CASE SetStderr
  BY <1>6, SMTT(30) DEF SetStderr
<1>7. CASE OpenFile
  BY <1>7, SMTT(30) DEF OpenFile
<1>8. CASE SetOptions
  BY <1>8, SMTT(30) DEF SetOptions
<1>9. CASE OpenNull
  BY <1>9, SMTT(30) DEF OpenNull
<1>10. CASE FiniList
  BY <1>10, SMTT(30) DEF FiniList
<1>11. CASE FiniClose
  BY <1>11, SMTT(30) DEF FiniClose
<1>12. CASE FiniDestroy
  BY <1>12, SMTT(30) DEF FiniDestroy
<1>13. CASE End
  BY <1>13, SMTT(30) DEF End
<1>14. ASSUME NEW t \in Thread, Exit(t) PROVE Inv'
  BY <1>14, SMTT(30) DEF Exit
<1>. QED
  BY <1>1, <1>2, <1>3, <1>4, <1>5, <1>6, <1>7, <1>8, <1>9, <1>10, <1>11, <1>12, <1>13, <1>14 DEF Initialise, Finalise

(***************************************************************************)
(* Calls leave the process alone: what is said of it alone stays, and the  *)
(* rest is split by conjunct.                                              *)
(***************************************************************************)
LEMMA CallStep ==
  ASSUME Inv, NEW t \in Thread, Call(t)
  PROVE  Inv'
<1>1. Filled' /\ TakenDown' /\ UNCHANGED process
  <2>1. UNCHANGED process
    BY DEF Call, Begin, EmitOpen, Real, EmitEnd, ShimLock, ShimUnlock
  <2>. QED
    BY <2>1 DEF process, tables, stream, options, Inv, Filled, TakenDown
<1>. USE FunctionAssumption, ThreadAssumption
     DEF Unharmed, Suffer, Move, Awake, Stream, TooEarly, Function, Phases, InitPhases,
         FiniPhases, Harms, process, tables, stream, options, history
<1>2. CASE Begin(t)
  <2>1. TypeOK'
    BY <1>1, <1>2, SMTT(30) DEF Begin, Inv, TypeOK
  <2>2. EarlyCalls'
    <3>1. /\ phase' = phase /\ at \in [Thread -> {"out", "open", "real", "end", "shim"}]
          /\ \A u \in Thread \ {t} : at'[u] = at[u]
      BY <1>1, <1>2 DEF Begin, Inv, TypeOK
    <3>2. early \in [Thread -> BOOLEAN]
      BY DEF Inv, TypeOK
    <3>3. /\ \A u \in Thread \ {t} : early'[u] = early[u]
          /\ phase \in InitPhases \union {"abandoned"} => early'[t]
      BY <1>2, <3>2, Zenon DEF Begin
    <3>. QED
      BY <3>1, <3>3 DEF Inv, EarlyCalls
  <2>3. Named'
    BY <1>1, <1>2, SMTT(30) DEF Begin, Inv, Named, TypeOK, EarlyCalls
  <2>4. HolderInside'
    BY <1>1, <1>2, SMTT(30) DEF Begin, Inv, HolderInside, TypeOK
  <2>5. HarmExplained'
    BY <1>1, <1>2, SMTT(30) DEF Begin, Inv, HarmExplained, TypeOK, Filled, TakenDown, EarlyCalls, Named, HolderInside
  <2>. QED
    BY <1>1, <2>1, <2>2, <2>3, <2>4, <2>5 DEF Inv
<1>3. CASE EmitOpen(t)
  <2>1. TypeOK'
    BY <1>1, <1>3, SMTT(30) DEF EmitOpen, Inv, TypeOK
  <2>2. EarlyCalls'
    BY <1>1, <1>3, SMTT(30) DEF EmitOpen, Inv, EarlyCalls, TypeOK
  <2>3. Named'
    <3>1. /\ stats' = stats /\ early' = early
          /\ \A u \in Thread \ {t} : at'[u] = at[u]
      BY <1>1, <1>3 DEF EmitOpen, Inv, TypeOK
    <3>2. named \in [Thread -> BOOLEAN]
      BY DEF Inv, TypeOK
    <3>3. /\ \A u \in Thread \ {t} : named'[u] = named[u]
          /\ stats # 0 => named'[t]
      BY <1>3, <3>2, Zenon DEF EmitOpen
    <3>. QED
      BY <3>1, <3>3 DEF Inv, Named
  <2>4. HolderInside'
    BY <1>1, <1>3, SMTT(30) DEF EmitOpen, Inv, HolderInside, TypeOK
  <2>5. HarmExplained'
    BY <1>1, <1>3, SMTT(30) DEF EmitOpen, Inv, HarmExplained, TypeOK, Filled, TakenDown, EarlyCalls, Named, HolderInside
  <2>. QED
    BY <1>1, <2>1, <2>2, <2>3, <2>4, <2>5 DEF Inv
<1>4. CASE Real(t)
  <2>0. /\ fn[t] \in Function
        /\ \/ real[fn[t]] = "null" /\ Suffer("function", t)
           \/ real[fn[t]] = "real" /\ Unharmed
    <3>1. fn[t] \in Function
      BY <1>4 DEF Real, Inv, TypeOK
    <3>2. real[fn[t]] \in {"null", "real"}
      BY <3>1 DEF Inv, Filled
    <3>3. /\ real[fn[t]] = "null" => Suffer("function", t)
          /\ real[fn[t]] = "real" => Unharmed
      BY <1>4, <3>2 DEF Real
    <3>. QED
      BY <3>1, <3>2, <3>3
  <2>1. TypeOK'
    BY <1>1, <1>4, <2>0, SMTT(30) DEF Real, Inv, TypeOK
  <2>2. EarlyCalls'
    BY <1>1, <1>4, SMTT(30) DEF Real, Inv, EarlyCalls, TypeOK
  <2>3. Named'
    BY <1>1, <1>4, SMTT(30) DEF Real, Inv, Named, TypeOK, EarlyCalls
  <2>4. HolderInside'
    BY <1>1, <1>4, SMTT(30) DEF Real, Inv, HolderInside, TypeOK
  <2>5. HarmExplained'
    BY <1>1, <1>4, <2>0, SMTT(30) DEF Real, Inv, HarmExplained, TypeOK, Filled, TakenDown, EarlyCalls, Named, HolderInside
  <2>. QED
    BY <1>1, <2>1, <2>2, <2>3, <2>4, <2>5 DEF Inv
<1>5. CASE EmitEnd(t)
  <2>1. TypeOK'
    BY <1>1, <1>5, SMTT(30) DEF EmitEnd, Inv, TypeOK
  <2>2. EarlyCalls'
    BY <1>1, <1>5, SMTT(30) DEF EmitEnd, Inv, EarlyCalls, TypeOK
  <2>3. Named'
    BY <1>1, <1>5, SMTT(30) DEF EmitEnd, Inv, Named, TypeOK, EarlyCalls
  <2>4. HolderInside'
    BY <1>1, <1>5, SMTT(30) DEF EmitEnd, Inv, HolderInside, TypeOK
  <2>5. HarmExplained'
    BY <1>1, <1>5, SMTT(30) DEF EmitEnd, Inv, HarmExplained, TypeOK, Filled, TakenDown, EarlyCalls, Named, HolderInside
  <2>. QED
    BY <1>1, <2>1, <2>2, <2>3, <2>4, <2>5 DEF Inv
<1>6. CASE ShimLock(t)
  <2>1. TypeOK'
    BY <1>1, <1>6, SMTT(30) DEF ShimLock, Inv, TypeOK
  <2>2. EarlyCalls'
    <3>1. /\ phase' = phase /\ at \in [Thread -> {"out", "open", "real", "end", "shim"}]
          /\ \A u \in Thread \ {t} : at'[u] = at[u]
      BY <1>1, <1>6 DEF ShimLock, Inv, TypeOK
    <3>2. early \in [Thread -> BOOLEAN]
      BY DEF Inv, TypeOK
    <3>3. /\ \A u \in Thread \ {t} : early'[u] = early[u]
          /\ phase \in InitPhases \union {"abandoned"} => early'[t]
      BY <1>6, <3>2, Zenon DEF ShimLock
    <3>. QED
      BY <3>1, <3>3 DEF Inv, EarlyCalls
  <2>3. Named'
    BY <1>1, <1>6, SMTT(30) DEF ShimLock, Inv, Named, TypeOK, EarlyCalls
  <2>4. HolderInside'
    BY <1>1, <1>6, SMTT(30) DEF ShimLock, Inv, HolderInside, TypeOK
  <2>5. HarmExplained'
    BY <1>1, <1>6, SMTT(30) DEF ShimLock, Inv, HarmExplained, TypeOK, Filled, TakenDown, EarlyCalls, Named, HolderInside
  <2>. QED
    BY <1>1, <2>1, <2>2, <2>3, <2>4, <2>5 DEF Inv
<1>7. CASE ShimUnlock(t)
  <2>1. TypeOK'
    BY <1>1, <1>7, SMTT(30) DEF ShimUnlock, Inv, TypeOK
  <2>2. EarlyCalls'
    BY <1>1, <1>7, SMTT(30) DEF ShimUnlock, Inv, EarlyCalls, TypeOK
  <2>3. Named'
    BY <1>1, <1>7, SMTT(30) DEF ShimUnlock, Inv, Named, TypeOK, EarlyCalls
  <2>4. HolderInside'
    BY <1>1, <1>7, SMTT(30) DEF ShimUnlock, Inv, HolderInside, TypeOK
  <2>5. HarmExplained'
    BY <1>1, <1>7, SMTT(30) DEF ShimUnlock, Inv, HarmExplained, TypeOK, Filled, TakenDown, EarlyCalls, Named, HolderInside
  <2>. QED
    BY <1>1, <2>1, <2>2, <2>3, <2>4, <2>5 DEF Inv
<1>. QED
  BY <1>2, <1>3, <1>4, <1>5, <1>6, <1>7 DEF Call

LEMMA Stuttering ==
  ASSUME Inv, UNCHANGED vars
  PROVE  Inv'
BY DEF vars, process, calls, history, tables, stream, options, Inv, TypeOK, Filled,
       TakenDown, EarlyCalls, Named, HolderInside, HarmExplained, TooEarly

LEMMA Invariance == Spec => []Inv
<1>1. Inv /\ [Next]_vars => Inv'
  BY ProcessStep, CallStep, Stuttering DEF Next, Stopped
<1>. QED
  BY Initially, <1>1, PTL DEF Spec

-----------------------------------------------------------------------------
(* The theorems                                                            *)

\* The state stays well typed, and a thread inside a wrapper has a function.
THEOREM LifecycleTypeCorrect == Spec => []TypeOK
<1>1. Inv => TypeOK
  BY DEF Inv
<1>. QED
  BY Invariance, <1>1, PTL

\* A call that begins after init and ends before fini never meets a missing
\* stream, mutex, name or function, except a function the library lacks.
THEOREM UsableWhileRunningHolds == Spec => []UsableWhileRunning
<1>1. Inv => UsableWhileRunning
  BY DEF Inv, TypeOK, Harms, HarmExplained, UsableWhileRunning
<1>. QED
  BY Invariance, <1>1, PTL

\* opencl_fptr never holds a wrapper, and behind init it holds what the library has.
THEOREM RealIsRealHolds == Spec => []RealIsReal
<1>1. Inv => RealIsReal
  BY FunctionAssumption DEF Inv, TypeOK, Filled, RealIsReal, Function
<1>. QED
  BY Invariance, <1>1, PTL

\* A trace on stderr outlives fini.
THEOREM StderrSurvivesHolds == Spec => []StderrSurvives
<1>1. Inv => StderrSurvives
  BY DEF Inv, TakenDown, HarmExplained, StderrSurvives
<1>. QED
  BY Invariance, <1>1, PTL
=============================================================================
