---------------------------- MODULE TracerProofs ----------------------------
(***************************************************************************)
(* Proofs about Tracer, for every number of threads and calls.             *)
(***************************************************************************)
EXTENDS Tracer, SequenceTheorems, FiniteSetTheorems, TLAPS

-----------------------------------------------------------------------------
(* The scripts                                                             *)

Crossing == {"enter", "leave"}
Prints == Text \union Codes \union {"eol"}

\* What is shared by all wrappers: the call into the real library comes right
\* after a flush, and there is one.
FlushesBefore(s) ==
  \E k \in 1..Len(s) :
    /\ s[k] = "flush"
    /\ \A i \in 1..Len(s) : s[i] \in Crossing =>
         i = k + 1 \/ (i = k + 2 /\ s[k + 1] = "enter")

Bracketed == {s \in Seq(Op) : FlushesBefore(s)}
Inside == Seq(Op \ Crossing)

LEMMA InsideConcat ==
  ASSUME NEW a \in Inside, NEW b \in Inside
  PROVE  a \o b \in Inside
BY ConcatProperties DEF Inside

\* Operations of the wrapper around the call leave it bracketed.
LEMMA BracketedConcat ==
  ASSUME NEW s \in Bracketed, NEW a \in Inside
  PROVE  s \o a \in Bracketed
<1>1. s \in Seq(Op) /\ a \in Seq(Op)
  BY SeqMonotonic DEF Bracketed, Inside
<1>2. \A i \in 1..Len(a) : a[i] \notin Crossing
  BY ElementOfSeq DEF Inside
<1>3. /\ s \o a \in Seq(Op) /\ Len(s \o a) = Len(s) + Len(a)
      /\ \A i \in 1..(Len(s) + Len(a)) :
           (s \o a)[i] = IF i <= Len(s) THEN s[i] ELSE a[i - Len(s)]
  BY <1>1, ConcatProperties
<1>4. Len(s) \in Nat /\ Len(a) \in Nat
  BY <1>1, LenProperties
<1>5. PICK k \in 1..Len(s) :
        /\ s[k] = "flush"
        /\ \A i \in 1..Len(s) : s[i] \in Crossing =>
             i = k + 1 \/ (i = k + 2 /\ s[k + 1] = "enter")
  BY DEF Bracketed, FlushesBefore
<1>6. k \in 1..Len(s \o a) /\ (s \o a)[k] = "flush"
  BY <1>3, <1>4, <1>5
<1>7. ASSUME NEW i \in 1..Len(s \o a), (s \o a)[i] \in Crossing
      PROVE  i = k + 1 \/ (i = k + 2 /\ (s \o a)[k + 1] = "enter")
  <2>1. i <= Len(s)
    BY <1>2, <1>3, <1>4, <1>7
  <2> QED BY <1>3, <1>4, <1>5, <1>7, <2>1
<1> QED BY <1>3, <1>6, <1>7 DEF Bracketed, FlushesBefore

\* emit_flush, or the flush of emit_close, and then the call.
LEMMA RealBracketed ==
  ASSUME NEW a \in Inside
  PROVE  (a \o Flush) \o Real \in Bracketed /\ (a \o Close) \o Real \in Bracketed
<1>1. ASSUME NEW b \in Inside, b # <<>>, b[Len(b)] = "flush"
      PROVE  b \o Real \in Bracketed
  <2>1. b \in Seq(Op) /\ Real \in Seq(Op) /\ Len(Real) = 2
    BY SeqMonotonic DEF Inside, Real, Op
  <2>2. Real[1] = "enter" /\ Real[2] = "leave"
    BY DEF Real
  <2>3. Len(b) \in Nat \ {0} /\ \A i \in 1..Len(b) : b[i] \notin Crossing
    BY <1>1, EmptySeq, ElementOfSeq DEF Inside
  <2>4. /\ b \o Real \in Seq(Op) /\ Len(b \o Real) = Len(b) + 2
        /\ \A i \in 1..(Len(b) + 2) :
             (b \o Real)[i] = IF i <= Len(b) THEN b[i] ELSE Real[i - Len(b)]
    <3>1. /\ b \o Real \in Seq(Op) /\ Len(b \o Real) = Len(b) + Len(Real)
          /\ \A i \in 1..(Len(b) + Len(Real)) :
               (b \o Real)[i] = IF i <= Len(b) THEN b[i] ELSE Real[i - Len(b)]
      BY <2>1, ConcatProperties
    <3> QED BY <2>1, <3>1
  <2>5. (b \o Real)[Len(b)] = "flush" /\ (b \o Real)[Len(b) + 1] = "enter"
    BY <1>1, <2>2, <2>3, <2>4
  <2>6. ASSUME NEW i \in 1..Len(b \o Real), (b \o Real)[i] \in Crossing
        PROVE  i = Len(b) + 1 \/ i = Len(b) + 2
    BY <2>3, <2>4, <2>6
  <2>7. Len(b) \in 1..Len(b \o Real)
    BY <2>3, <2>4
  <2>8. FlushesBefore(b \o Real)
    BY <1>1, <2>5, <2>6, <2>7 DEF FlushesBefore
  <2> QED BY <2>4, <2>8 DEF Bracketed
<1>2. Flush \in Inside /\ Len(Flush) = 1 /\ Flush[1] = "flush"
  BY DEF Flush, Inside, Op, Crossing
<1>3. Close \in Inside /\ Len(Close) = 2 /\ Close[2] = "flush"
  BY DEF Close, Inside, Op, Crossing, Text
<1>4. Len(a) \in Nat
  BY LenProperties DEF Inside
<1>5. ASSUME NEW c \in Inside, Len(c) \in Nat \ {0}, c[Len(c)] = "flush"
      PROVE  /\ a \o c \in Inside /\ Len(a \o c) = Len(a) + Len(c)
             /\ (a \o c)[Len(a \o c)] = "flush"
  <2>1. /\ a \o c \in Inside /\ Len(a \o c) = Len(a) + Len(c)
        /\ \A i \in 1..(Len(a) + Len(c)) :
             (a \o c)[i] = IF i <= Len(a) THEN a[i] ELSE c[i - Len(a)]
    BY ConcatProperties DEF Inside
  <2>2. Len(a) + Len(c) \in 1..(Len(a) + Len(c)) /\ ~(Len(a) + Len(c) <= Len(a))
        /\ (Len(a) + Len(c)) - Len(a) = Len(c)
    BY <1>4, <1>5
  <2> QED BY <1>5, <2>1, <2>2
<1>6. /\ a \o Flush \in Inside /\ Len(a \o Flush) = Len(a) + 1 /\ (a \o Flush)[Len(a \o Flush)] = "flush"
      /\ a \o Close \in Inside /\ Len(a \o Close) = Len(a) + 2 /\ (a \o Close)[Len(a \o Close)] = "flush"
  <2>1. Flush \in Inside /\ Len(Flush) \in Nat \ {0} /\ Flush[Len(Flush)] = "flush"
    BY <1>2
  <2>2. Close \in Inside /\ Len(Close) \in Nat \ {0} /\ Close[Len(Close)] = "flush"
    BY <1>3
  <2> QED BY <1>2, <1>3, <1>5, <2>1, <2>2
<1>7. a \o Flush # <<>> /\ a \o Close # <<>>
  BY <1>4, <1>6, EmptySeq DEF Inside
<1> QED BY <1>1, <1>6, <1>7

\* The pieces of the scripts, except the call.
LEMMA Pieces ==
  /\ Open \in Inside /\ Args \in Inside /\ Pointer \in Inside
  /\ Close \in Inside /\ End \in Inside /\ Flush \in Inside
  /\ <<"ret">> \in Inside
  /\ \A c \in Codes : Code(c) \in Inside
<1>1. \A x \in Op \ Crossing : <<x>> \in Inside
  BY DEF Inside
<1>2. \A x, y \in Op \ Crossing : <<x, y>> \in Inside
  BY DEF Inside
<1>3. Text \union Codes \union Counter \union {"flush", "start", "stop", "eol"} = Op \ Crossing
  BY DEF Op, Crossing, Text, Codes, Counter
<1>4. <<>> \in Inside
  BY DEF Inside
<1>5. \A x \in Op \ Crossing : \A b : When(b, <<x>>) \in Inside
  BY <1>1, <1>4 DEF When
<1> DEFINE P == When(EmitTime, <<"prefix">>)
           S == When(EmitSpent \/ EmitStats, <<"start">>)
           C == When(EmitStats, <<"calls">>)
           E == When(EmitSpent \/ EmitStats, <<"stop">>)
           D == When(EmitSpent, <<"spent">>)
           F == When(EmitStats, <<"seconds">>)
           N == When(EmitStats, <<"errors">>)
<1>6. P \in Inside /\ S \in Inside /\ C \in Inside /\ E \in Inside /\ D \in Inside
      /\ F \in Inside /\ N \in Inside
  BY <1>3, <1>5 DEF Text, Counter
<1>7. <<"name", "open">> \in Inside /\ <<"eol", "flush">> \in Inside
  BY <1>2, <1>3 DEF Text
<1>8. Open = ((P \o <<"name", "open">>) \o S) \o C
  BY DEF Open
<1>9. End = ((E \o D) \o F) \o <<"eol", "flush">>
  BY DEF End
<1>10. \A c : Code(c) = <<c>> \o N
  BY DEF Code
<1> HIDE DEF P, S, C, E, D, F, N
<1>11. Open \in Inside /\ End \in Inside
  BY <1>6, <1>7, <1>8, <1>9, InsideConcat
<1>12. \A c \in Codes : Code(c) \in Inside
  BY <1>1, <1>3, <1>6, <1>10, InsideConcat
<1>13. Args \in Inside /\ <<"ret">> \in Inside /\ Pointer \in Inside /\ Close \in Inside
       /\ Flush \in Inside
  BY <1>1, <1>2, <1>3 DEF Args, Pointer, Close, Flush, Text
<1> QED BY <1>11, <1>12, <1>13

Scripts == {Status, Create, Address, Plain, Binary, Event, SVMFree}

LEMMA SequencesBracketed == Scripts \subseteq Bracketed
<1> DEFINE A == Open \o Args
           I == Code("result")
           J == Code("resultptr")
           U == Code("unset")
           G == Code("argument")
           R == <<"ret">>
<1>1. /\ A \in Inside /\ Open \in Inside /\ Args \in Inside /\ Close \in Inside /\ Flush \in Inside
      /\ End \in Inside /\ Pointer \in Inside /\ R \in Inside
      /\ I \in Inside /\ J \in Inside /\ U \in Inside /\ G \in Inside
  BY Pieces, InsideConcat DEF Codes
<1>2. /\ Status = ((((A \o Close) \o Real) \o R) \o I) \o End
      /\ Create = (((((A \o Flush) \o Real) \o J) \o Close) \o Pointer) \o End
      /\ Address = (((A \o Close) \o Real) \o Pointer) \o End
      /\ Plain = ((A \o Close) \o Real) \o End
      /\ Binary = ((((((A \o U) \o Flush) \o Real) \o J) \o Close) \o Pointer) \o End
      /\ Event = (((((A \o G) \o Close) \o Real) \o R) \o I) \o End
      /\ SVMFree = ((((((A \o Close) \o Args) \o Close) \o Real) \o R) \o I) \o End
  BY DEF Status, Create, Address, Plain, Binary, Event, SVMFree
<1> HIDE DEF A, I, J, U, G, R
<1>3. Status \in Bracketed /\ Address \in Bracketed /\ Plain \in Bracketed /\ Create \in Bracketed
  BY <1>1, <1>2, RealBracketed, BracketedConcat
<1>4. Binary \in Bracketed /\ Event \in Bracketed
  BY <1>1, <1>2, RealBracketed, BracketedConcat, InsideConcat
<1>5. SVMFree \in Bracketed
  BY <1>1, <1>2, RealBracketed, BracketedConcat, InsideConcat
<1> QED BY <1>3, <1>4, <1>5 DEF Scripts

\* All but one close their argument list once.
Single == {Status, Create, Address, Plain, Binary, Event}

\* A table of names, with one of the seven sequences for each.
Table(tab) == \A n \in DOMAIN tab :
  tab[n] \in Scripts /\ (n # "clEnqueueSVMFree" => tab[n] \in Single)

LEMMA TableOfOne ==
  ASSUME NEW s, NEW names, s \in Single \/ (s = SVMFree /\ names = {"clEnqueueSVMFree"})
  PROVE  Table(All(s, names))
BY DEF Table, All, Scripts, Single

LEMMA TableOfMany ==
  ASSUME NEW T, \A tab \in T : Table(tab)
  PROVE  Table(Merge(T))
<1> SUFFICES ASSUME NEW n \in UNION {DOMAIN tab : tab \in T}
             PROVE  Merge(T)[n] \in Scripts /\ (n # "clEnqueueSVMFree" => Merge(T)[n] \in Single)
  BY DEF Table, Merge
<1> DEFINE home == CHOOSE tab \in T : n \in DOMAIN tab
<1>1. home \in T /\ n \in DOMAIN home
  OBVIOUS
<1>2. Merge(T)[n] = home[n]
  BY DEF Merge
<1> QED BY <1>1, <1>2 DEF Table

\* Every wrapper follows one of the seven sequences.
LEMMA ScriptSequences == Table(Script)
<1>1. /\ Status \in Single /\ Create \in Single /\ Address \in Single
      /\ Plain \in Single /\ Binary \in Single /\ Event \in Single
  BY DEF Single
<1>2. /\ \A names : /\ Table(All(Status, names)) /\ Table(All(Create, names))
                    /\ Table(All(Address, names)) /\ Table(All(Plain, names))
                    /\ Table(All(Binary, names)) /\ Table(All(Event, names))
      /\ Table(All(SVMFree, {"clEnqueueSVMFree"}))
  BY <1>1, TableOfOne
<1>3. Table(PlatformCalls) /\ Table(ContextCalls) /\ Table(MemObjectCalls) /\ Table(MemInfoCalls)
  BY <1>2, TableOfMany DEF PlatformCalls, ContextCalls, MemObjectCalls, MemInfoCalls
<1>4. Table(SamplerCalls) /\ Table(ProgramCalls) /\ Table(KernelCalls) /\ Table(KernelInfoCalls)
  BY <1>2, TableOfMany DEF SamplerCalls, ProgramCalls, KernelCalls, KernelInfoCalls
<1>5. Table(EventCalls) /\ Table(BufferCopyCalls) /\ Table(BufferFillCalls) /\ Table(ImageCalls)
  BY <1>2, TableOfMany DEF EventCalls, BufferCopyCalls, BufferFillCalls, ImageCalls
<1>6. Table(MapCalls) /\ Table(EnqueueCalls) /\ Table(SVMCalls) /\ Table(DeprecatedCalls)
      /\ Table(DeprecatedQueueCalls)
  BY <1>2, TableOfMany DEF MapCalls, EnqueueCalls, SVMCalls, DeprecatedCalls, DeprecatedQueueCalls
<1> QED BY <1>3, <1>4, <1>5, <1>6, TableOfMany DEF Script

LEMMA ScriptBracketed == \A f \in Function : Script[f] \in Bracketed
BY ScriptSequences, SequencesBracketed, FunctionAssumption DEF Table, FuncNames

-----------------------------------------------------------------------------
(* Types                                                                   *)

\* A thread that has something to do is in a function.
InFunction == \A t \in Thread : ~Idle(t) => fn[t] \in Function

\* Taking the first operation off a thread's list.
LEMMA AdvanceType ==
  ASSUME TypeOK, NEW t \in Thread, ~Idle(t), Advance(t)
  PROVE  /\ Head(todo[t]) \in Op
         /\ todo' \in [Thread -> Seq(Op)]
         /\ \A u \in Thread : u # t => todo'[u] = todo[u]
<1>1. todo[t] \in Seq(Op) /\ todo[t] # <<>>
  BY DEF TypeOK, Idle
<1>2. Head(todo[t]) \in Op /\ Tail(todo[t]) \in Seq(Op)
  BY <1>1, HeadTailProperties
<1> QED BY <1>2 DEF Advance, TypeOK

LEMMA PutType ==
  ASSUME TypeOK, NEW t \in Thread, NEW op \in Text \union Codes, Put(t, op)
  PROVE  line' \in Line /\ pending' \subseteq Thread
<1>1. line'.first \in Text \union Codes \union {"none"}
  BY DEF Put, TypeOK, Line
<1> QED BY <1>1 DEF Put, TypeOK, Line

\* Assigning to a field of a call's locals.
LEMMA FrameField ==
  ASSUME NEW r \in Frame
  PROVE  /\ \A x \in Int : [r EXCEPT !.start = x] \in Frame
         /\ \A x \in Int : [r EXCEPT !.elapsed = x] \in Frame
         /\ \A x \in Outcome : [r EXCEPT !.result = x] \in Frame
         /\ \A x \in Outcome \union {"none"} : [r EXCEPT !.shown = x] \in Frame
         /\ [r EXCEPT !.inside = @ + 1] \in Frame
BY DEF Frame

LEMMA TypeStep ==
  ASSUME TypeOK, InFunction, [Next]_vars
  PROVE  TypeOK' /\ InFunction'
<1> USE DEF TypeOK, InFunction
<1>1. CASE UNCHANGED vars \/ Finished
  BY <1>1 DEF vars, Finished, Idle
<1>2. CASE Tick
  <2>1. frame' \in [Thread -> Frame]
    BY <1>2, FrameField DEF Tick
  <2>2. UNCHANGED <<todo, fn, loaded, line, pending, stats, due, raced, failed, begun, died>>
    BY <1>2 DEF Tick
  <2>3. time' \in Nat /\ clock' \in Int
    BY <1>2 DEF Tick
  <2> QED BY <2>1, <2>2, <2>3 DEF Idle
<1>3. ASSUME NEW t \in Thread, Begin(t) PROVE TypeOK' /\ InFunction'
  <2>1. PICK f \in Function, given \in BOOLEAN :
          /\ todo' = [todo EXCEPT ![t] = Script[f]]
          /\ fn' = [fn EXCEPT ![t] = f]
          /\ frame' = [frame EXCEPT ![t] = NewFrame(given)]
    BY <1>3 DEF Begin
  <2>2. NewFrame(given) \in Frame
    BY DEF NewFrame, Frame, Outcome
  <2>3. UNCHANGED <<loaded, line, pending, stats, due, raced, failed, time, clock, died>>
        /\ begun' = begun + 1
    BY <1>3 DEF Begin
  <2>4. Script[f] \in Seq(Op)
    BY ScriptBracketed DEF Bracketed
  <2> QED BY <2>1, <2>2, <2>3, <2>4 DEF Idle
<1>4. ASSUME NEW t \in Thread, Step(t), ~Begin(t) PROVE TypeOK' /\ InFunction'
  <2>1. fn' = fn /\ ~Idle(t) /\ fn[t] \in Function
    BY <1>4 DEF Step, Emit, Newline, FlushOut, EmitCode, SkipCount, Load, Store,
       StartClock, StopClock, Enter, Leave, At
  <2>2. UNCHANGED <<begun, time, clock>> /\ died' \in BOOLEAN
    BY <1>4 DEF Step, Emit, Newline, FlushOut, EmitCode, SkipCount, Load, Store,
       StartClock, StopClock, Enter, Leave
  <2>3. CASE Load(t)
    <3>1. PICK c \in Counter : loaded' = [loaded EXCEPT ![t] = stats[fn[t]][c]]
      BY <2>3 DEF Load
    <3>2. UNCHANGED <<todo, frame, line, pending, stats, due, failed>> /\ raced' \subseteq Function
      BY <2>1, <2>3 DEF Load
    <3>3. stats[fn[t]][c] \in Int
      BY <2>1
    <3> QED BY <2>1, <2>2, <3>1, <3>2, <3>3 DEF Idle
  <2>4. CASE ~Load(t)
    <3>1. Advance(t)
      BY <1>4, <2>4 DEF Step, Emit, Newline, FlushOut, EmitCode, SkipCount, Store,
         StartClock, StopClock, Enter, Leave
    <3>2. todo' \in [Thread -> Seq(Op)] /\ \A u \in Thread : u # t => todo'[u] = todo[u]
      BY <2>1, <3>1, AdvanceType
    <3>3. InFunction'
      BY <2>1, <3>2 DEF Idle
    <3>4. line' \in Line /\ pending' \subseteq Thread
      <4>1. CASE Emit(t)
        BY <4>1, PutType DEF Emit, At
      <4>2. CASE EmitCode(t)
        BY <4>2, PutType DEF EmitCode
      <4>3. CASE Newline(t) \/ FlushOut(t)
        BY <4>3 DEF Newline, FlushOut, EmptyLine, Line
      <4>4. CASE UNCHANGED <<line, pending>>
        BY <4>4
      <4> QED BY <1>4, <2>4, <4>1, <4>2, <4>3, <4>4 DEF Step, SkipCount, Store, StartClock,
             StopClock, Enter, Leave
    <3>5. frame' \in [Thread -> Frame] /\ failed' \in [Function -> Nat]
      <4>1. CASE EmitCode(t)
        <5>1. PICK x \in Codes : \E shown \in CodeShown(t, x) : frame' = [frame EXCEPT ![t].shown = shown]
          BY <4>1 DEF EmitCode
        <5>2. frame[t].result \in Outcome
          BY DEF Frame
        <5>3. CodeShown(t, x) \subseteq Outcome \union {"none"}
          BY <5>2 DEF CodeShown, Codes
        <5>4. PICK shown \in Outcome \union {"none"} : frame' = [frame EXCEPT ![t].shown = shown]
          BY <5>1, <5>3
        <5>5. [frame[t] EXCEPT !.shown = shown] \in Frame
          BY FrameField
        <5> QED BY <4>1, <5>4, <5>5 DEF EmitCode
      <4>2. CASE StartClock(t) \/ StopClock(t)
        <5>1. frame[t].start \in Int
          BY DEF Frame
        <5>4. clock - frame[t].start \in Int
          BY <5>1
        <5>2. [frame[t] EXCEPT !.start = clock] \in Frame
          BY FrameField
        <5>3. [frame[t] EXCEPT !.elapsed = clock - frame[t].start] \in Frame
          BY FrameField, <5>4
        <5> QED BY <4>2, <5>2, <5>3 DEF StartClock, StopClock
      <4>3. CASE Leave(t)
        <5>1. PICK result \in Outcome : frame' = [frame EXCEPT ![t].result = result]
          BY <4>3 DEF Leave
        <5>2. [frame[t] EXCEPT !.result = result] \in Frame
          BY FrameField
        <5>3. failed' \in [Function -> Nat]
          BY <2>1, <4>3 DEF Leave
        <5> QED BY <5>1, <5>2, <5>3
      <4>4. CASE UNCHANGED <<frame, failed>>
        BY <4>4
      <4> QED BY <1>4, <2>4, <4>1, <4>2, <4>3, <4>4 DEF Step, SkipCount, Store, Emit,
             Newline, FlushOut, Enter
    <3>6. CASE Store(t)
      <4>1. PICK c \in Counter :
              /\ loaded[t] # Nothing
              /\ stats' = [stats EXCEPT ![fn[t]][c] = loaded[t] + Amount(t, c)]
              /\ due' = [due EXCEPT ![fn[t]][c] = @ + Amount(t, c)]
              /\ loaded' = [loaded EXCEPT ![t] = Nothing]
        BY <3>6 DEF Store
      <4>2. Amount(t, c) \in Int /\ loaded[t] \in Int
        BY <4>1 DEF Amount, Frame
      <4>3. /\ stats' \in [Function -> [Counter -> Int]] /\ due' \in [Function -> [Counter -> Int]]
            /\ loaded' \in [Thread -> Int \union {Nothing}]
        BY <2>1, <4>1, <4>2
      <4> QED BY <2>1, <2>2, <3>2, <3>3, <3>4, <3>5, <3>6, <4>3 DEF Store
    <3>7. CASE ~Store(t)
      <4>1. UNCHANGED <<loaded, stats, due, raced>>
        BY <1>4, <2>4, <3>7 DEF Step, Emit, Newline, FlushOut, EmitCode, SkipCount,
           StartClock, StopClock, Enter, Leave
      <4> QED BY <2>1, <2>2, <3>2, <3>3, <3>4, <3>5, <4>1
    <3> QED BY <3>6, <3>7
  <2> QED BY <2>3, <2>4
<1> QED BY <1>1, <1>2, <1>3, <1>4 DEF Next

\* Types of the tracer's state.
THEOREM TracerTypeCorrect == Spec => [](TypeOK /\ InFunction)
<1>1. Init => TypeOK /\ InFunction
  <2> SUFFICES ASSUME Init PROVE TypeOK /\ InFunction
    OBVIOUS
  <2>1. NewFrame(TRUE) \in Frame /\ EmptyLine \in Line
    BY DEF NewFrame, Frame, Outcome, EmptyLine, Line
  <2>2. Zero \in [Function -> [Counter -> Int]]
    BY DEF Zero
  <2>3. frame \in [Thread -> Frame] /\ line \in Line
    BY <2>1 DEF Init
  <2>4. stats \in [Function -> [Counter -> Int]] /\ due \in [Function -> [Counter -> Int]]
    BY <2>2 DEF Init
  <2>5. todo \in [Thread -> Seq(Op)] /\ \A t \in Thread : Idle(t)
    BY DEF Init, Idle
  <2>6. loaded \in [Thread -> Int \union {Nothing}] /\ fn \in [Thread -> Function \union {NoFunction}]
    BY DEF Init
  <2>7. raced \subseteq Function /\ failed \in [Function -> Nat] /\ pending \subseteq Thread
        /\ begun \in Nat /\ time \in Nat /\ clock \in Int
    BY DEF Init
  <2>8. died \in BOOLEAN
    BY DEF Init
  <2> QED BY <2>3, <2>4, <2>5, <2>6, <2>7, <2>8 DEF TypeOK, InFunction
<1> QED BY <1>1, TypeStep, PTL DEF Spec

-----------------------------------------------------------------------------
(* Counters                                                                *)
(*                                                                         *)
(* What func_stats holds is tied to what it should hold through the values *)
(* the threads have loaded and not yet stored, so the inductive invariant  *)
(* speaks of those too.                                                    *)

\* Thread t is half-way through an update of counter c of function f.
Holds(t, f, c) == loaded[t] # Nothing /\ fn[t] = f /\ Head(todo[t]) = c

\* Only a thread at a counter it is going to store holds a loaded value.
LoadedAtCounter == \A t \in Thread : loaded[t] # Nothing =>
  /\ ~Idle(t)
  /\ Head(todo[t]) \in Counter
  /\ Counts(t, Head(todo[t]))

\* Neither a counter nor a loaded value runs ahead of the updates made.
Bounded == \A f \in Function : \A c \in {"calls", "errors"} :
  /\ 0 <= stats[f][c] /\ stats[f][c] <= due[f][c]
  /\ \A t \in Thread : Holds(t, f, c) => 0 <= loaded[t] /\ loaded[t] <= due[f][c]

\* Until two updates of one of its fields overlap, a function's counters are
\* right and so is the value its only updater has loaded.
ExactSoFar == \A f \in Function \ raced :
  /\ stats[f] = due[f]
  /\ \A t \in Thread : \A c \in Counter : Holds(t, f, c) => loaded[t] = stats[f][c]
  /\ \A t, u \in Thread : \A c \in Counter : Holds(t, f, c) /\ Holds(u, f, c) => t = u

CounterInv == LoadedAtCounter /\ Bounded /\ CalledIsListed /\ ExactSoFar

\* Steps that leave the counters and every thread half-way through an update alone.
LEMMA QuietStep ==
  ASSUME TypeOK, InFunction, CounterInv, UNCHANGED <<loaded, stats, due, raced>>,
         \A t \in Thread : loaded[t] # Nothing =>
           todo'[t] = todo[t] /\ fn'[t] = fn[t] /\ frame'[t].shown = frame[t].shown
  PROVE  CounterInv'
<1>1. \A t \in Thread, f \in Function, c \in Counter : Holds(t, f, c)' => Holds(t, f, c)
  BY DEF Holds
<1>2. LoadedAtCounter'
  BY DEF CounterInv, LoadedAtCounter, Idle, Counts
<1>3. Bounded'
  BY <1>1 DEF CounterInv, Bounded, Counter
<1>4. CalledIsListed'
  BY DEF CounterInv, CalledIsListed
<1>5. ExactSoFar'
  BY <1>1 DEF CounterInv, ExactSoFar
<1> QED BY <1>2, <1>3, <1>4, <1>5 DEF CounterInv

\* The read half of an update.
LEMMA LoadStep ==
  ASSUME TypeOK, InFunction, CounterInv, NEW t \in Thread, Load(t)
  PROVE  CounterInv'
<1> USE DEF TypeOK
<1>1. PICK c \in Counter :
        /\ At(t, {c}) /\ Counts(t, c) /\ loaded[t] = Nothing
        /\ loaded' = [loaded EXCEPT ![t] = stats[fn[t]][c]]
        /\ raced' = IF Overlaps(t, c) THEN raced \union {fn[t]} ELSE raced
  BY DEF Load
<1>2. UNCHANGED <<todo, fn, frame, stats, due>>
  BY DEF Load
<1>3. fn[t] \in Function /\ stats[fn[t]][c] \in Int /\ Head(todo[t]) = c /\ ~Idle(t)
  BY <1>1 DEF InFunction, At
<1>4. loaded'[t] = stats[fn[t]][c] /\ \A u \in Thread : u # t => loaded'[u] = loaded[u]
  BY <1>1
<1>5. \A u \in Thread, f \in Function, d \in Counter :
        Holds(u, f, d)' => Holds(u, f, d) \/ (u = t /\ f = fn[t] /\ d = c)
  BY <1>2, <1>3, <1>4 DEF Holds
<1>6. LoadedAtCounter'
  BY <1>1, <1>2, <1>3, <1>4 DEF CounterInv, LoadedAtCounter, Idle, Counts
<1>7. Bounded'
  <2> SUFFICES ASSUME NEW f \in Function, NEW d \in {"calls", "errors"}, NEW u \in Thread,
                      Holds(u, f, d)'
               PROVE  0 <= loaded'[u] /\ loaded'[u] <= due'[f][d]
    BY <1>2 DEF CounterInv, Bounded
  <2>1. CASE u = t
    BY <2>1, <1>2, <1>3, <1>4 DEF CounterInv, Bounded, Holds
  <2>2. CASE u # t
    BY <2>2, <1>2, <1>4 DEF CounterInv, Bounded, Holds
  <2> QED BY <2>1, <2>2
<1>8. CalledIsListed'
  BY <1>2 DEF CounterInv, CalledIsListed
<1>9. ExactSoFar'
  <2> SUFFICES ASSUME NEW f \in Function \ raced'
               PROVE  /\ stats'[f] = due'[f]
                      /\ \A u \in Thread : \A d \in Counter :
                           Holds(u, f, d)' => loaded'[u] = stats'[f][d]
                      /\ \A u, v \in Thread : \A d \in Counter :
                           Holds(u, f, d)' /\ Holds(v, f, d)' => u = v
    BY DEF ExactSoFar
  <2>1. f \in Function \ raced
    BY <1>1
  <2>2. stats'[f] = due'[f]
    BY <2>1, <1>2 DEF CounterInv, ExactSoFar
  <2>3. ASSUME NEW u \in Thread, NEW d \in Counter, Holds(u, f, d)'
        PROVE  loaded'[u] = stats'[f][d]
    <3>1. CASE u = t
      BY <2>3, <3>1, <1>2, <1>3, <1>4 DEF Holds
    <3>2. CASE u # t
      BY <2>1, <2>3, <3>2, <1>2, <1>4, <1>5 DEF CounterInv, ExactSoFar
    <3> QED BY <3>1, <3>2
  <2>4. ASSUME NEW u \in Thread, NEW d \in Counter, Holds(u, f, d), f = fn[t], d = c, u # t
        PROVE  FALSE
    <3>1. ~Overlaps(t, c)
      BY <1>1, <2>4
    <3> QED BY <2>4, <3>1 DEF Overlaps, Holds
  <2>5. ASSUME NEW u \in Thread, NEW v \in Thread, NEW d \in Counter,
               Holds(u, f, d)', Holds(v, f, d)'
        PROVE  u = v
    <3>1. ~Holds(t, f, d)
      BY <1>1 DEF Holds
    <3>2. \A w \in {u, v} : w = t => f = fn[t] /\ d = c
      BY <1>5, <2>5, <3>1
    <3>3. \A w \in {u, v} : w # t => Holds(w, f, d)
      BY <1>5, <2>5
    <3>4. CASE u # t /\ v # t
      BY <2>1, <3>3, <3>4 DEF CounterInv, ExactSoFar
    <3>5. CASE u = t \/ v = t
      BY <2>4, <3>2, <3>3, <3>5
    <3> QED BY <3>4, <3>5
  <2> QED BY <2>2, <2>3, <2>5
<1> QED BY <1>6, <1>7, <1>8, <1>9 DEF CounterInv

\* The write half.
LEMMA StoreStep ==
  ASSUME TypeOK, InFunction, CounterInv, NEW t \in Thread, Store(t)
  PROVE  CounterInv'
<1> USE DEF TypeOK
<1>1. PICK c \in Counter :
        /\ At(t, {c}) /\ loaded[t] # Nothing
        /\ stats' = [stats EXCEPT ![fn[t]][c] = loaded[t] + Amount(t, c)]
        /\ due' = [due EXCEPT ![fn[t]][c] = @ + Amount(t, c)]
        /\ loaded' = [loaded EXCEPT ![t] = Nothing]
  BY DEF Store
<1>2. UNCHANGED <<fn, frame, raced>> /\ Advance(t)
  BY DEF Store
<1>3. fn[t] \in Function /\ Holds(t, fn[t], c) /\ ~Idle(t)
  BY <1>1 DEF InFunction, At, Holds
<1>4. \A u \in Thread : u # t => loaded'[u] = loaded[u] /\ todo'[u] = todo[u]
  BY <1>1, <1>2 DEF Advance
<1>5. loaded'[t] = Nothing
  BY <1>1
<1>6. Amount(t, c) \in Int /\ (c # "seconds" => Amount(t, c) = 1) /\ loaded[t] \in Int
  BY <1>1 DEF Amount, Frame
<1>7. PICK a \in Int, b \in Int : a = Amount(t, c) /\ b = loaded[t]
  BY <1>6
<1>8. \A f \in Function, d \in Counter :
        IF f = fn[t] /\ d = c THEN stats'[f][d] = b + a /\ due'[f][d] = due[f][d] + a
        ELSE stats'[f][d] = stats[f][d] /\ due'[f][d] = due[f][d]
  BY <1>1, <1>3, <1>7
<1>9. \A u \in Thread, f \in Function, d \in Counter :
        Holds(u, f, d)' => u # t /\ Holds(u, f, d)
  BY <1>2, <1>4, <1>5 DEF Holds
<1>10. LoadedAtCounter'
  <2> SUFFICES ASSUME NEW u \in Thread, loaded'[u] # Nothing
               PROVE  ~Idle(u)' /\ Head(todo'[u]) \in Counter /\ Counts(u, Head(todo[u]))'
    BY DEF LoadedAtCounter
  <2>1. u # t
    BY <1>5
  <2> QED BY <2>1, <1>2, <1>4 DEF CounterInv, LoadedAtCounter, Idle, Counts
<1>11. Bounded'
  <2> SUFFICES ASSUME NEW f \in Function, NEW d \in {"calls", "errors"}
               PROVE  /\ 0 <= stats'[f][d] /\ stats'[f][d] <= due'[f][d]
                      /\ \A u \in Thread : Holds(u, f, d)' =>
                           0 <= loaded'[u] /\ loaded'[u] <= due'[f][d]
    BY DEF Bounded
  <2>1. d \in Counter /\ d # "seconds"
    BY DEF Counter
  <2>2. 0 <= stats[f][d] /\ stats[f][d] <= due[f][d] /\ stats[f][d] \in Int /\ due[f][d] \in Int
    BY <2>1 DEF CounterInv, Bounded
  <2>3. f = fn[t] /\ d = c => 0 <= b /\ b <= due[f][d] /\ a = 1
    BY <1>3, <1>6, <1>7, <2>1 DEF CounterInv, Bounded
  <2>4. 0 <= stats'[f][d] /\ stats'[f][d] <= due'[f][d] /\ due[f][d] <= due'[f][d] /\ due'[f][d] \in Int
    BY <1>8, <2>1, <2>2, <2>3
  <2>5. ASSUME NEW u \in Thread, Holds(u, f, d)'
        PROVE  0 <= loaded'[u] /\ loaded'[u] <= due'[f][d]
    <3>1. loaded'[u] = loaded[u] /\ Holds(u, f, d)
      BY <1>4, <1>9, <2>1, <2>5
    <3>2. 0 <= loaded[u] /\ loaded[u] <= due[f][d] /\ loaded[u] \in Int
      BY <3>1 DEF CounterInv, Bounded, Holds
    <3> QED BY <2>2, <2>4, <3>1, <3>2
  <2> QED BY <2>4, <2>5
<1>12. CalledIsListed'
  <2> SUFFICES ASSUME NEW f \in Function, due'[f]["calls"] > 0
               PROVE  stats'[f]["calls"] > 0
    BY DEF CalledIsListed
  <2>1. "calls" \in Counter
    BY DEF Counter
  <2>2. CASE f = fn[t] /\ c = "calls"
    <3>1. 0 <= b /\ a = 1
      BY <1>3, <1>6, <1>7, <2>2 DEF CounterInv, Bounded
    <3> QED BY <1>8, <2>1, <2>2, <3>1
  <2>3. CASE ~(f = fn[t] /\ c = "calls")
    BY <1>8, <2>1, <2>3 DEF CounterInv, CalledIsListed
  <2> QED BY <2>2, <2>3
<1>13. ExactSoFar'
  <2> SUFFICES ASSUME NEW f \in Function \ raced
               PROVE  /\ stats'[f] = due'[f]
                      /\ \A u \in Thread : \A d \in Counter :
                           Holds(u, f, d)' => loaded'[u] = stats'[f][d]
                      /\ \A u, v \in Thread : \A d \in Counter :
                           Holds(u, f, d)' /\ Holds(v, f, d)' => u = v
    BY <1>2 DEF ExactSoFar
  <2>1. stats[f] = due[f]
    BY DEF CounterInv, ExactSoFar
  <2>2. f = fn[t] => b = stats[f][c]
    BY <1>3, <1>7 DEF CounterInv, ExactSoFar
  <2>3. \A d \in Counter : stats'[f][d] = due'[f][d]
    BY <1>8, <2>1, <2>2
  <2>4. stats'[f] = due'[f]
    <3>1. stats'[f] = [d \in Counter |-> stats'[f][d]] /\ due'[f] = [d \in Counter |-> due'[f][d]]
      BY <1>1
    <3> QED BY <2>3, <3>1
  <2>5. ASSUME NEW u \in Thread, NEW d \in Counter, Holds(u, f, d)'
        PROVE  loaded'[u] = stats'[f][d]
    <3>1. u # t /\ Holds(u, f, d) /\ loaded'[u] = loaded[u]
      BY <1>4, <1>9, <2>5
    <3>2. loaded[u] = stats[f][d]
      BY <3>1 DEF CounterInv, ExactSoFar
    <3>3. ~(f = fn[t] /\ d = c)
      BY <1>3, <3>1 DEF CounterInv, ExactSoFar
    <3> QED BY <1>8, <3>1, <3>2, <3>3
  <2>6. ASSUME NEW u \in Thread, NEW v \in Thread, NEW d \in Counter,
               Holds(u, f, d)', Holds(v, f, d)'
        PROVE  u = v
    BY <1>9, <2>6 DEF CounterInv, ExactSoFar
  <2> QED BY <2>4, <2>5, <2>6
<1> QED BY <1>10, <1>11, <1>12, <1>13 DEF CounterInv

LEMMA CounterStep ==
  ASSUME TypeOK, InFunction, CounterInv, [Next]_vars
  PROVE  CounterInv'
<1>1. CASE UNCHANGED vars \/ Finished
  BY <1>1, QuietStep DEF vars, Finished
<1>2. CASE Tick
  <2>1. \A t \in Thread : frame'[t].shown = frame[t].shown
    BY <1>2 DEF Tick, TypeOK, Frame
  <2> QED BY <1>2, <2>1, QuietStep DEF Tick
<1>3. ASSUME NEW t \in Thread, Step(t), ~Load(t), ~Store(t) PROVE CounterInv'
  <2>1. UNCHANGED <<loaded, stats, due, raced>>
    BY <1>3 DEF Step, Begin, Emit, Newline, FlushOut, EmitCode, SkipCount,
       StartClock, StopClock, Enter, Leave
  <2>2. loaded[t] = Nothing
    <3>1. CASE Begin(t)
      BY <3>1 DEF Begin, CounterInv, LoadedAtCounter
    <3>2. CASE SkipCount(t)
      BY <3>2 DEF SkipCount, At, CounterInv, LoadedAtCounter
    <3>3. CASE ~Begin(t) /\ ~SkipCount(t)
      <4>1. ~Idle(t) /\ Head(todo[t]) \notin Counter
        BY <1>3, <3>3 DEF Step, Emit, Newline, FlushOut, EmitCode, StartClock, StopClock,
           Enter, Leave, At, Text, Codes, Counter
      <4> QED BY <4>1 DEF CounterInv, LoadedAtCounter
    <3> QED BY <3>1, <3>2, <3>3
  <2>3. \A u \in Thread : u # t => todo'[u] = todo[u] /\ fn'[u] = fn[u] /\ frame'[u] = frame[u]
    BY <1>3 DEF Step, Begin, Emit, Newline, FlushOut, EmitCode, SkipCount,
       StartClock, StopClock, Enter, Leave, Advance, TypeOK
  <2> QED BY <2>1, <2>2, <2>3, QuietStep
<1> QED BY <1>1, <1>2, <1>3, LoadStep, StoreStep DEF Next

LEMMA CountersInvariant == Spec => []CounterInv
<1>1. Init => CounterInv
  <2> SUFFICES ASSUME Init PROVE CounterInv
    OBVIOUS
  <2>1. \A t \in Thread : loaded[t] = Nothing
    BY DEF Init
  <2>2. stats = due /\ \A f \in Function : \A c \in Counter : stats[f][c] = 0 /\ due[f][c] = 0
    BY DEF Init, Zero
  <2>3. \A t \in Thread, f \in Function, c \in Counter : ~Holds(t, f, c)
    BY <2>1 DEF Holds
  <2>4. LoadedAtCounter
    BY <2>1 DEF LoadedAtCounter
  <2>5. Bounded /\ CalledIsListed
    BY <2>2, <2>3 DEF Bounded, CalledIsListed, Counter
  <2>6. ExactSoFar
    BY <2>2, <2>3 DEF ExactSoFar
  <2> QED BY <2>4, <2>5, <2>6 DEF CounterInv
<1> QED BY <1>1, TracerTypeCorrect, CounterStep, PTL DEF Spec

\* No counter of the summary runs ahead of what happened (opencl.c:439, 575, 585).
THEOREM NoOvercountHolds == Spec => []NoOvercount
<1>1. CounterInv => NoOvercount
  BY DEF CounterInv, Bounded, NoOvercount
<1> QED BY <1>1, CountersInvariant, PTL

\* A function that was called is never missing from the summary (ocltrace.c:242).
THEOREM CalledIsListedHolds == Spec => []CalledIsListed
<1>1. CounterInv => CalledIsListed
  BY DEF CounterInv
<1> QED BY <1>1, CountersInvariant, PTL

\* Counts are exact for every function no two updates of which overlapped.
THEOREM ExactUnlessRacedHolds == Spec => []ExactUnlessRaced
<1>1. CounterInv => ExactUnlessRaced
  BY DEF CounterInv, ExactSoFar, ExactUnlessRaced
<1> QED BY <1>1, CountersInvariant, PTL
-----------------------------------------------------------------------------
(* A call is in the file before control enters the library                 *)

\* The rest s of a script prints nothing between its last flush and the call,
\* nor before it if text is in the buffer already and no flush is to come.
Clean(s, dirty) ==
  \A i \in 1..Len(s) : s[i] \in Crossing =>
    \/ \E k \in 1..(i - 1) : s[k] = "flush" /\ \A j \in (k + 1)..(i - 1) : s[j] \notin Prints
    \/ ~dirty /\ \A j \in 1..(i - 1) : s[j] \notin Prints

CleanSoFar == \A t \in Thread : Clean(todo[t], t \in pending)

LEMMA BracketedClean ==
  ASSUME NEW s \in Bracketed
  PROVE  Clean(s, TRUE)
<1>1. PICK k \in 1..Len(s) :
        /\ s[k] = "flush"
        /\ \A i \in 1..Len(s) : s[i] \in Crossing =>
             i = k + 1 \/ (i = k + 2 /\ s[k + 1] = "enter")
  BY DEF Bracketed, FlushesBefore
<1>2. Len(s) \in Nat
  BY LenProperties DEF Bracketed
<1> SUFFICES ASSUME NEW i \in 1..Len(s), s[i] \in Crossing
             PROVE  k \in 1..(i - 1) /\ \A j \in (k + 1)..(i - 1) : s[j] \notin Prints
  BY <1>1 DEF Clean
<1>3. i = k + 1 \/ (i = k + 2 /\ s[k + 1] = "enter")
  BY <1>1
<1>4. "enter" \notin Prints
  BY DEF Prints, Text, Codes
<1> QED BY <1>2, <1>3, <1>4

\* Executing the first operation of s.
LEMMA CleanTail ==
  ASSUME NEW s \in Seq(Op), s # <<>>, NEW d \in BOOLEAN, NEW e \in BOOLEAN, Clean(s, d),
         Head(s) = "flush" => ~e,
         Head(s) # "flush" /\ Head(s) \notin Prints => (e => d)
  PROVE  Clean(Tail(s), e)
<1>1. /\ Len(s) \in Nat \ {0} /\ Head(s) = s[1] /\ Len(Tail(s)) = Len(s) - 1
      /\ \A i \in 1..Len(Tail(s)) : Tail(s)[i] = s[i + 1]
  BY EmptySeq, HeadTailProperties
<1> SUFFICES ASSUME NEW i \in 1..Len(Tail(s)), Tail(s)[i] \in Crossing
             PROVE  \/ \E k \in 1..(i - 1) : /\ Tail(s)[k] = "flush"
                                            /\ \A j \in (k + 1)..(i - 1) : Tail(s)[j] \notin Prints
                    \/ ~e /\ \A j \in 1..(i - 1) : Tail(s)[j] \notin Prints
  BY DEF Clean
<1>2. i + 1 \in 1..Len(s) /\ s[i + 1] \in Crossing
  BY <1>1
<1>3. ASSUME NEW k \in 1..i, s[k] = "flush", \A j \in (k + 1)..i : s[j] \notin Prints
      PROVE  \/ \E m \in 1..(i - 1) : /\ Tail(s)[m] = "flush"
                                     /\ \A j \in (m + 1)..(i - 1) : Tail(s)[j] \notin Prints
             \/ ~e /\ \A j \in 1..(i - 1) : Tail(s)[j] \notin Prints
  <2>1. CASE k = 1
    BY <1>1, <1>3, <2>1
  <2>2. CASE k # 1
    <3>1. k - 1 \in 1..(i - 1) /\ Tail(s)[k - 1] = "flush"
      BY <1>1, <1>3, <2>2
    <3>2. \A j \in ((k - 1) + 1)..(i - 1) : Tail(s)[j] \notin Prints
      BY <1>1, <1>3, <2>2
    <3> QED BY <3>1, <3>2
  <2> QED BY <2>1, <2>2
<1>4. CASE ~d /\ \A j \in 1..i : s[j] \notin Prints
  <2>1. ~e
    BY <1>1, <1>4
  <2> QED BY <1>1, <1>4, <2>1
<1>5. (i + 1) - 1 = i
  OBVIOUS
<1> QED BY <1>2, <1>3, <1>4, <1>5 DEF Clean

LEMMA CleanStep ==
  ASSUME TypeOK, CleanSoFar, [Next]_vars
  PROVE  CleanSoFar'
<1> USE DEF CleanSoFar
<1>1. CASE UNCHANGED <<todo, pending>>
  BY <1>1
<1>2. ASSUME NEW t \in Thread, Step(t) PROVE CleanSoFar'
  <2> SUFFICES ASSUME NEW u \in Thread PROVE Clean(todo'[u], u \in pending')
    OBVIOUS
  <2>1. todo[u] \in Seq(Op) /\ pending \subseteq Thread
    BY DEF TypeOK
  <2>2. CASE u # t
    <3>1. todo'[u] = todo[u] /\ (u \in pending' => u \in pending)
      BY <1>2, <2>2 DEF Step, Begin, Emit, Newline, FlushOut, EmitCode, SkipCount, Load, Store,
         StartClock, StopClock, Enter, Leave, Advance, Put, TypeOK
    <3> QED BY <3>1 DEF Clean
  <2>3. CASE u = t /\ Begin(t)
    <3>1. PICK f \in Function : todo'[t] = Script[f]
      BY <2>3 DEF Begin, TypeOK
    <3>2. Clean(Script[f], TRUE)
      BY ScriptBracketed, BracketedClean
    <3> QED BY <2>3, <3>1, <3>2 DEF Clean
  <2>4. CASE u = t /\ Load(t)
    BY <2>4 DEF Load
  <2>5. CASE u = t /\ ~Begin(t) /\ ~Load(t)
    <3>1. todo[t] # <<>> /\ todo'[t] = Tail(todo[t])
      BY <1>2, <2>5 DEF Step, Emit, Newline, FlushOut, EmitCode, SkipCount, Store,
         StartClock, StopClock, Enter, Leave, Advance, At, Idle, TypeOK
    <3>2. Head(todo[t]) = "flush" => t \notin pending'
      BY <1>2, <2>5 DEF Step, Emit, Newline, FlushOut, EmitCode, SkipCount, Store,
         StartClock, StopClock, Enter, Leave, At, Text, Codes, Counter
    <3>3. Head(todo[t]) # "flush" /\ Head(todo[t]) \notin Prints => (t \in pending' => t \in pending)
      BY <1>2, <2>5 DEF Step, Emit, Newline, FlushOut, EmitCode, SkipCount, Store,
         StartClock, StopClock, Enter, Leave, At, Prints
    <3> DEFINE d == t \in pending
               e == t \in pending'
    <3>4. d \in BOOLEAN /\ e \in BOOLEAN /\ Clean(todo[t], d)
      OBVIOUS
    <3>5. (Head(todo[t]) = "flush" => ~e)
          /\ (Head(todo[t]) # "flush" /\ Head(todo[t]) \notin Prints => (e => d))
      BY <3>2, <3>3
    <3> HIDE DEF d, e
    <3>6. Clean(Tail(todo[t]), e)
      BY <2>1, <2>5, <3>1, <3>4, <3>5, CleanTail
    <3> QED BY <2>5, <3>1, <3>6 DEF e
  <2> QED BY <1>2, <2>2, <2>3, <2>4, <2>5
<1> QED BY <1>1, <1>2 DEF Next, Finished, Tick, vars

\* Whatever other threads print meanwhile, when control enters the real
\* library all that this call has printed is in the file.
THEOREM FlushedBeforeCallHolds == Spec => []FlushedBeforeCall
<1>1. Init => CleanSoFar
  BY DEF Init, CleanSoFar, Clean
<1>2. TypeOK /\ CleanSoFar => FlushedBeforeCall
  <2> SUFFICES ASSUME TypeOK, CleanSoFar, NEW t \in Thread, At(t, Crossing)
               PROVE  t \notin pending
    BY DEF FlushedBeforeCall, Crossing
  <2>1. Len(todo[t]) \in Nat \ {0} /\ todo[t][1] \in Crossing
    BY EmptySeq, HeadTailProperties DEF At, Idle, TypeOK
  <2> QED BY <2>1 DEF CleanSoFar, Clean
<1> QED BY <1>1, <1>2, CleanStep, TracerTypeCorrect, PTL DEF Spec

-----------------------------------------------------------------------------
(* The order of operations in a script                                     *)

Never(s, X)     == \A i \in 1..Len(s) : s[i] \notin X
\* no X comes after a Y
Order(s, X, Y)  == \A i, j \in 1..Len(s) : i < j /\ s[i] \in Y => s[j] \notin X
\* each Y comes after some X
Before(s, X, Y) == \A j \in 1..Len(s) : s[j] \in Y => \E i \in 1..(j - 1) : s[i] \in X

LEMMA NothingLeft ==
  ASSUME NEW X, NEW Y
  PROVE  Never(<<>>, X) /\ Order(<<>>, X, Y) /\ Before(<<>>, X, Y)
BY DEF Never, Order, Before

LEMMA OneLeft ==
  ASSUME NEW x, NEW X, NEW Y
  PROVE  /\ Never(<<x>>, X) <=> x \notin X
         /\ Order(<<x>>, X, Y)
         /\ Before(<<x>>, X, Y) <=> x \notin Y
BY DEF Never, Order, Before

\* Where the elements of a concatenation come from.
LEMMA Joined ==
  ASSUME NEW a \in Seq(Op), NEW b \in Seq(Op)
  PROVE  /\ Len(a) \in Nat /\ Len(b) \in Nat /\ Len(a \o b) = Len(a) + Len(b)
         /\ \A i \in 1..Len(a) : i \in 1..(Len(a) + Len(b)) /\ (a \o b)[i] = a[i]
         /\ \A i \in 1..Len(b) :
              i + Len(a) \in 1..(Len(a) + Len(b)) /\ (a \o b)[i + Len(a)] = b[i]
         /\ \A i \in 1..(Len(a) + Len(b)) :
              i \in 1..Len(a) \/ (i - Len(a) \in 1..Len(b) /\ i = (i - Len(a)) + Len(a))
<1> DEFINE s == a \o b
           m == Len(a)
           n == Len(b)
<1>1. /\ m \in Nat /\ n \in Nat /\ Len(s) = m + n
      /\ \A i \in 1..(m + n) : s[i] = IF i <= m THEN a[i] ELSE b[i - m]
  BY ConcatProperties, LenProperties
<1>2. \A i \in 1..m : i \in 1..(m + n) /\ s[i] = a[i]
  BY <1>1
<1>3. \A i \in 1..n : i + m \in 1..(m + n) /\ s[i + m] = b[i]
  <2> SUFFICES ASSUME NEW i \in 1..n PROVE i + m \in 1..(m + n) /\ s[i + m] = b[i]
    OBVIOUS
  <2>1. i + m \in 1..(m + n) /\ ~(i + m <= m) /\ (i + m) - m = i
    BY <1>1
  <2> QED BY <1>1, <2>1
<1>4. \A i \in 1..(m + n) : i \in 1..m \/ (i - m \in 1..n /\ i = (i - m) + m)
  BY <1>1
<1> QED BY <1>1, <1>2, <1>3, <1>4

LEMMA NeverConcat ==
  ASSUME NEW a \in Seq(Op), NEW b \in Seq(Op), NEW X
  PROVE  Never(a \o b, X) <=> Never(a, X) /\ Never(b, X)
<1> DEFINE s == a \o b
           m == Len(a)
           n == Len(b)
<1>1. m \in Nat /\ n \in Nat /\ Len(s) = m + n
  BY Joined
<1>2. \A i \in 1..m : i \in 1..(m + n) /\ s[i] = a[i]
  BY Joined
<1>3. \A i \in 1..n : i + m \in 1..(m + n) /\ s[i + m] = b[i]
  BY Joined
<1>4. \A i \in 1..(m + n) : i \in 1..m \/ (i - m \in 1..n /\ i = (i - m) + m)
  BY Joined
<1> HIDE DEF s, m, n
<1>5. Never(s, X) => Never(a, X) /\ Never(b, X)
  BY <1>1, <1>2, <1>3 DEF Never, m, n
<1>6. ASSUME Never(a, X), Never(b, X) PROVE Never(s, X)
  <2> SUFFICES ASSUME NEW i \in 1..(m + n) PROVE s[i] \notin X
    BY <1>1 DEF Never
  <2>1. CASE i \in 1..m
    BY <1>2, <1>6, <2>1 DEF Never, m
  <2>2. CASE i - m \in 1..n /\ i = (i - m) + m
    <3>1. s[i] = b[i - m]
      BY <1>3, <2>2
    <3> QED BY <1>6, <2>2, <3>1 DEF Never, n
  <2> QED BY <1>4, <2>1, <2>2
<1> QED BY <1>5, <1>6 DEF s

LEMMA OrderConcat ==
  ASSUME NEW a \in Seq(Op), NEW b \in Seq(Op), NEW X, NEW Y
  PROVE  Order(a \o b, X, Y) <=>
           Order(a, X, Y) /\ Order(b, X, Y) /\ (Never(a, Y) \/ Never(b, X))
<1> DEFINE s == a \o b
           m == Len(a)
           n == Len(b)
<1>1. m \in Nat /\ n \in Nat /\ Len(s) = m + n
  BY Joined
<1>2. \A i \in 1..m : i \in 1..(m + n) /\ s[i] = a[i]
  BY Joined
<1>3. \A i \in 1..n : i + m \in 1..(m + n) /\ s[i + m] = b[i]
  BY Joined
<1>4. \A i \in 1..(m + n) : i \in 1..m \/ (i - m \in 1..n /\ i = (i - m) + m)
  BY Joined
<1> HIDE DEF s, m, n
<1>5. ASSUME Order(s, X, Y) PROVE Order(a, X, Y)
  BY <1>1, <1>2, <1>5 DEF Order, m
<1>6. ASSUME Order(s, X, Y) PROVE Order(b, X, Y)
  <2> SUFFICES ASSUME NEW i \in 1..n, NEW j \in 1..n, i < j, b[i] \in Y PROVE b[j] \notin X
    BY DEF Order, n
  <2>1. i + m < j + m /\ s[i + m] \in Y
    BY <1>1, <1>3
  <2> QED BY <1>1, <1>3, <1>6, <2>1 DEF Order
<1>7. ASSUME Order(s, X, Y), ~Never(a, Y) PROVE Never(b, X)
  <2>1. PICK i \in 1..m : a[i] \in Y
    BY <1>7 DEF Never, m
  <2> SUFFICES ASSUME NEW j \in 1..n PROVE b[j] \notin X
    BY DEF Never, n
  <2>2. i < j + m /\ s[i] \in Y
    BY <1>1, <1>2, <2>1
  <2> QED BY <1>1, <1>2, <1>3, <1>7, <2>2 DEF Order
<1>8. ASSUME Order(a, X, Y), Order(b, X, Y), Never(a, Y) \/ Never(b, X) PROVE Order(s, X, Y)
  <2> SUFFICES ASSUME NEW i \in 1..(m + n), NEW j \in 1..(m + n), i < j, s[i] \in Y
               PROVE  s[j] \notin X
    BY <1>1 DEF Order
  <2>1. CASE i \in 1..m /\ j \in 1..m
    BY <1>1, <1>2, <1>8, <2>1 DEF Order, m
  <2>2. CASE i - m \in 1..n /\ j - m \in 1..n
    <3>1. s[i] = b[i - m] /\ s[j] = b[j - m] /\ i - m < j - m
      BY <1>1, <1>3, <1>4, <2>2
    <3> QED BY <1>8, <2>2, <3>1 DEF Order, n
  <2>3. CASE i \in 1..m /\ j - m \in 1..n
    <3>1. s[i] = a[i] /\ s[j] = b[j - m]
      BY <1>1, <1>2, <1>3, <1>4, <2>3
    <3> QED BY <1>8, <2>3, <3>1 DEF Never, m, n
  <2> QED BY <1>1, <1>4, <2>1, <2>2, <2>3
<1> QED BY <1>5, <1>6, <1>7, <1>8 DEF s

LEMMA BeforeConcat ==
  ASSUME NEW a \in Seq(Op), NEW b \in Seq(Op), NEW X, NEW Y
  PROVE  Before(a \o b, X, Y) <=> Before(a, X, Y) /\ (~Never(a, X) \/ Before(b, X, Y))
<1> DEFINE s == a \o b
           m == Len(a)
           n == Len(b)
<1>1. m \in Nat /\ n \in Nat /\ Len(s) = m + n
  BY Joined
<1>2. \A i \in 1..m : i \in 1..(m + n) /\ s[i] = a[i]
  BY Joined
<1>3. \A i \in 1..n : i + m \in 1..(m + n) /\ s[i + m] = b[i]
  BY Joined
<1>4. \A i \in 1..(m + n) : i \in 1..m \/ (i - m \in 1..n /\ i = (i - m) + m)
  BY Joined
<1> HIDE DEF s, m, n
<1>5. ASSUME Before(s, X, Y) PROVE Before(a, X, Y)
  <2> SUFFICES ASSUME NEW j \in 1..m, a[j] \in Y PROVE \E i \in 1..(j - 1) : a[i] \in X
    BY DEF Before, m
  <2>1. PICK i \in 1..(j - 1) : s[i] \in X
    BY <1>1, <1>2, <1>5 DEF Before
  <2> QED BY <1>1, <1>2, <2>1
<1>6. ASSUME Before(s, X, Y), Never(a, X) PROVE Before(b, X, Y)
  <2> SUFFICES ASSUME NEW j \in 1..n, b[j] \in Y PROVE \E i \in 1..(j - 1) : b[i] \in X
    BY DEF Before, n
  <2>1. PICK i \in 1..((j + m) - 1) : s[i] \in X
    BY <1>1, <1>3, <1>6 DEF Before
  <2>2. i \notin 1..m
    BY <1>2, <1>6, <2>1 DEF Never, m
  <2>3. i - m \in 1..n /\ i - m \in 1..(j - 1) /\ s[i] = b[i - m]
    BY <1>1, <1>3, <1>4, <2>1, <2>2
  <2> QED BY <2>1, <2>3
<1>7. ASSUME Before(a, X, Y), ~Never(a, X) \/ Before(b, X, Y) PROVE Before(s, X, Y)
  <2> SUFFICES ASSUME NEW j \in 1..(m + n), s[j] \in Y PROVE \E i \in 1..(j - 1) : s[i] \in X
    BY <1>1 DEF Before
  <2>1. CASE j \in 1..m
    <3>1. PICK i \in 1..(j - 1) : a[i] \in X
      BY <1>2, <1>7, <2>1 DEF Before, m
    <3> QED BY <1>1, <1>2, <2>1, <3>1
  <2>2. CASE j - m \in 1..n /\ ~Never(a, X)
    <3>1. PICK i \in 1..m : a[i] \in X
      BY <2>2 DEF Never, m
    <3> QED BY <1>1, <1>2, <2>2, <3>1
  <2>3. CASE j - m \in 1..n /\ Before(b, X, Y)
    <3>1. j = (j - m) + m
      BY <1>1
    <3>2. b[j - m] \in Y
      BY <1>3, <2>3, <3>1
    <3>3. PICK i \in 1..((j - m) - 1) : b[i] \in X
      BY <2>3, <3>2 DEF Before, n
    <3>4. i \in 1..n /\ i + m \in 1..(j - 1)
      BY <1>1, <2>3, <3>3
    <3> QED BY <1>3, <3>3, <3>4
  <2> QED BY <1>1, <1>4, <1>7, <2>1, <2>2, <2>3
<1> QED BY <1>5, <1>6, <1>7 DEF s

\* What executing the first operation of s does to its order.
LEMMA Executed ==
  ASSUME NEW s \in Seq(Op), s # <<>>, NEW X, NEW Y
  PROVE  /\ Tail(s) \in Seq(Op)
         /\ Never(s, X) <=> Head(s) \notin X /\ Never(Tail(s), X)
         /\ Order(s, X, Y) <=>
              Order(Tail(s), X, Y) /\ (Head(s) \in Y => Never(Tail(s), X))
         /\ Before(s, X, Y) <=>
              Head(s) \notin Y /\ (Head(s) \in X \/ Before(Tail(s), X, Y))
<1> DEFINE h == <<Head(s)>>
           r == Tail(s)
<1>1. Head(s) \in Op /\ r \in Seq(Op) /\ s = h \o r
  BY HeadTailProperties, ConcatProperties
<1>2. h \in Seq(Op)
  BY <1>1
<1>3. /\ Never(h, X) <=> Head(s) \notin X
      /\ Never(h, Y) <=> Head(s) \notin Y
      /\ Order(h, X, Y) /\ (Before(h, X, Y) <=> Head(s) \notin Y)
  BY OneLeft
<1> HIDE DEF h, r
<1>4. /\ Never(s, X) <=> Never(h, X) /\ Never(r, X)
      /\ Order(s, X, Y) <=> Order(h, X, Y) /\ Order(r, X, Y) /\ (Never(h, Y) \/ Never(r, X))
      /\ Before(s, X, Y) <=> Before(h, X, Y) /\ (~Never(h, X) \/ Before(r, X, Y))
  BY <1>1, <1>2, NeverConcat, OrderConcat, BeforeConcat
<1> QED BY <1>1, <1>3, <1>4 DEF r

-----------------------------------------------------------------------------
(* The frame of every script                                               *)

Opening == {"prefix", "name", "open", "start", "calls"}
Middle  == {"args", "close", "flush", "ret", "pointer", "errors"} \union Codes
Ending  == {"stop", "spent", "seconds", "eol", "flush"}

LEMMA NeverOutside ==
  ASSUME NEW Z, NEW s \in Seq(Z), NEW X, X \cap Z = {}
  PROVE  Never(s, X)
BY ElementOfSeq DEF Never

LEMMA OrderOutside ==
  ASSUME NEW s, NEW X, NEW Y
  PROVE  /\ Never(s, X) => Order(s, X, Y)
         /\ Never(s, Y) => Order(s, X, Y) /\ Before(s, X, Y)
BY DEF Never, Order, Before

LEMMA OpSets ==
  Opening \subseteq Op /\ Middle \subseteq Op /\ Ending \subseteq Op /\ Crossing \subseteq Op
BY DEF Opening, Middle, Ending, Crossing, Op, Text, Codes, Counter

LEMMA TwoLeft ==
  ASSUME NEW x, NEW y, NEW X, NEW Y
  PROVE  /\ Never(<<x, y>>, X) <=> x \notin X /\ y \notin X
         /\ Order(<<x, y>>, X, Y) <=> (x \in Y => y \notin X)
<1> DEFINE s == <<x, y>>
<1>1. Len(s) = 2 /\ s[1] = x /\ s[2] = y
  OBVIOUS
<1> HIDE DEF s
<1>2. \A i \in 1..2 : i = 1 \/ i = 2
  OBVIOUS
<1>3. Never(s, X) <=> x \notin X /\ y \notin X
  BY <1>1, <1>2 DEF Never
<1>4. Order(s, X, Y) <=> (x \in Y => y \notin X)
  <2>1. ASSUME NEW i \in 1..2, NEW j \in 1..2, i < j PROVE i = 1 /\ j = 2
    BY <2>1
  <2> QED BY <1>1, <2>1 DEF Order
<1> QED BY <1>3, <1>4 DEF s

\* an optional operation
LEMMA Optional ==
  ASSUME NEW b, NEW Z, NEW x \in Z
  PROVE  /\ When(b, <<x>>) \in Seq(Z)
         /\ \A X : Never(When(b, <<x>>), X) <=> ~b \/ x \notin X
<1>1. CASE b
  BY <1>1, OneLeft DEF When
<1>2. CASE ~b
  BY <1>2, NothingLeft DEF When
<1> QED BY <1>1, <1>2

\* emit_open: the timestamp is first.
LEMMA OpenOrder ==
  /\ Open \in Seq(Op) /\ Open \in Seq(Opening)
  /\ EmitSpent \/ EmitStats => ~Never(Open, {"start"})
  /\ ~Never(Open, {"open"}) /\ Order(Open, {"open"}, {"open"})
  /\ EmitTime => ~Never(Open, {"prefix"}) /\ Before(Open, {"prefix"}, Op \ {"prefix"})
<1> DEFINE P == When(EmitTime, <<"prefix">>)
           N == <<"name", "open">>
           S == When(EmitSpent \/ EmitStats, <<"start">>)
           C == When(EmitStats, <<"calls">>)
<1>1. \A x \in Opening : x \in Op
  BY DEF Opening, Op, Text, Counter
<1>2. N \in Seq(Opening)
  BY DEF Opening
<1>3. P \in Seq(Opening) /\ S \in Seq(Opening) /\ C \in Seq(Opening)
  BY Optional DEF Opening
<1>4. P \in Seq(Op) /\ N \in Seq(Op) /\ S \in Seq(Op) /\ C \in Seq(Op)
  BY <1>1, <1>2, <1>3, SeqMonotonic
<1>5. \A X : /\ Never(P, X) <=> ~EmitTime \/ "prefix" \notin X
             /\ Never(S, X) <=> ~(EmitSpent \/ EmitStats) \/ "start" \notin X
             /\ Never(C, X) <=> ~EmitStats \/ "calls" \notin X
             /\ Never(N, X) <=> "name" \notin X /\ "open" \notin X
  BY Optional, TwoLeft
<1>6. Order(N, {"open"}, {"open"})
  BY TwoLeft
<1>7. EmitTime => Before(P, {"prefix"}, Op \ {"prefix"})
  BY OneLeft DEF When
<1> DEFINE A == P \o N
           B == A \o S
<1>8. Open = B \o C
  BY DEF Open
<1> HIDE DEF P, N, S, C
<1>9. A \in Seq(Op) /\ A \in Seq(Opening)
  BY <1>2, <1>3, <1>4, ConcatProperties
<1>10. \A X, Y : /\ Never(A, X) <=> Never(P, X) /\ Never(N, X)
                 /\ Order(A, X, Y) <=>
                      Order(P, X, Y) /\ Order(N, X, Y) /\ (Never(P, Y) \/ Never(N, X))
                 /\ Before(A, X, Y) <=> Before(P, X, Y) /\ (~Never(P, X) \/ Before(N, X, Y))
  BY <1>4, NeverConcat, OrderConcat, BeforeConcat
<1> HIDE DEF A
<1>11. B \in Seq(Op) /\ B \in Seq(Opening)
  BY <1>3, <1>4, <1>9, ConcatProperties
<1>12. \A X, Y : /\ Never(B, X) <=> Never(A, X) /\ Never(S, X)
                 /\ Order(B, X, Y) <=>
                      Order(A, X, Y) /\ Order(S, X, Y) /\ (Never(A, Y) \/ Never(S, X))
                 /\ Before(B, X, Y) <=> Before(A, X, Y) /\ (~Never(A, X) \/ Before(S, X, Y))
  BY <1>4, <1>9, NeverConcat, OrderConcat, BeforeConcat
<1> HIDE DEF B
<1>13. Open \in Seq(Op) /\ Open \in Seq(Opening)
  BY <1>3, <1>4, <1>8, <1>11, ConcatProperties
<1>14. \A X, Y : /\ Never(Open, X) <=> Never(B, X) /\ Never(C, X)
                 /\ Order(Open, X, Y) <=>
                      Order(B, X, Y) /\ Order(C, X, Y) /\ (Never(B, Y) \/ Never(C, X))
                 /\ Before(Open, X, Y) <=> Before(B, X, Y) /\ (~Never(B, X) \/ Before(C, X, Y))
  BY <1>4, <1>8, <1>11, NeverConcat, OrderConcat, BeforeConcat
<1>15. Order(Open, {"open"}, {"open"})
  <2>1. Never(P, {"open"}) /\ Never(S, {"open"}) /\ Never(C, {"open"})
    BY <1>5
  <2> QED BY <1>6, <1>10, <1>12, <1>14, <2>1, OrderOutside
<1>16. EmitTime => ~Never(Open, {"prefix"}) /\ Before(Open, {"prefix"}, Op \ {"prefix"})
  BY <1>5, <1>7, <1>10, <1>12, <1>14
<1> QED BY <1>5, <1>10, <1>12, <1>13, <1>14, <1>15, <1>16

\* emit_end: the clock is stopped first, the newline is last.
LEMMA EndOrder ==
  /\ End \in Seq(Op) /\ End \in Seq(Ending)
  /\ ~(EmitSpent \/ EmitStats) => Never(End, {"stop"})
  /\ Before(End, {"stop"}, {"spent", "seconds"})
  /\ ~Never(End, {"eol"}) /\ Order(End, Op \ {"flush"}, {"eol"})
<1> DEFINE E == When(EmitSpent \/ EmitStats, <<"stop">>)
           D == When(EmitSpent, <<"spent">>)
           F == When(EmitStats, <<"seconds">>)
           N == <<"eol", "flush">>
<1>1. \A x \in Ending : x \in Op
  BY DEF Ending, Op, Text, Counter
<1>2. N \in Seq(Ending)
  BY DEF Ending
<1>3. E \in Seq(Ending) /\ D \in Seq(Ending) /\ F \in Seq(Ending)
  BY Optional DEF Ending
<1>4. E \in Seq(Op) /\ D \in Seq(Op) /\ F \in Seq(Op) /\ N \in Seq(Op)
  BY <1>1, <1>2, <1>3, SeqMonotonic
<1>5. \A X : /\ Never(E, X) <=> ~(EmitSpent \/ EmitStats) \/ "stop" \notin X
             /\ Never(D, X) <=> ~EmitSpent \/ "spent" \notin X
             /\ Never(F, X) <=> ~EmitStats \/ "seconds" \notin X
             /\ Never(N, X) <=> "eol" \notin X /\ "flush" \notin X
  BY Optional, TwoLeft
<1>6. Order(N, Op \ {"flush"}, {"eol"})
  BY TwoLeft
<1> DEFINE A == E \o D
           B == A \o F
<1>7. End = B \o N
  BY DEF End
<1> HIDE DEF E, D, F, N
<1>8. A \in Seq(Op) /\ A \in Seq(Ending)
  BY <1>3, <1>4, ConcatProperties
<1>9. \A X, Y : /\ Never(A, X) <=> Never(E, X) /\ Never(D, X)
                /\ Order(A, X, Y) <=>
                     Order(E, X, Y) /\ Order(D, X, Y) /\ (Never(E, Y) \/ Never(D, X))
                /\ Before(A, X, Y) <=> Before(E, X, Y) /\ (~Never(E, X) \/ Before(D, X, Y))
  BY <1>4, NeverConcat, OrderConcat, BeforeConcat
<1> HIDE DEF A
<1>10. B \in Seq(Op) /\ B \in Seq(Ending)
  BY <1>3, <1>4, <1>8, ConcatProperties
<1>11. \A X, Y : /\ Never(B, X) <=> Never(A, X) /\ Never(F, X)
                 /\ Order(B, X, Y) <=>
                      Order(A, X, Y) /\ Order(F, X, Y) /\ (Never(A, Y) \/ Never(F, X))
                 /\ Before(B, X, Y) <=> Before(A, X, Y) /\ (~Never(A, X) \/ Before(F, X, Y))
  BY <1>4, <1>8, NeverConcat, OrderConcat, BeforeConcat
<1> HIDE DEF B
<1>12. End \in Seq(Op) /\ End \in Seq(Ending)
  BY <1>2, <1>4, <1>7, <1>10, ConcatProperties
<1>13. \A X, Y : /\ Never(End, X) <=> Never(B, X) /\ Never(N, X)
                 /\ Order(End, X, Y) <=>
                      Order(B, X, Y) /\ Order(N, X, Y) /\ (Never(B, Y) \/ Never(N, X))
                 /\ Before(End, X, Y) <=> Before(B, X, Y) /\ (~Never(B, X) \/ Before(N, X, Y))
  BY <1>4, <1>7, <1>10, NeverConcat, OrderConcat, BeforeConcat
<1>14. Before(End, {"stop"}, {"spent", "seconds"})
  <2> DEFINE Y == {"spent", "seconds"}
  <2>1. Never(E, Y) /\ Never(N, Y)
    BY <1>5
  <2>2. CASE EmitSpent \/ EmitStats
    BY <1>5, <1>9, <1>11, <1>13, <2>1, <2>2, OrderOutside
  <2>3. CASE ~(EmitSpent \/ EmitStats)
    <3>1. Never(End, Y)
      BY <1>5, <1>9, <1>11, <1>13, <2>1, <2>3
    <3> QED BY <3>1, OrderOutside
  <2> QED BY <2>2, <2>3
<1>15. Order(End, Op \ {"flush"}, {"eol"})
  <2>1. Never(E, {"eol"}) /\ Never(D, {"eol"}) /\ Never(F, {"eol"})
    BY <1>5
  <2> QED BY <1>6, <1>9, <1>11, <1>13, <2>1, OrderOutside
<1> QED BY <1>5, <1>9, <1>11, <1>12, <1>13, <1>14, <1>15

\* A wrapper: emit_open, a part before the call, the call, a part after it, emit_end.
Around(a, b) == (((Open \o a) \o Real) \o b) \o End

\* The argument list is closed once, before the call or after it.
Lone(s, X) == ~Never(s, X) /\ Order(s, X, X)
Shut(a, b) == \/ Lone(a, {"close"}) /\ Never(b, {"close"})
              \/ Never(a, {"close"}) /\ Lone(b, {"close"})

\* One code is printed, after the call, and counted if it is an error.
Counted(a, b, x) ==
  /\ Never(a, Codes \union {"errors"}) /\ Never(b, Codes \ {x})
  /\ Before(b, {x}, {"errors"}) /\ Order(b, {"errors"}, {"errors"})
  /\ EmitStats => ~Never(b, {"errors"})

LEMMA MiddlePieces ==
  /\ Args \in Seq(Middle) /\ Pointer \in Seq(Middle) /\ Close \in Seq(Middle)
  /\ Flush \in Seq(Middle) /\ <<"ret">> \in Seq(Middle) /\ <<>> \in Seq(Middle)
  /\ \A x \in Codes : Code(x) \in Seq(Middle)
  /\ Lone(Close, {"close"})
  /\ \A x \in Codes : \A X : Never(Code(x), X) <=> x \notin X /\ (EmitStats => "errors" \notin X)
  /\ \A x \in Codes : Order(Code(x), {"errors"}, {"errors"}) /\ Before(Code(x), {x}, {"errors"})
  /\ \A X : /\ Never(Args, X) <=> "args" \notin X
            /\ Never(Pointer, X) <=> "ret" \notin X /\ "pointer" \notin X
            /\ Never(Close, X) <=> "close" \notin X /\ "flush" \notin X
            /\ Never(Flush, X) <=> "flush" \notin X
            /\ Never(<<"ret">>, X) <=> "ret" \notin X
<1>1. /\ Args \in Seq(Middle) /\ Pointer \in Seq(Middle) /\ Close \in Seq(Middle)
      /\ Flush \in Seq(Middle) /\ <<"ret">> \in Seq(Middle) /\ <<>> \in Seq(Middle)
  BY DEF Args, Pointer, Close, Flush, Middle
<1>2. ASSUME NEW x \in Codes
      PROVE  /\ Code(x) \in Seq(Middle)
             /\ \A X : Never(Code(x), X) <=> x \notin X /\ (EmitStats => "errors" \notin X)
             /\ Order(Code(x), {"errors"}, {"errors"}) /\ Before(Code(x), {x}, {"errors"})
  <2> DEFINE H == <<x>>
             N == When(EmitStats, <<"errors">>)
  <2>1. H \in Seq(Middle) /\ N \in Seq(Middle)
    BY Optional DEF Middle
  <2>2. H \in Seq(Op) /\ N \in Seq(Op)
    BY <2>1, OpSets, SeqMonotonic
  <2>3. \A X : /\ Never(H, X) <=> x \notin X
               /\ Never(N, X) <=> ~EmitStats \/ "errors" \notin X
    BY Optional, OneLeft
  <2>4. x # "errors" /\ Order(N, {"errors"}, {"errors"})
    BY OneLeft, NothingLeft DEF When, Codes
  <2>5. Code(x) = H \o N
    BY DEF Code
  <2> HIDE DEF H, N
  <2>6. Code(x) \in Seq(Middle)
    BY <2>1, <2>5, ConcatProperties
  <2>7. \A X : Never(Code(x), X) <=> Never(H, X) /\ Never(N, X)
    BY <2>2, <2>5, NeverConcat
  <2>8. Never(H, {"errors"}) /\ ~Never(H, {x})
    BY <2>3, <2>4
  <2>9. Order(Code(x), {"errors"}, {"errors"})
    BY <2>2, <2>4, <2>5, <2>8, OrderConcat, OrderOutside
  <2>10. Before(Code(x), {x}, {"errors"})
    BY <2>2, <2>5, <2>8, BeforeConcat, OrderOutside
  <2> QED BY <2>3, <2>6, <2>7, <2>9, <2>10
<1>3. \A X : /\ Never(Args, X) <=> "args" \notin X
             /\ Never(Pointer, X) <=> "ret" \notin X /\ "pointer" \notin X
             /\ Never(Close, X) <=> "close" \notin X /\ "flush" \notin X
             /\ Never(Flush, X) <=> "flush" \notin X
             /\ Never(<<"ret">>, X) <=> "ret" \notin X
  BY OneLeft, TwoLeft DEF Args, Pointer, Close, Flush
<1>4. Lone(Close, {"close"})
  BY TwoLeft DEF Lone, Close
<1> QED BY <1>1, <1>2, <1>3, <1>4

\* Concatenating parts of a wrapper.
LEMMA MiddleConcat ==
  ASSUME NEW a \in Seq(Middle), NEW b \in Seq(Middle)
  PROVE  /\ a \in Seq(Op) /\ a \o b \in Seq(Middle)
         /\ \A X, Y : /\ Never(a \o b, X) <=> Never(a, X) /\ Never(b, X)
                      /\ Order(a \o b, X, Y) <=>
                           Order(a, X, Y) /\ Order(b, X, Y) /\ (Never(a, Y) \/ Never(b, X))
                      /\ Before(a \o b, X, Y) <=>
                           Before(a, X, Y) /\ (~Never(a, X) \/ Before(b, X, Y))
<1>1. a \in Seq(Op) /\ b \in Seq(Op)
  BY OpSets, SeqMonotonic
<1>2. a \o b \in Seq(Middle)
  BY ConcatProperties
<1> QED BY <1>1, <1>2, NeverConcat, OrderConcat, BeforeConcat

LEMMA LoneConcat ==
  ASSUME NEW a \in Seq(Middle), NEW b \in Seq(Middle), NEW X,
         \/ Lone(a, X) /\ Never(b, X)
         \/ Never(a, X) /\ Lone(b, X)
  PROVE  Lone(a \o b, X)
BY MiddleConcat, OrderOutside DEF Lone

\* The parentheses moved.
LEMMA Regroup ==
  ASSUME NEW s \in Seq(Op), NEW a \in Seq(Middle), NEW b \in Seq(Middle)
  PROVE  (s \o a) \o b = s \o (a \o b)
<1>1. a \in Seq(Op) /\ b \in Seq(Op)
  BY OpSets, SeqMonotonic
<1> QED BY <1>1, ConcatAssociative

LEMMA Frames ==
  /\ \A s \in Single : \E a, b \in Seq(Middle) : s = Around(a, b) /\ Shut(a, b)
  /\ \A s \in {Status, SVMFree} : \E a, b \in Seq(Middle) :
       s = Around(a, b) /\ Counted(a, b, "result")
  /\ \E a, b \in Seq(Middle) : Create = Around(a, b) /\ Counted(a, b, "resultptr")
<1> DEFINE I == Code("result")
           J == Code("resultptr")
           U == Code("unset")
           G == Code("argument")
           R == <<"ret">>
           C == {"close"}
           X == Codes \union {"errors"}
<1>1. /\ Args \in Seq(Middle) /\ Close \in Seq(Middle) /\ Flush \in Seq(Middle)
      /\ Pointer \in Seq(Middle) /\ R \in Seq(Middle) /\ <<>> \in Seq(Middle)
      /\ I \in Seq(Middle) /\ J \in Seq(Middle) /\ U \in Seq(Middle) /\ G \in Seq(Middle)
  BY MiddlePieces DEF Codes
<1>2. /\ Never(Args, C) /\ Never(Flush, C) /\ Never(Pointer, C) /\ Never(R, C) /\ Never(<<>>, C)
      /\ Never(I, C) /\ Never(J, C) /\ Never(U, C) /\ Never(G, C) /\ Lone(Close, C)
  BY MiddlePieces, NothingLeft DEF Codes
<1>3. /\ Never(R, X) /\ Never(R, Codes \ {"result"}) /\ Never(R, {"errors"})
      /\ Never(Args, X) /\ Never(Close, X) /\ Never(Flush, X)
      /\ Never(Close, {"errors"}) /\ Never(Close, Codes \ {"resultptr"})
      /\ Never(Pointer, {"errors"}) /\ Never(Pointer, Codes \ {"resultptr"})
  BY MiddlePieces DEF Codes
<1>4. /\ Never(I, Codes \ {"result"}) /\ Never(J, Codes \ {"resultptr"})
      /\ Order(I, {"errors"}, {"errors"}) /\ Order(J, {"errors"}, {"errors"})
      /\ Before(I, {"result"}, {"errors"}) /\ Before(J, {"resultptr"}, {"errors"})
      /\ EmitStats => ~Never(I, {"errors"}) /\ ~Never(J, {"errors"})
  BY MiddlePieces DEF Codes
<1>5. /\ Status = (((((Open \o Args) \o Close) \o Real) \o R) \o I) \o End
      /\ Address = ((((Open \o Args) \o Close) \o Real) \o Pointer) \o End
      /\ Plain = (((Open \o Args) \o Close) \o Real) \o End
      /\ Create = ((((((Open \o Args) \o Flush) \o Real) \o J) \o Close) \o Pointer) \o End
      /\ Binary = (((((((Open \o Args) \o U) \o Flush) \o Real) \o J) \o Close) \o Pointer) \o End
      /\ Event = ((((((Open \o Args) \o G) \o Close) \o Real) \o R) \o I) \o End
      /\ SVMFree = (((((((Open \o Args) \o Close) \o Args) \o Close) \o Real) \o R) \o I) \o End
  BY DEF Status, Address, Plain, Create, Binary, Event, SVMFree
<1> HIDE DEF I, J, U, G, R, C, X
<1>6. /\ Open \in Seq(Op) /\ Real \in Seq(Op)
  BY OpenOrder DEF Real, Op
<1>7. /\ \A a, b \in Seq(Middle) : a \o b \in Seq(Middle)
      /\ \A s \in Seq(Op) : \A a, b \in Seq(Middle) : (s \o a) \o b = s \o (a \o b)
  BY Regroup, MiddleConcat, Zenon
<1>8. \A a \in Seq(Middle) : (Open \o a) \o Real \in Seq(Op)
  BY <1>6, OpSets, SeqMonotonic, ConcatProperties
<1> DEFINE AC == Args \o Close
           AF == Args \o Flush
           AU == Args \o U
           AUF == AU \o Flush
           AG == Args \o G
           AGC == AG \o Close
           ACA == AC \o Args
           ACAC == ACA \o Close
           RI == R \o I
           JC == J \o Close
           JCP == JC \o Pointer
<1>9. /\ AC \in Seq(Middle) /\ AF \in Seq(Middle) /\ AU \in Seq(Middle) /\ AUF \in Seq(Middle)
      /\ AG \in Seq(Middle) /\ AGC \in Seq(Middle) /\ ACA \in Seq(Middle) /\ ACAC \in Seq(Middle)
      /\ RI \in Seq(Middle) /\ JC \in Seq(Middle) /\ JCP \in Seq(Middle)
  BY <1>1, <1>7
<1>10. /\ (Open \o Args) \o Close = Open \o AC
       /\ (Open \o Args) \o Flush = Open \o AF
       /\ (Open \o Args) \o U = Open \o AU
       /\ (Open \o AU) \o Flush = Open \o AUF
       /\ (Open \o Args) \o G = Open \o AG
       /\ (Open \o AG) \o Close = Open \o AGC
       /\ (Open \o AC) \o Args = Open \o ACA
       /\ (Open \o ACA) \o Close = Open \o ACAC
  <2>1. \A a, b \in Seq(Middle) : (Open \o a) \o b = Open \o (a \o b)
    BY <1>6, <1>7
  <2>2. /\ (Open \o Args) \o Close = Open \o AC /\ (Open \o Args) \o Flush = Open \o AF
        /\ (Open \o Args) \o U = Open \o AU /\ (Open \o Args) \o G = Open \o AG
    BY <1>1, <2>1
  <2>3. /\ (Open \o AU) \o Flush = Open \o AUF /\ (Open \o AG) \o Close = Open \o AGC
        /\ (Open \o AC) \o Args = Open \o ACA
    <3> HIDE DEF AU, AG, AC
    <3> QED BY <1>1, <1>9, <2>1
  <2>4. (Open \o ACA) \o Close = Open \o ACAC
    <3> HIDE DEF ACA
    <3> QED BY <1>1, <1>9, <2>1
  <2> QED BY <2>2, <2>3, <2>4
<1>11. \A s \in Seq(Op) : /\ (s \o R) \o I = s \o RI
                          /\ (s \o J) \o Close = s \o JC
                          /\ (s \o JC) \o Pointer = s \o JCP
  <2> SUFFICES ASSUME NEW s \in Seq(Op)
               PROVE  /\ (s \o R) \o I = s \o RI
                      /\ (s \o J) \o Close = s \o JC
                      /\ (s \o JC) \o Pointer = s \o JCP
    OBVIOUS
  <2>1. \A a, b \in Seq(Middle) : (s \o a) \o b = s \o (a \o b)
    BY <1>7
  <2>2. (s \o R) \o I = s \o RI /\ (s \o J) \o Close = s \o JC
    BY <1>1, <2>1
  <2>3. (s \o JC) \o Pointer = s \o JCP
    <3> HIDE DEF JC
    <3> QED BY <1>1, <1>9, <2>1
  <2> QED BY <2>2, <2>3
<1>12. /\ Lone(AC, C) /\ Never(AF, C) /\ Never(AUF, C) /\ Lone(AGC, C)
       /\ Never(RI, C) /\ Lone(JCP, C)
  <2>1. Never(AU, C) /\ Never(AG, C) /\ Never(RI, C) /\ Never(AF, C)
    BY <1>1, <1>2, MiddleConcat
  <2>2. Never(AUF, C)
    BY <1>1, <1>2, <1>9, <2>1, MiddleConcat
  <2>3. Lone(AC, C) /\ Lone(JC, C)
    BY <1>1, <1>2, LoneConcat
  <2>4. Lone(AGC, C) /\ Lone(JCP, C)
    BY <1>1, <1>2, <1>9, <2>1, <2>3, LoneConcat
  <2> QED BY <2>1, <2>2, <2>3, <2>4
<1>13. /\ Never(AC, X) /\ Never(AF, X) /\ Never(ACAC, X)
  <2>1. Never(AC, X) /\ Never(AF, X)
    BY <1>1, <1>3, MiddleConcat
  <2>2. Never(ACA, X)
    BY <1>1, <1>3, <1>9, <2>1, MiddleConcat
  <2> QED BY <1>1, <1>3, <1>9, <2>1, <2>2, MiddleConcat
<1>14. /\ Never(RI, Codes \ {"result"})
       /\ Before(RI, {"result"}, {"errors"}) /\ Order(RI, {"errors"}, {"errors"})
       /\ EmitStats => ~Never(RI, {"errors"})
  <2>1. Before(R, {"result"}, {"errors"}) /\ Order(R, {"errors"}, {"errors"})
    BY <1>3, OrderOutside
  <2>2. \A Y, Z : /\ Never(RI, Y) <=> Never(R, Y) /\ Never(I, Y)
                  /\ Order(RI, Y, Z) <=>
                       Order(R, Y, Z) /\ Order(I, Y, Z) /\ (Never(R, Z) \/ Never(I, Y))
                  /\ Before(RI, Y, Z) <=>
                       Before(R, Y, Z) /\ (~Never(R, Y) \/ Before(I, Y, Z))
    BY <1>1, MiddleConcat
  <2> HIDE DEF RI
  <2> QED BY <1>3, <1>4, <2>1, <2>2
<1>15. /\ Never(JCP, Codes \ {"resultptr"})
       /\ Before(JCP, {"resultptr"}, {"errors"}) /\ Order(JCP, {"errors"}, {"errors"})
       /\ EmitStats => ~Never(JCP, {"errors"})
  <2>1. /\ Before(Close, {"resultptr"}, {"errors"}) /\ Order(Close, {"errors"}, {"errors"})
        /\ Before(Pointer, {"resultptr"}, {"errors"}) /\ Order(Pointer, {"errors"}, {"errors"})
    BY <1>3, OrderOutside
  <2>2. \A Y, Z : /\ Never(JC, Y) <=> Never(J, Y) /\ Never(Close, Y)
                  /\ Order(JC, Y, Z) <=>
                       Order(J, Y, Z) /\ Order(Close, Y, Z) /\ (Never(J, Z) \/ Never(Close, Y))
                  /\ Before(JC, Y, Z) <=>
                       Before(J, Y, Z) /\ (~Never(J, Y) \/ Before(Close, Y, Z))
    BY <1>1, MiddleConcat
  <2> HIDE DEF JC
  <2>3. \A Y, Z : /\ Never(JCP, Y) <=> Never(JC, Y) /\ Never(Pointer, Y)
                  /\ Order(JCP, Y, Z) <=>
                       Order(JC, Y, Z) /\ Order(Pointer, Y, Z) /\ (Never(JC, Z) \/ Never(Pointer, Y))
                  /\ Before(JCP, Y, Z) <=>
                       Before(JC, Y, Z) /\ (~Never(JC, Y) \/ Before(Pointer, Y, Z))
    BY <1>1, <1>9, MiddleConcat
  <2> HIDE DEF JCP
  <2> QED BY <1>3, <1>4, <2>1, <2>2, <2>3
<1> HIDE DEF AC, AF, AU, AUF, AG, AGC, ACA, ACAC, RI, JC, JCP
<1>16. Status = Around(AC, RI) /\ Address = Around(AC, Pointer) /\ Plain = Around(AC, <<>>)
  <2>1. (Open \o AC) \o Real \in Seq(Op)
    BY <1>8, <1>9
  <2>2. ((Open \o AC) \o Real) \o <<>> = (Open \o AC) \o Real
    BY <2>1, ConcatEmptySeq
  <2> QED BY <1>5, <1>10, <1>11, <2>1, <2>2, Zenon DEF Around
<1>17. Create = Around(AF, JCP) /\ Binary = Around(AUF, JCP)
  <2>1. (Open \o AF) \o Real \in Seq(Op) /\ (Open \o AUF) \o Real \in Seq(Op)
    BY <1>8, <1>9
  <2>2. \A s \in Seq(Op) : ((s \o J) \o Close) \o Pointer = s \o JCP
    BY <1>11
  <2>3. Create = (((Open \o AF) \o Real) \o JCP) \o End
    BY <1>5, <1>10, <2>1, <2>2, Zenon
  <2>4. Binary = (((Open \o AUF) \o Real) \o JCP) \o End
    BY <1>5, <1>10, <2>1, <2>2, Zenon
  <2> QED BY <2>3, <2>4 DEF Around
<1>18. Event = Around(AGC, RI) /\ SVMFree = Around(ACAC, RI)
  <2>1. (Open \o AGC) \o Real \in Seq(Op) /\ (Open \o ACAC) \o Real \in Seq(Op)
    BY <1>8, <1>9
  <2>2. Event = (((Open \o AGC) \o Real) \o RI) \o End
    BY <1>5, <1>10, <1>11, <2>1, Zenon
  <2>3. SVMFree = (((Open \o ACAC) \o Real) \o RI) \o End
    <3>1. SVMFree = ((((Open \o ACAC) \o Real) \o R) \o I) \o End
      BY <1>5, <1>10
    <3> QED BY <1>11, <2>1, <3>1
  <2> QED BY <2>2, <2>3 DEF Around
<1>19. ASSUME NEW s \in Single PROVE \E a, b \in Seq(Middle) : s = Around(a, b) /\ Shut(a, b)
  <2>1. /\ Shut(AC, RI) /\ Shut(AC, Pointer) /\ Shut(AC, <<>>)
        /\ Shut(AF, JCP) /\ Shut(AUF, JCP) /\ Shut(AGC, RI)
    BY <1>2, <1>12 DEF Shut, C
  <2> QED BY <1>1, <1>9, <1>16, <1>17, <1>18, <2>1 DEF Single
<1>20. Counted(AC, RI, "result") /\ Counted(ACAC, RI, "result") /\ Counted(AF, JCP, "resultptr")
  BY <1>13, <1>14, <1>15 DEF Counted, X
<1> QED BY <1>9, <1>16, <1>17, <1>18, <1>19, <1>20

LEMMA AroundConcat ==
  ASSUME NEW a \in Seq(Middle), NEW b \in Seq(Middle), NEW s, s = Around(a, b)
  PROVE  /\ s \in Seq(Op)
         /\ \A X : Never(s, X) <=> /\ Never(Open, X) /\ Never(a, X) /\ Never(Real, X)
                                   /\ Never(b, X) /\ Never(End, X)
         /\ \A X, Y : Order(s, X, Y) <=>
              /\ Order(Open, X, Y) /\ Order(a, X, Y) /\ Order(Real, X, Y) /\ Order(b, X, Y)
              /\ Order(End, X, Y)
              /\ Never(Open, Y) \/ Never(a, X)
              /\ (Never(Open, Y) /\ Never(a, Y)) \/ Never(Real, X)
              /\ (Never(Open, Y) /\ Never(a, Y) /\ Never(Real, Y)) \/ Never(b, X)
              /\ (Never(Open, Y) /\ Never(a, Y) /\ Never(Real, Y) /\ Never(b, Y)) \/ Never(End, X)
         /\ \A X, Y : Before(s, X, Y) <=>
              /\ Before(Open, X, Y)
              /\ ~Never(Open, X) \/ Before(a, X, Y)
              /\ ~(Never(Open, X) /\ Never(a, X)) \/ Before(Real, X, Y)
              /\ ~(Never(Open, X) /\ Never(a, X) /\ Never(Real, X)) \/ Before(b, X, Y)
              /\ \/ ~(Never(Open, X) /\ Never(a, X) /\ Never(Real, X) /\ Never(b, X))
                 \/ Before(End, X, Y)
<1> DEFINE p == Open \o a
           q == p \o Real
           r == q \o b
<1>1. /\ Open \in Seq(Op) /\ a \in Seq(Op) /\ Real \in Seq(Op) /\ b \in Seq(Op) /\ End \in Seq(Op)
  BY OpenOrder, EndOrder, OpSets, SeqMonotonic DEF Real, Op
<1>2. p \in Seq(Op) /\ q \in Seq(Op) /\ r \in Seq(Op) /\ s = r \o End /\ s \in Seq(Op)
  <2>1. p \in Seq(Op)
    BY <1>1, ConcatProperties
  <2> HIDE DEF p
  <2>2. q \in Seq(Op)
    BY <1>1, <2>1, ConcatProperties
  <2> HIDE DEF q
  <2>3. r \in Seq(Op)
    BY <1>1, <2>2, ConcatProperties
  <2>4. s = r \o End
    BY Zenon DEF Around, p, q, r
  <2> HIDE DEF r
  <2>5. s \in Seq(Op)
    BY <1>1, <2>3, <2>4, ConcatProperties
  <2> QED BY <2>1, <2>2, <2>3, <2>4, <2>5
<1>3. \A X, Y : /\ Never(p, X) <=> Never(Open, X) /\ Never(a, X)
                /\ Order(p, X, Y) <=>
                     Order(Open, X, Y) /\ Order(a, X, Y) /\ (Never(Open, Y) \/ Never(a, X))
                /\ Before(p, X, Y) <=> Before(Open, X, Y) /\ (~Never(Open, X) \/ Before(a, X, Y))
  BY <1>1, NeverConcat, OrderConcat, BeforeConcat
<1> HIDE DEF p
<1>4. \A X, Y : /\ Never(q, X) <=> Never(p, X) /\ Never(Real, X)
                /\ Order(q, X, Y) <=>
                     Order(p, X, Y) /\ Order(Real, X, Y) /\ (Never(p, Y) \/ Never(Real, X))
                /\ Before(q, X, Y) <=> Before(p, X, Y) /\ (~Never(p, X) \/ Before(Real, X, Y))
  BY <1>1, <1>2, NeverConcat, OrderConcat, BeforeConcat
<1> HIDE DEF q
<1>5. \A X, Y : /\ Never(r, X) <=> Never(q, X) /\ Never(b, X)
                /\ Order(r, X, Y) <=>
                     Order(q, X, Y) /\ Order(b, X, Y) /\ (Never(q, Y) \/ Never(b, X))
                /\ Before(r, X, Y) <=> Before(q, X, Y) /\ (~Never(q, X) \/ Before(b, X, Y))
  BY <1>1, <1>2, NeverConcat, OrderConcat, BeforeConcat
<1> HIDE DEF r
<1>6. \A X, Y : /\ Never(s, X) <=> Never(r, X) /\ Never(End, X)
                /\ Order(s, X, Y) <=>
                     Order(r, X, Y) /\ Order(End, X, Y) /\ (Never(r, Y) \/ Never(End, X))
                /\ Before(s, X, Y) <=> Before(r, X, Y) /\ (~Never(r, X) \/ Before(End, X, Y))
  BY <1>1, <1>2, NeverConcat, OrderConcat, BeforeConcat
<1>7. \A X : Never(s, X) <=> /\ Never(Open, X) /\ Never(a, X) /\ Never(Real, X)
                             /\ Never(b, X) /\ Never(End, X)
  BY <1>3, <1>4, <1>5, <1>6
<1>8. ASSUME NEW X, NEW Y
      PROVE  Order(s, X, Y) <=>
              /\ Order(Open, X, Y) /\ Order(a, X, Y) /\ Order(Real, X, Y) /\ Order(b, X, Y)
              /\ Order(End, X, Y)
              /\ Never(Open, Y) \/ Never(a, X)
              /\ (Never(Open, Y) /\ Never(a, Y)) \/ Never(Real, X)
              /\ (Never(Open, Y) /\ Never(a, Y) /\ Never(Real, Y)) \/ Never(b, X)
              /\ (Never(Open, Y) /\ Never(a, Y) /\ Never(Real, Y) /\ Never(b, Y)) \/ Never(End, X)
  BY <1>3, <1>4, <1>5, <1>6
<1>9. ASSUME NEW X, NEW Y
      PROVE  Before(s, X, Y) <=>
              /\ Before(Open, X, Y)
              /\ ~Never(Open, X) \/ Before(a, X, Y)
              /\ ~(Never(Open, X) /\ Never(a, X)) \/ Before(Real, X, Y)
              /\ ~(Never(Open, X) /\ Never(a, X) /\ Never(Real, X)) \/ Before(b, X, Y)
              /\ \/ ~(Never(Open, X) /\ Never(a, X) /\ Never(Real, X) /\ Never(b, X))
                 \/ Before(End, X, Y)
  BY <1>3, <1>4, <1>5, <1>6
<1> QED BY <1>2, <1>7, <1>8, <1>9

\* The clock is started before the call and stopped after it, if it is needed.
Timed(s) ==
  /\ Order(s, {"start"}, {"leave"}) /\ Order(s, {"leave"}, {"stop"})
  /\ Before(s, {"start"}, {"stop"}) /\ Before(s, {"stop"}, {"spent", "seconds"})

\* The timestamp comes first, the newline last, and there is one "(" before it.
Lined(s) ==
  /\ EmitTime => Before(s, {"prefix"}, Op \ {"prefix"})
  /\ ~Never(s, {"eol"}) /\ Order(s, Op \ {"flush"}, {"eol"})
  /\ Before(s, {"open"}, {"eol"}) /\ Order(s, {"open"}, {"open"})

\* There is one ")" before the newline.
ClosedOnce(s) == Before(s, {"close"}, {"eol"}) /\ Order(s, {"close"}, {"close"})

\* The code x is printed after the call, and counted after it.
Accounts(s, x) ==
  /\ Never(s, Codes \ {x}) /\ Before(s, {x}, {"errors"})
  /\ Order(s, {"leave"}, {x, "errors"}) /\ Order(s, {"leave"}, {"leave"})
  /\ Order(s, {"errors"}, {"errors"})
  /\ EmitStats => ~Never(s, {"errors"})

\* What the parts hold nothing of.
LEMMA PartsWithout ==
  ASSUME NEW a \in Seq(Middle), NEW b \in Seq(Middle)
  PROVE  /\ \A X : X \cap Opening = {} => Never(Open, X)
         /\ \A X : X \cap Middle = {} => Never(a, X) /\ Never(b, X)
         /\ \A X : X \cap Ending = {} => Never(End, X)
         /\ \A X : Never(Real, X) <=> "enter" \notin X /\ "leave" \notin X
         /\ \A X, Y : Order(Real, X, Y) <=> ("enter" \in Y => "leave" \notin X)
<1>1. Open \in Seq(Opening) /\ End \in Seq(Ending)
  BY OpenOrder, EndOrder
<1> QED BY <1>1, NeverOutside, TwoLeft DEF Real

LEMMA AroundTimed ==
  ASSUME NEW a \in Seq(Middle), NEW b \in Seq(Middle), NEW s, s = Around(a, b)
  PROVE  Timed(s)
<1> DEFINE Y == {"spent", "seconds"}
<1>1. /\ \A r \in {Open, Real, a, b} : Never(r, {"stop"}) /\ Never(r, Y)
      /\ \A r \in {Open, a, b, End} : Never(r, {"leave"})
      /\ \A r \in {Real, a, b, End} : Never(r, {"start"})
  BY PartsWithout DEF Opening, Middle, Ending, Codes
<1>2. /\ \A r \in {Open, Real, a, b} :
           Before(r, {"start"}, {"stop"}) /\ Before(r, {"stop"}, Y) /\ Order(r, {"leave"}, {"stop"})
      /\ \A r \in {Open, a, b, End} :
           Order(r, {"start"}, {"leave"}) /\ Order(r, {"leave"}, {"stop"})
      /\ Order(Real, {"start"}, {"leave"})
  BY <1>1, OrderOutside
<1>3. Before(End, {"stop"}, Y)
  BY EndOrder
<1>4. ~Never(Open, {"start"}) \/ Before(End, {"start"}, {"stop"})
  BY OpenOrder, EndOrder, OrderOutside
<1>5. Order(s, {"start"}, {"leave"})
  BY <1>1, <1>2, AroundConcat
<1>6. Order(s, {"leave"}, {"stop"})
  BY <1>1, <1>2, AroundConcat
<1>7. Before(s, {"start"}, {"stop"})
  BY <1>2, <1>4, AroundConcat
<1>8. Before(s, {"stop"}, Y)
  BY <1>2, <1>3, AroundConcat
<1> QED BY <1>5, <1>6, <1>7, <1>8 DEF Timed

LEMMA AroundLined ==
  ASSUME NEW a \in Seq(Middle), NEW b \in Seq(Middle), NEW s, s = Around(a, b)
  PROVE  Lined(s)
<1> DEFINE X == Op \ {"flush"}
           Y == Op \ {"prefix"}
<1>1. /\ \A r \in {Open, Real, a, b} : Never(r, {"eol"})
      /\ \A r \in {Real, a, b, End} : Never(r, {"open"})
  BY PartsWithout DEF Opening, Middle, Ending, Codes
<1>2. /\ \A r \in {Open, Real, a, b} : Order(r, X, {"eol"}) /\ Before(r, {"open"}, {"eol"})
      /\ \A r \in {Real, a, b, End} : Order(r, {"open"}, {"open"})
  BY <1>1, OrderOutside
<1> HIDE DEF X, Y
<1>3. Order(s, X, {"eol"})
  BY <1>1, <1>2, EndOrder, AroundConcat DEF X
<1>4. Before(s, {"open"}, {"eol"})
  BY <1>2, OpenOrder, AroundConcat
<1>5. Order(s, {"open"}, {"open"})
  BY <1>1, <1>2, OpenOrder, AroundConcat
<1>6. EmitTime => Before(s, {"prefix"}, Y)
  BY OpenOrder, AroundConcat DEF Y
<1>7. ~Never(s, {"eol"})
  BY EndOrder, AroundConcat
<1> QED BY <1>3, <1>4, <1>5, <1>6, <1>7 DEF Lined, X, Y

LEMMA AroundClosed ==
  ASSUME NEW a \in Seq(Middle), NEW b \in Seq(Middle), NEW s, s = Around(a, b), Shut(a, b)
  PROVE  ClosedOnce(s)
<1>1. /\ \A r \in {Open, Real, a, b} : Never(r, {"eol"})
      /\ \A r \in {Open, Real, End} : Never(r, {"close"})
  BY PartsWithout DEF Opening, Middle, Ending, Codes
<1>2. /\ \A r \in {Open, Real, a, b} : Before(r, {"close"}, {"eol"})
      /\ \A r \in {Open, Real, End} : Order(r, {"close"}, {"close"})
  BY <1>1, OrderOutside
<1>3. /\ Order(a, {"close"}, {"close"}) /\ Order(b, {"close"}, {"close"})
      /\ Never(a, {"close"}) \/ Never(b, {"close"})
      /\ ~Never(a, {"close"}) \/ ~Never(b, {"close"})
  BY OrderOutside DEF Shut, Lone
<1>4. Order(s, {"close"}, {"close"})
  BY <1>1, <1>2, <1>3, AroundConcat
<1>5. Before(s, {"close"}, {"eol"})
  BY <1>2, <1>3, AroundConcat
<1> QED BY <1>4, <1>5 DEF ClosedOnce

LEMMA AroundCounted ==
  ASSUME NEW a \in Seq(Middle), NEW b \in Seq(Middle), NEW s, s = Around(a, b),
         NEW x \in Codes, Counted(a, b, x)
  PROVE  Accounts(s, x)
<1> DEFINE E == {"errors"}
           L == {"leave"}
           Y == {x, "errors"}
           Z == Codes \ {x}
<1>1. /\ \A r \in {Open, Real, End} : Never(r, Y) /\ Never(r, E) /\ Never(r, Z)
      /\ \A r \in {Open, a, b, End} : Never(r, L)
      /\ ~Never(Real, L) /\ Order(Real, L, L)
  BY PartsWithout DEF Opening, Middle, Ending, Codes
<1>2. /\ Never(a, Y) /\ Never(a, E) /\ Never(a, Z)
  BY DEF Counted, Never
<1>3. /\ \A r \in {Open, Real, End, a} : Order(r, L, Y) /\ Order(r, E, E) /\ Before(r, {x}, E)
      /\ \A r \in {Open, a, b, End} : Order(r, L, L) /\ Order(r, L, Y)
  BY <1>1, <1>2, OrderOutside
<1>4. /\ Never(b, Z) /\ Before(b, {x}, E) /\ Order(b, E, E) /\ (EmitStats => ~Never(b, E))
  BY DEF Counted
<1> HIDE DEF E, L, Y, Z
<1>5. Never(s, Z) /\ (EmitStats => ~Never(s, E))
  BY <1>1, <1>2, <1>4, AroundConcat
<1>6. Before(s, {x}, E)
  BY <1>3, <1>4, AroundConcat
<1>7. Order(s, L, Y)
  BY <1>1, <1>2, <1>3, AroundConcat
<1>8. Order(s, L, L)
  BY <1>1, <1>3, AroundConcat
<1>9. Order(s, E, E)
  BY <1>1, <1>2, <1>3, <1>4, AroundConcat
<1> QED BY <1>5, <1>6, <1>7, <1>8, <1>9 DEF Accounts, E, L, Y, Z

LEMMA ScriptOrder ==
  ASSUME NEW f \in Function
  PROVE  /\ Timed(Script[f]) /\ Lined(Script[f]) /\ Script[f] \in Seq(Op)
         /\ f # "clEnqueueSVMFree" => ClosedOnce(Script[f])
         /\ Script[f] \in {Status, SVMFree} => Accounts(Script[f], "result")
         /\ Script[f] = Create => Accounts(Script[f], "resultptr")
<1>1. Script[f] \in Scripts /\ (f # "clEnqueueSVMFree" => Script[f] \in Single)
  BY ScriptSequences, FunctionAssumption DEF Table, FuncNames
<1>2. "result" \in Codes /\ "resultptr" \in Codes
  BY DEF Codes
<1>3. \E a, b \in Seq(Middle) : Script[f] = Around(a, b)
  BY <1>1, Frames DEF Scripts, Single
<1>4. Timed(Script[f]) /\ Lined(Script[f])
  BY <1>3, AroundTimed, AroundLined
<1>5. f # "clEnqueueSVMFree" => ClosedOnce(Script[f])
  BY <1>1, Frames, AroundClosed
<1>6. Script[f] \in {Status, SVMFree} => Accounts(Script[f], "result")
  BY <1>2, Frames, AroundCounted
<1>7. Script[f] = Create => Accounts(Script[f], "resultptr")
  BY <1>2, Frames, AroundCounted
<1>8. Script[f] \in Seq(Op)
  BY <1>3, AroundConcat
<1> QED BY <1>4, <1>5, <1>6, <1>7, <1>8

\* What a step of a thread leaves alone, and what it does to its script.
LEMMA StepOfOne ==
  ASSUME TypeOK, NEW t \in Thread, Step(t), ~Begin(t)
  PROVE  /\ UNCHANGED <<fn, clock>>
         /\ \A u \in Thread : u # t => todo'[u] = todo[u] /\ frame'[u] = frame[u]
         /\ ~Load(t) => /\ todo[t] \in Seq(Op) /\ todo[t] # <<>> /\ todo'[t] = Tail(todo[t])
                        /\ todo'[t] \in Seq(Op)
         /\ Load(t) => UNCHANGED <<todo, frame, line, failed>>
<1>1. UNCHANGED <<fn, clock>>
  BY DEF Step, Emit, Newline, FlushOut, EmitCode, SkipCount, Load, Store,
     StartClock, StopClock, Enter, Leave
<1>2. \A u \in Thread : u # t => todo'[u] = todo[u] /\ frame'[u] = frame[u]
  BY DEF Step, Emit, Newline, FlushOut, EmitCode, SkipCount, Load, Store,
     StartClock, StopClock, Enter, Leave, Advance, TypeOK
<1>3. ASSUME ~Load(t) PROVE ~Idle(t) /\ Advance(t)
  BY <1>3 DEF Step, Emit, Newline, FlushOut, EmitCode, SkipCount, Store,
     StartClock, StopClock, Enter, Leave, At
<1>4. ASSUME ~Load(t)
      PROVE  /\ todo[t] \in Seq(Op) /\ todo[t] # <<>> /\ todo'[t] = Tail(todo[t])
             /\ todo'[t] \in Seq(Op)
  <2>1. todo[t] \in Seq(Op) /\ todo[t] # <<>> /\ todo'[t] = Tail(todo[t])
    BY <1>3, <1>4 DEF TypeOK, Idle, Advance
  <2> QED BY <2>1, HeadTailProperties
<1>5. Load(t) => UNCHANGED <<todo, frame, line, failed>>
  BY DEF Load
<1> QED BY <1>1, <1>2, <1>4, <1>5

-----------------------------------------------------------------------------
(* The time of a call                                                      *)

\* How far the rest s of a script has come in timing the call of the locals r,
\* when the clock shows c.
Measured(s, r, c) ==
  /\ Order(s, {"start"}, {"leave"}) /\ Order(s, {"leave"}, {"stop"})
  /\ r.inside = 0 \/ Never(s, {"start"})
  /\ Before(s, {"start"}, {"stop"}) \/ c - r.start >= r.inside
  /\ \/ Before(s, {"stop"}, {"spent", "seconds"})
     \/ r.elapsed >= r.inside /\ Never(s, {"leave"})

TimeInv == \A t \in Thread : Measured(todo[t], frame[t], clock)

\* Executing an operation that is not about time.
LEMMA MeasuredTail ==
  ASSUME NEW s \in Seq(Op), s # <<>>, Head(s) \notin {"start", "stop"},
         NEW r, NEW q, NEW c, Measured(s, r, c),
         q.start = r.start, q.inside = r.inside, q.elapsed = r.elapsed
  PROVE  Measured(Tail(s), q, c)
<1>1. /\ Order(Tail(s), {"start"}, {"leave"}) /\ Order(Tail(s), {"leave"}, {"stop"})
      /\ Never(s, {"start"}) => Never(Tail(s), {"start"})
      /\ Never(s, {"leave"}) => Never(Tail(s), {"leave"})
      /\ Before(s, {"start"}, {"stop"}) => Before(Tail(s), {"start"}, {"stop"})
      /\ Before(s, {"stop"}, {"spent", "seconds"}) => Before(Tail(s), {"stop"}, {"spent", "seconds"})
  BY Executed DEF Measured
<1> QED BY <1>1 DEF Measured

LEMMA TimeStep ==
  ASSUME TypeOK, TimeInv, [Next]_vars
  PROVE  TimeInv'
<1> USE DEF TimeInv
<1>1. CASE UNCHANGED vars \/ Finished
  BY <1>1 DEF vars, Finished
<1>2. CASE Tick
  <2> SUFFICES ASSUME NEW t \in Thread PROVE Measured(todo[t], frame'[t], clock + 1)
    BY <1>2 DEF Tick
  <2>1. frame[t] \in Frame /\ clock \in Int /\ todo[t] \in Seq(Op)
    BY DEF TypeOK
  <2>2. CASE At(t, {"leave"})
    <3>1. /\ frame'[t].start = frame[t].start /\ frame'[t].inside = frame[t].inside + 1
      BY <1>2, <2>1, <2>2 DEF Tick, Frame
    <3>2. todo[t] # <<>> /\ Head(todo[t]) = "leave"
      BY <2>2 DEF At, Idle
    <3>3. Never(todo[t], {"start"}) /\ ~Never(todo[t], {"leave"})
      BY <2>1, <3>2, Executed DEF Measured
    <3>4. PICK i \in Nat, s \in Int : i = frame[t].inside /\ s = frame[t].start
      BY <2>1 DEF Frame
    <3>5. clock - s >= i => (clock + 1) - s >= i + 1
      BY <2>1
    <3> QED BY <3>1, <3>3, <3>4, <3>5 DEF Measured
  <2>3. CASE ~At(t, {"leave"})
    <3>1. frame'[t] = frame[t]
      BY <1>2, <2>3 DEF Tick
    <3>2. PICK i \in Nat, s \in Int : i = frame[t].inside /\ s = frame[t].start
      BY <2>1 DEF Frame
    <3>3. clock - s >= i => (clock + 1) - s >= i
      BY <2>1
    <3> QED BY <3>1, <3>2, <3>3 DEF Measured
  <2> QED BY <2>2, <2>3
<1>3. ASSUME NEW t \in Thread, Begin(t) PROVE TimeInv'
  <2>1. PICK f \in Function, given \in BOOLEAN :
          todo'[t] = Script[f] /\ frame'[t] = NewFrame(given)
    BY <1>3 DEF Begin, TypeOK
  <2>2. Measured(Script[f], NewFrame(given), clock)
    BY ScriptOrder DEF Timed, Measured, NewFrame
  <2>3. clock' = clock /\ \A u \in Thread : u # t => todo'[u] = todo[u] /\ frame'[u] = frame[u]
    BY <1>3 DEF Begin, TypeOK
  <2> QED BY <2>1, <2>2, <2>3
<1>4. ASSUME NEW t \in Thread, Step(t), ~Begin(t) PROVE TimeInv'
  <2>1. clock' = clock /\ \A u \in Thread : u # t => todo'[u] = todo[u] /\ frame'[u] = frame[u]
    BY <1>4, StepOfOne
  <2> SUFFICES Measured(todo'[t], frame'[t], clock)
    BY <2>1
  <2>2. frame[t] \in Frame /\ clock \in Int /\ todo[t] \in Seq(Op) /\ Measured(todo[t], frame[t], clock)
    BY DEF TypeOK
  <2>3. CASE Load(t)
    BY <2>2, <2>3 DEF Load
  <2>4. CASE ~Load(t)
    <3>1. todo[t] # <<>> /\ todo'[t] = Tail(todo[t])
      BY <1>4, <2>4, StepOfOne
    <3>2. CASE StartClock(t)
      <4>1. /\ Head(todo[t]) = "start" /\ frame'[t].start = clock
            /\ frame'[t].inside = frame[t].inside /\ frame'[t].elapsed = frame[t].elapsed
        BY <2>2, <3>2 DEF StartClock, At, TypeOK, Frame
      <4>2. frame[t].inside = 0
        BY <2>2, <3>1, <4>1, Executed DEF Measured
      <4>3. clock - clock >= 0
        BY <2>2
      <4>4. Never(todo[t], {"leave"}) => Never(Tail(todo[t]), {"leave"})
        BY <2>2, <3>1, Executed
      <4>5. Before(todo[t], {"stop"}, {"spent", "seconds"})
              => Before(Tail(todo[t]), {"stop"}, {"spent", "seconds"})
        BY <2>2, <3>1, <4>1, Executed
      <4>6. Order(Tail(todo[t]), {"start"}, {"leave"}) /\ Order(Tail(todo[t]), {"leave"}, {"stop"})
        BY <2>2, <3>1, Executed DEF Measured
      <4> QED BY <2>2, <3>1, <4>1, <4>2, <4>3, <4>4, <4>5, <4>6 DEF Measured
    <3>3. CASE StopClock(t)
      <4>1. /\ Head(todo[t]) = "stop" /\ frame'[t].elapsed = clock - frame[t].start
            /\ frame'[t].inside = frame[t].inside /\ frame'[t].start = frame[t].start
        BY <2>2, <3>3 DEF StopClock, At, TypeOK, Frame
      <4>2. clock - frame[t].start >= frame[t].inside /\ Never(Tail(todo[t]), {"leave"})
        BY <2>2, <3>1, <4>1, Executed DEF Measured
      <4>3. /\ Order(Tail(todo[t]), {"start"}, {"leave"}) /\ Order(Tail(todo[t]), {"leave"}, {"stop"})
            /\ Never(todo[t], {"start"}) => Never(Tail(todo[t]), {"start"})
        BY <2>2, <3>1, Executed DEF Measured
      <4> QED BY <2>2, <3>1, <4>1, <4>2, <4>3 DEF Measured
    <3>4. CASE ~StartClock(t) /\ ~StopClock(t)
      <4>1. Head(todo[t]) \notin {"start", "stop"}
        BY <1>4, <2>4, <3>4 DEF Step, Emit, Newline, FlushOut, EmitCode, SkipCount, Store,
           Enter, Leave, At, Text, Codes, Counter
      <4>2. /\ frame'[t].start = frame[t].start /\ frame'[t].inside = frame[t].inside
            /\ frame'[t].elapsed = frame[t].elapsed
        <5>1. CASE EmitCode(t)
          BY <2>2, <5>1 DEF EmitCode, TypeOK, Frame
        <5>2. CASE Leave(t)
          BY <2>2, <5>2 DEF Leave, TypeOK, Frame
        <5>3. CASE ~EmitCode(t) /\ ~Leave(t)
          BY <1>4, <2>4, <3>4, <5>3 DEF Step, Emit, Newline, FlushOut, SkipCount, Store, Enter
        <5> QED BY <5>1, <5>2, <5>3
      <4> QED BY <2>2, <3>1, <4>1, <4>2, MeasuredTail
    <3> QED BY <3>2, <3>3, <3>4
  <2> QED BY <2>3, <2>4
<1> QED BY <1>1, <1>2, <1>3, <1>4 DEF Next

\* The time that is printed and added up covers the time in the real function
\* (opencl.c:430-463), whatever the other threads do meanwhile.
THEOREM TimeCoversCallHolds == Spec => []TimeCoversCall
<1>1. Init => TimeInv
  BY NothingLeft DEF Init, TimeInv, Measured, NewFrame
<1>2. TypeOK /\ TimeInv => TimeCoversCall
  <2> SUFFICES ASSUME TypeOK, TimeInv, NEW t \in Thread, At(t, {"spent", "seconds"})
               PROVE  frame[t].elapsed >= frame[t].inside
    BY DEF TimeCoversCall
  <2>1. todo[t] \in Seq(Op) /\ todo[t] # <<>> /\ Head(todo[t]) \in {"spent", "seconds"}
    BY DEF TypeOK, At, Idle
  <2> QED BY <2>1, Executed DEF TimeInv, Measured
<1> QED BY <1>1, <1>2, TimeStep, TracerTypeCorrect, PTL DEF Spec

-----------------------------------------------------------------------------
(* A line                                                                  *)

\* No two calls overlap.
Sequential == \A t, u \in Thread : t = u \/ Idle(t) \/ Idle(u)

\* A thread is in the middle of a line, or has ended its line.
Writes(s) == ~Never(s, {"eol"})
Silent(s) == Never(s, Op \ {"flush"})

\* n of the bracket b is in the line, and the rest s prints the others.
Pairs(s, n, b) ==
  /\ Order(s, {b}, {b})
  /\ (n = 0 /\ Before(s, {b}, {"eol"})) \/ (n = 1 /\ Never(s, {b}))

\* What the rest s of the script of f is to make of the line l.
Finishes(s, f, l) ==
  /\ Order(s, Op \ {"flush"}, {"eol"})
  /\ EmitTime => l.first = "prefix" \/ Before(s, {"prefix"}, Op \ {"prefix"})
  /\ Pairs(s, l.opened, "open")
  /\ f # "clEnqueueSVMFree" => Pairs(s, l.closed, "close")

LineInv ==
  /\ EmitTime => line.first \in {"none", "prefix"}
  /\ \A t \in Thread :
       Silent(todo[t]) \/ (Writes(todo[t]) /\ Finishes(todo[t], fn[t], line))
  /\ (\A t \in Thread : Silent(todo[t])) => line = EmptyLine

LEMMA SilentTail ==
  ASSUME NEW s \in Seq(Op), s # <<>>
  PROVE  /\ Silent(s) => Silent(Tail(s)) /\ Head(s) = "flush"
         /\ Writes(s) => ~Silent(s) /\ (Head(s) # "eol" => Writes(Tail(s)))
         /\ Order(s, Op \ {"flush"}, {"eol"}) /\ Head(s) = "eol" => Silent(Tail(s))
<1>1. Head(s) \in Op
  BY HeadTailProperties
<1>2. Never(s, Op \ {"flush"}) => Never(s, {"eol"})
  BY DEF Never, Op
<1>3. Silent(s) => Silent(Tail(s)) /\ Head(s) = "flush"
  BY <1>1, Executed DEF Silent
<1>4. Writes(s) => ~Silent(s) /\ (Head(s) # "eol" => Writes(Tail(s)))
  BY <1>2, Executed DEF Silent, Writes
<1>5. Order(s, Op \ {"flush"}, {"eol"}) /\ Head(s) = "eol" => Silent(Tail(s))
  BY Executed DEF Silent
<1> QED BY <1>3, <1>4, <1>5

LEMMA SilentNothing == Silent(<<>>)
BY NothingLeft DEF Silent

\* A bracket that is printed, and another operation.
LEMMA PairsTail ==
  ASSUME NEW s \in Seq(Op), s # <<>>, NEW n \in Nat, NEW b, Pairs(s, n, b), Head(s) # "eol"
  PROVE  Pairs(Tail(s), n + (IF Head(s) = b THEN 1 ELSE 0), b)
<1>1. Order(Tail(s), {b}, {b})
  BY Executed DEF Pairs
<1>2. CASE Head(s) = b
  <2>1. n = 0 /\ Never(Tail(s), {b})
    BY <1>2, Executed DEF Pairs
  <2> QED BY <1>1, <1>2, <2>1 DEF Pairs
<1>3. CASE Head(s) # b
  <2>1. /\ Before(s, {b}, {"eol"}) => Before(Tail(s), {b}, {"eol"})
        /\ Never(s, {b}) => Never(Tail(s), {b})
    BY <1>3, Executed
  <2> QED BY <1>1, <1>3, <2>1 DEF Pairs
<1> QED BY <1>2, <1>3

LEMMA FinishesTail ==
  ASSUME NEW s \in Seq(Op), s # <<>>, Head(s) # "eol", NEW f, NEW l \in Line, NEW m,
         Finishes(s, f, l),
         m.opened = l.opened + (IF Head(s) = "open" THEN 1 ELSE 0),
         m.closed = l.closed + (IF Head(s) = "close" THEN 1 ELSE 0),
         l.first = "prefix" => m.first = "prefix",
         Head(s) = "prefix" => m.first = "prefix" \/ l.first # "none",
         EmitTime => l.first \in {"none", "prefix"}
  PROVE  Finishes(Tail(s), f, m)
<1>1. l.opened \in Nat /\ l.closed \in Nat
  BY DEF Line
<1>2. Order(Tail(s), Op \ {"flush"}, {"eol"})
  BY Executed DEF Finishes
<1>3. Pairs(Tail(s), m.opened, "open")
  BY <1>1, PairsTail DEF Finishes
<1>4. f # "clEnqueueSVMFree" => Pairs(Tail(s), m.closed, "close")
  BY <1>1, PairsTail DEF Finishes
<1>5. ASSUME EmitTime PROVE m.first = "prefix"
  <2>1. CASE l.first = "prefix"
    BY <2>1
  <2>2. CASE Before(s, {"prefix"}, Op \ {"prefix"})
    <3>1. Head(s) = "prefix"
      BY <2>2, Executed, HeadTailProperties
    <3> QED BY <1>5, <3>1
  <2> QED BY <1>5, <2>1, <2>2 DEF Finishes
<1> QED BY <1>2, <1>3, <1>4, <1>5 DEF Finishes

\* Calls that do not overlap leave a line of their own each.
LEMMA LineStep ==
  ASSUME TypeOK, LineInv, Sequential, Sequential', [Next]_vars
  PROVE  LineInv'
<1>1. CASE UNCHANGED <<todo, fn, line>>
  BY <1>1 DEF LineInv, Silent, Writes, Finishes, Pairs
<1>2. ASSUME NEW t \in Thread, Begin(t) PROVE LineInv'
  <2>1. PICK f \in Function : todo'[t] = Script[f] /\ fn'[t] = f
    BY <1>2 DEF Begin, TypeOK
  <2>2. Writes(Script[f]) /\ Lined(Script[f])
        /\ (f # "clEnqueueSVMFree" => ClosedOnce(Script[f]))
    BY ScriptOrder DEF Lined, Writes
  <2>3. todo'[t] # <<>>
    BY <2>1, <2>2, NothingLeft DEF Writes
  <2>4. \A u \in Thread : u # t => todo'[u] = <<>> /\ todo[u] = <<>>
    BY <1>2, <2>3 DEF Sequential, Idle, Begin, TypeOK
  <2>5. \A u \in Thread : todo[u] = <<>>
    BY <1>2, <2>4 DEF Begin, Idle
  <2>6. line' = line /\ line = EmptyLine
    BY <1>2, <2>5, SilentNothing DEF LineInv, Begin
  <2>7. Finishes(Script[f], f, line)
    BY <2>2, <2>6 DEF Finishes, Pairs, Lined, ClosedOnce, EmptyLine
  <2>8. ~Silent(Script[f])
    BY <2>1, <2>2, <2>3, ScriptOrder, SilentTail
  <2>9. \A u \in Thread : Silent(todo'[u]) \/ (Writes(todo'[u]) /\ Finishes(todo'[u], fn'[u], line'))
    BY <2>1, <2>2, <2>4, <2>6, <2>7, SilentNothing
  <2> QED BY <2>1, <2>6, <2>8, <2>9 DEF LineInv, EmptyLine
<1>3. ASSUME NEW t \in Thread, Step(t), ~Begin(t), ~Load(t) PROVE LineInv'
  <2>1. /\ todo[t] \in Seq(Op) /\ todo[t] # <<>> /\ todo'[t] = Tail(todo[t]) /\ fn' = fn
        /\ \A u \in Thread : u # t => todo'[u] = todo[u]
    BY <1>3, StepOfOne
  <2>2. \A u \in Thread : u # t => todo[u] = <<>> /\ todo'[u] = <<>>
    BY <2>1 DEF Sequential, Idle
  <2> DEFINE s == todo[t]
             h == Head(s)
  <2>3. SUFFICES /\ EmitTime => line'.first \in {"none", "prefix"}
                 /\ Silent(Tail(s)) \/ (Writes(Tail(s)) /\ Finishes(Tail(s), fn[t], line'))
                 /\ Silent(Tail(s)) => line' = EmptyLine
    BY <2>1, <2>2, SilentNothing DEF LineInv
  <2>4. line \in Line /\ (Silent(s) => line = EmptyLine)
    BY <2>2, SilentNothing DEF TypeOK, LineInv
  <2>5. CASE Silent(s)
    <3>1. Silent(Tail(s)) /\ h = "flush"
      BY <2>1, <2>5, SilentTail
    <3>2. line' = line
      BY <1>3, <3>1 DEF Step, Emit, Newline, FlushOut, EmitCode, SkipCount, Store,
         StartClock, StopClock, Enter, Leave, At, Text, Codes, Counter
    <3> QED BY <2>4, <2>5, <3>1, <3>2 DEF EmptyLine
  <2>6. CASE Writes(s) /\ Finishes(s, fn[t], line) /\ h = "eol"
    <3>1. line' = EmptyLine
      BY <1>3, <2>6 DEF Step, Emit, Newline, FlushOut, EmitCode, SkipCount, Store,
         StartClock, StopClock, Enter, Leave, At, Text, Codes, Counter
    <3>2. Silent(Tail(s))
      BY <2>1, <2>6, SilentTail DEF Finishes
    <3> QED BY <3>1, <3>2 DEF EmptyLine
  <2>7. CASE Writes(s) /\ Finishes(s, fn[t], line) /\ h # "eol"
    <3>1. Writes(Tail(s)) /\ Tail(s) \in Seq(Op)
      BY <2>1, <2>7, SilentTail, HeadTailProperties
    <3>2. ~Silent(Tail(s))
      BY <3>1 DEF Silent, Writes, Never, Op
    <3>3. EmitTime => line.first \in {"none", "prefix"}
      BY DEF LineInv
    <3>4. /\ line'.opened = line.opened + (IF h = "open" THEN 1 ELSE 0)
          /\ line'.closed = line.closed + (IF h = "close" THEN 1 ELSE 0)
          /\ line'.first = line.first \/ (line.first = "none" /\ line'.first = h)
          /\ h = "prefix" => line'.first = "prefix" \/ line.first # "none"
      <4>1. CASE Emit(t)
        BY <2>4, <4>1 DEF Emit, Put, Line
      <4>2. CASE EmitCode(t)
        <5>1. h \in Codes /\ Put(t, h)
          BY <4>2 DEF EmitCode, At
        <5> QED BY <2>4, <5>1 DEF Put, Line, Codes
      <4>3. CASE ~Emit(t) /\ ~EmitCode(t)
        <5>1. line' = line /\ h \notin {"open", "close", "prefix"}
          BY <1>3, <2>7, <4>3 DEF Step, Newline, FlushOut, SkipCount, Store,
             StartClock, StopClock, Enter, Leave, At, Counter
        <5>2. line.opened \in Nat /\ line.closed \in Nat
          BY <2>4 DEF Line
        <5> QED BY <5>1, <5>2
      <4> QED BY <4>1, <4>2, <4>3
    <3>5. Finishes(Tail(s), fn[t], line')
      <4>1. line.first = "prefix" => line'.first = "prefix"
        BY <3>4
      <4> HIDE DEF s
      <4> QED BY <2>1, <2>4, <2>7, <3>3, <3>4, <4>1, FinishesTail DEF s
    <3>6. EmitTime => line'.first \in {"none", "prefix"}
      <4>1. ASSUME EmitTime, line.first = "none" PROVE h = "prefix"
        BY <2>1, <2>7, <4>1, Executed, HeadTailProperties DEF Finishes
      <4> QED BY <3>3, <3>4, <4>1
    <3> QED BY <3>1, <3>2, <3>5, <3>6
  <2> QED BY <2>5, <2>6, <2>7 DEF LineInv
<1> QED BY <1>1, <1>2, <1>3, StepOfOne DEF Next, Finished, Tick, vars, Load

LEMMA LineInvariant == Spec /\ []Sequential => []LineInv
<1>1. Init => LineInv
  BY SilentNothing DEF Init, LineInv, EmptyLine
<1> QED BY <1>1, LineStep, TracerTypeCorrect, PTL DEF Spec

\* A traced program whose calls do not overlap gets a timestamp in front of each
\* line (opencl.c:422-426): nothing is printed into a line before it.
THEOREM LinesPrefixedHolds == Spec /\ []Sequential => []LinesPrefixed
<1>1. LineInv => LinesPrefixed
  BY DEF LineInv, LinesPrefixed
<1> QED BY <1>1, LineInvariant, PTL

\* And a call in each line, with one "(" and one ")", clEnqueueSVMFree excepted
\* (opencl.c:428, 447).
THEOREM LineIsACallHolds == Spec /\ []Sequential => []LineIsACall
<1>1. TypeOK /\ LineInv => LineIsACall
  <2> SUFFICES ASSUME TypeOK, LineInv, NEW t \in Thread, fn[t] # "clEnqueueSVMFree",
                      At(t, {"eol"})
               PROVE  line.opened = 1 /\ line.closed = 1
    BY DEF LineIsACall, Closed
  <2>1. todo[t] \in Seq(Op) /\ todo[t] # <<>> /\ Head(todo[t]) = "eol"
    BY DEF TypeOK, At, Idle
  <2>2. Finishes(todo[t], fn[t], line)
    BY <2>1, SilentTail DEF LineInv
  <2>3. Pairs(todo[t], line.opened, "open") /\ Pairs(todo[t], line.closed, "close")
    BY <2>2 DEF Finishes
  <2> QED BY <2>1, <2>3, Executed DEF Pairs
<1> QED BY <1>1, LineInvariant, TracerTypeCorrect, PTL

-----------------------------------------------------------------------------
(* Errors                                                                  *)

\* f tells the program by x whether it has failed.
Reports(f, x) == \/ x = "result" /\ Script[f] \in {Status, SVMFree}
                 \/ x = "resultptr" /\ Script[f] = Create

\* The rest s of a script will count a failure of the call of the locals r, or
\* has shown the code to count, or the program has given no pointer for it.
Accounting(s, r, x) ==
  /\ Never(s, Codes \ {x})
  /\ Order(s, {"leave"}, {x, "errors"}) /\ Order(s, {"leave"}, {"leave"})
  /\ Order(s, {"errors"}, {"errors"})
  /\ \/ Before(s, {x}, {"errors"})
     \/ /\ Never(s, {"leave"})
        /\ r.shown = r.result \/ (x = "resultptr" /\ r.shown = "none")
  /\ Never(s, {"leave"}) \/ ~Never(s, {"errors"})

\* The threads whose call of f has failed and is not counted yet.
Owes(t, f) == /\ fn[t] = f /\ frame[t].result # "ok"
              /\ Never(todo[t], {"leave"}) /\ ~Never(todo[t], {"errors"})
Owing(f) == {t \in Thread : Owes(t, f)}

AccountOf(f, x) ==
  /\ \A t \in Thread : fn[t] = f => Accounting(todo[t], frame[t], x)
  /\ IsFiniteSet(Owing(f))
  /\ due[f]["errors"] + Cardinality(Owing(f)) <= failed[f]
  /\ x = "result" => due[f]["errors"] + Cardinality(Owing(f)) = failed[f]

AccountInv == \A f \in Function, x \in {"result", "resultptr"} :
  Reports(f, x) => AccountOf(f, x)

\* Executing an operation that is neither the call nor about its code.
LEMMA AccountingTail ==
  ASSUME NEW s \in Seq(Op), s # <<>>, NEW x, Head(s) \notin {x, "errors", "leave"},
         NEW r, NEW q, q.result = r.result, q.shown = r.shown, Accounting(s, r, x)
  PROVE  /\ Accounting(Tail(s), q, x)
         /\ Never(Tail(s), {"leave"}) <=> Never(s, {"leave"})
         /\ Never(Tail(s), {"errors"}) <=> Never(s, {"errors"})
<1>1. /\ Never(Tail(s), {"leave"}) <=> Never(s, {"leave"})
      /\ Never(Tail(s), {"errors"}) <=> Never(s, {"errors"})
  BY Executed
<1>2. /\ Never(Tail(s), Codes \ {x}) /\ Order(Tail(s), {"leave"}, {x, "errors"})
      /\ Order(Tail(s), {"leave"}, {"leave"}) /\ Order(Tail(s), {"errors"}, {"errors"})
  BY Executed DEF Accounting
<1>3. Before(s, {x}, {"errors"}) => Before(Tail(s), {x}, {"errors"})
  BY Executed
<1> QED BY <1>1, <1>2, <1>3 DEF Accounting

\* A thread does something that neither makes nor pays a debt to f.
LEMMA NothingOwed ==
  ASSUME NEW f \in Function, NEW x, AccountOf(f, x), NEW t \in Thread,
         due'[f]["errors"] = due[f]["errors"], failed'[f] = failed[f],
         \A u \in Thread : u # t =>
           /\ fn'[u] = fn[u] /\ todo'[u] = todo[u]
           /\ frame'[u].result = frame[u].result /\ frame'[u].shown = frame[u].shown,
         fn'[t] = f => Accounting(todo'[t], frame'[t], x),
         Owes(t, f)' <=> Owes(t, f)
  PROVE  AccountOf(f, x)'
<1>1. \A u \in Thread : Owes(u, f)' <=> Owes(u, f)
  BY DEF Owes
<1>2. Owing(f)' = Owing(f)
  BY <1>1 DEF Owing
<1>3. \A u \in Thread : fn'[u] = f => Accounting(todo'[u], frame'[u], x)
  BY DEF AccountOf, Accounting
<1> QED BY <1>2, <1>3 DEF AccountOf

LEMMA AccountStep ==
  ASSUME TypeOK, InFunction, CounterInv, AccountInv, EmitStats, [Next]_vars
  PROVE  AccountInv'
<1> SUFFICES ASSUME NEW f \in Function, NEW x \in {"result", "resultptr"}, Reports(f, x)
             PROVE  AccountOf(f, x)'
  BY DEF AccountInv
<1>1. AccountOf(f, x)
  BY DEF AccountInv
<1>2. CASE UNCHANGED <<todo, fn, frame, due, failed>>
  BY <1>1, <1>2 DEF AccountOf, Owing, Owes, Accounting
<1>3. CASE Tick
  <2>1. \A u \in Thread : frame'[u].result = frame[u].result /\ frame'[u].shown = frame[u].shown
    BY <1>3 DEF Tick, TypeOK, Frame
  <2>2. UNCHANGED <<todo, fn, due, failed>>
    BY <1>3 DEF Tick
  <2>3. Owing(f)' = Owing(f)
    BY <2>1, <2>2 DEF Owing, Owes
  <2> QED BY <1>1, <2>1, <2>2, <2>3 DEF AccountOf, Accounting
<1>4. ASSUME NEW t \in Thread, Begin(t) PROVE AccountOf(f, x)'
  <2>1. PICK g \in Function, given \in BOOLEAN :
          todo'[t] = Script[g] /\ fn'[t] = g /\ frame'[t] = NewFrame(given)
    BY <1>4 DEF Begin, TypeOK
  <2>2. /\ UNCHANGED <<due, failed>> /\ todo[t] = <<>>
        /\ \A u \in Thread : u # t => todo'[u] = todo[u] /\ fn'[u] = fn[u] /\ frame'[u] = frame[u]
    BY <1>4 DEF Begin, Idle, TypeOK
  <2>3. ~Owes(t, f) /\ ~Owes(t, f)'
    BY <2>1, <2>2, NothingLeft DEF Owes, NewFrame
  <2>4. fn'[t] = f => Accounting(todo'[t], frame'[t], x)
    BY <2>1, ScriptOrder DEF Reports, Accounts, Accounting
  <2> QED BY <1>1, <2>2, <2>3, <2>4, NothingOwed
<1>5. ASSUME NEW t \in Thread, Step(t), ~Begin(t), ~Load(t) PROVE AccountOf(f, x)'
  <2> DEFINE s == todo[t]
             h == Head(s)
  <2>1. /\ s \in Seq(Op) /\ s # <<>> /\ todo'[t] = Tail(s) /\ fn' = fn
        /\ \A u \in Thread : u # t => todo'[u] = todo[u] /\ frame'[u] = frame[u]
    BY <1>5, StepOfOne
  <2>2. fn[t] \in Function /\ frame[t] \in Frame
    BY <2>1 DEF InFunction, Idle, TypeOK
  <2>3. /\ Never(s, {"leave"}) <=> h # "leave" /\ Never(Tail(s), {"leave"})
        /\ Never(s, {"errors"}) <=> h # "errors" /\ Never(Tail(s), {"errors"})
    BY <2>1, Executed
  <2>4. \A u \in Thread : u # t => (Owes(u, f)' <=> Owes(u, f))
    BY <2>1 DEF Owes
  <2>5. CASE fn[t] # f
    <3>1. due'[f]["errors"] = due[f]["errors"] /\ failed'[f] = failed[f]
      <4>1. CASE Store(t)
        BY <2>2, <2>5, <4>1 DEF Store, TypeOK
      <4>2. CASE Leave(t)
        BY <2>2, <2>5, <4>2 DEF Leave, TypeOK
      <4>3. CASE ~Store(t) /\ ~Leave(t)
        BY <1>5, <4>3 DEF Step, Emit, Newline, FlushOut, EmitCode, SkipCount,
           StartClock, StopClock, Enter
      <4> QED BY <4>1, <4>2, <4>3
    <3>2. ~Owes(t, f) /\ ~Owes(t, f)'
      BY <2>1, <2>5 DEF Owes
    <3> QED BY <1>1, <2>1, <2>5, <3>1, <3>2, NothingOwed
  <2>6. CASE fn[t] = f /\ Leave(t)
    <3>1. PICK result \in Outcome :
            /\ frame'[t].result = result /\ frame'[t].shown = frame[t].shown
            /\ failed'[f] = IF result # "ok" THEN failed[f] + 1 ELSE failed[f]
      BY <2>2, <2>6 DEF Leave, TypeOK, Frame
    <3>2. h = "leave" /\ due' = due
      BY <2>6 DEF Leave, At
    <3>3. Accounting(s, frame[t], x)
      BY <1>1, <2>6 DEF AccountOf
    <3>4. ~Never(s, {"leave"}) /\ Never(Tail(s), {"leave"}) /\ ~Never(Tail(s), {"errors"})
      BY <2>1, <2>3, <3>2, <3>3, Executed DEF Accounting
    <3>5. Accounting(Tail(s), frame'[t], x)
      <4>1. Before(s, {x}, {"errors"}) /\ x # "leave"
        BY <3>3, <3>4 DEF Accounting
      <4>2. Before(Tail(s), {x}, {"errors"})
        BY <2>1, <3>2, <4>1, Executed
      <4>3. /\ Never(Tail(s), Codes \ {x}) /\ Order(Tail(s), {"leave"}, {x, "errors"})
            /\ Order(Tail(s), {"leave"}, {"leave"}) /\ Order(Tail(s), {"errors"}, {"errors"})
        BY <2>1, <3>3, Executed DEF Accounting
      <4> QED BY <3>4, <4>2, <4>3 DEF Accounting
    <3>6. ~Owes(t, f) /\ (Owes(t, f)' <=> result # "ok")
      BY <2>1, <2>6, <3>1, <3>4 DEF Owes
    <3>7. CASE result = "ok"
      BY <1>1, <2>1, <3>1, <3>2, <3>5, <3>6, <3>7, NothingOwed
    <3>8. CASE result # "ok"
      <4>1. Owing(f)' = Owing(f) \union {t} /\ t \notin Owing(f)
        BY <2>4, <3>6, <3>8 DEF Owing
      <4>2. IsFiniteSet(Owing(f)') /\ Cardinality(Owing(f)') = Cardinality(Owing(f)) + 1
        BY <1>1, <4>1, FS_AddElement DEF AccountOf
      <4>3. Cardinality(Owing(f)) \in Nat /\ due[f]["errors"] \in Int /\ failed[f] \in Nat
        BY <1>1, FS_CardinalityType DEF AccountOf, TypeOK, Counter
      <4>4. \A u \in Thread : fn'[u] = f => Accounting(todo'[u], frame'[u], x)
        BY <1>1, <2>1, <3>5 DEF AccountOf
      <4> QED BY <1>1, <3>1, <3>2, <3>8, <4>2, <4>3, <4>4 DEF AccountOf
    <3> QED BY <3>7, <3>8
  <2>7. CASE fn[t] = f /\ h = "errors"
    <3>1. Accounting(s, frame[t], x)
      BY <1>1, <2>7 DEF AccountOf
    <3>2. Never(s, {"leave"}) /\ Never(Tail(s), {"errors"}) /\ Never(Tail(s), {"leave"})
      BY <2>1, <2>3, <2>7, <3>1, Executed DEF Accounting
    <3>3. frame[t].shown = frame[t].result \/ (x = "resultptr" /\ frame[t].shown = "none")
      BY <2>1, <2>7, <3>1, Executed DEF Accounting
    <3>4. frame'[t] = frame[t] /\ failed' = failed /\ (Store(t) \/ SkipCount(t))
      BY <1>5, <2>7 DEF Step, Emit, Newline, FlushOut, EmitCode, SkipCount, Store,
         StartClock, StopClock, Enter, Leave, At, Text, Codes
    <3>5. Accounting(Tail(s), frame'[t], x)
      <4>1. /\ Never(Tail(s), Codes \ {x}) /\ Order(Tail(s), {"leave"}, {x, "errors"})
            /\ Order(Tail(s), {"leave"}, {"leave"}) /\ Order(Tail(s), {"errors"}, {"errors"})
        BY <2>1, <3>1, Executed DEF Accounting
      <4> QED BY <3>2, <3>3, <3>4, <4>1 DEF Accounting
    <3>6. ~Owes(t, f)' /\ (Owes(t, f) <=> frame[t].result # "ok")
      BY <2>1, <2>3, <2>7, <3>2, <3>4 DEF Owes
    <3>7. \A u \in Thread : fn'[u] = f => Accounting(todo'[u], frame'[u], x)
      BY <1>1, <2>1, <3>5 DEF AccountOf
    <3>8. /\ Owing(f)' = Owing(f) \ {t}
          /\ IsFiniteSet(Owing(f)')
          /\ Cardinality(Owing(f)') = IF Owes(t, f) THEN Cardinality(Owing(f)) - 1
                                                   ELSE Cardinality(Owing(f))
      <4>1. Owing(f)' = Owing(f) \ {t} /\ (t \in Owing(f) <=> Owes(t, f))
        BY <2>4, <3>6 DEF Owing
      <4> QED BY <1>1, <4>1, FS_RemoveElement DEF AccountOf
    <3>9. Cardinality(Owing(f)) \in Nat /\ due[f]["errors"] \in Int /\ failed[f] \in Nat
      BY <1>1, FS_CardinalityType DEF AccountOf, TypeOK, Counter
    <3>10. CASE Store(t)
      <4>1. loaded[t] # Nothing /\ due'[f]["errors"] = due[f]["errors"] + 1
        BY <2>2, <2>7, <3>10 DEF Store, At, TypeOK, Counter, Amount
      <4>2. frame[t].shown \in {"error", "unnamed"}
        BY <2>7, <4>1 DEF CounterInv, LoadedAtCounter, Counts
      <4>3. Owes(t, f)
        BY <3>3, <3>6, <4>2
      <4> QED BY <1>1, <3>4, <3>7, <3>8, <3>9, <4>1, <4>3 DEF AccountOf
    <3>11. CASE SkipCount(t)
      <4>1. due' = due /\ frame[t].shown \notin {"error", "unnamed"}
        BY <2>7, <3>11 DEF SkipCount, At, Counts
      <4>2. x = "result" => ~Owes(t, f)
        BY <2>2, <3>3, <3>6, <4>1 DEF Frame, Outcome
      <4> QED BY <1>1, <3>4, <3>7, <3>8, <3>9, <4>1, <4>2 DEF AccountOf
    <3> QED BY <3>4, <3>10, <3>11
  <2>8. CASE fn[t] = f /\ EmitCode(t)
    <3>1. PICK y \in Codes : /\ At(t, {y})
                             /\ \E shown \in CodeShown(t, y) : frame' = [frame EXCEPT ![t].shown = shown]
                             /\ UNCHANGED <<due, failed>>
      BY <2>8 DEF EmitCode
    <3>2. Accounting(s, frame[t], x) /\ h = y
      BY <1>1, <2>8, <3>1 DEF AccountOf, At
    <3>3. y = x
      <4>1. Never(s, Codes \ {x})
        BY <3>2 DEF Accounting
      <4>2. h \notin Codes \ {x}
        BY <2>1, <4>1, Executed
      <4> QED BY <3>2, <4>2
    <3>4. /\ frame'[t].result = frame[t].result
          /\ frame'[t].shown = frame[t].result \/ (x = "resultptr" /\ frame'[t].shown = "none")
      BY <2>2, <3>1, <3>3 DEF CodeShown, TypeOK, Frame
    <3>5. Never(Tail(s), {"leave"}) /\ h \notin {"leave", "errors"}
      BY <2>1, <3>2, <3>3, Executed DEF Accounting, Codes
    <3>6. Accounting(Tail(s), frame'[t], x)
      <4>1. /\ Never(Tail(s), Codes \ {x}) /\ Order(Tail(s), {"leave"}, {x, "errors"})
            /\ Order(Tail(s), {"leave"}, {"leave"}) /\ Order(Tail(s), {"errors"}, {"errors"})
        BY <2>1, <3>2, Executed DEF Accounting
      <4> QED BY <3>4, <3>5, <4>1 DEF Accounting
    <3>7. Owes(t, f)' <=> Owes(t, f)
      BY <2>1, <2>3, <3>4, <3>5 DEF Owes
    <3> QED BY <1>1, <2>1, <3>1, <3>6, <3>7, NothingOwed
  <2>9. CASE fn[t] = f /\ ~Leave(t) /\ h # "errors" /\ ~EmitCode(t)
    <3>1. /\ h \notin {x, "errors", "leave"} /\ failed' = failed
          /\ due'[f]["errors"] = due[f]["errors"]
      <4>1. CASE Store(t)
        BY <2>2, <2>9, <4>1 DEF Store, At, TypeOK, Counter
      <4>2. CASE ~Store(t)
        BY <1>5, <2>9, <4>2 DEF Step, Emit, Newline, FlushOut, SkipCount,
           StartClock, StopClock, Enter, At, Text, Counter
      <4> QED BY <4>1, <4>2
    <3>2. frame'[t].result = frame[t].result /\ frame'[t].shown = frame[t].shown
      <4>1. CASE StartClock(t)
        BY <2>2, <4>1 DEF StartClock, TypeOK, Frame
      <4>2. CASE StopClock(t)
        BY <2>2, <4>2 DEF StopClock, TypeOK, Frame
      <4>3. CASE ~StartClock(t) /\ ~StopClock(t)
        BY <1>5, <2>9, <4>3 DEF Step, Emit, Newline, FlushOut, SkipCount, Store, Enter
      <4> QED BY <4>1, <4>2, <4>3
    <3>3. Accounting(s, frame[t], x)
      BY <1>1, <2>9 DEF AccountOf
    <3>4. /\ Accounting(Tail(s), frame'[t], x)
          /\ Never(Tail(s), {"leave"}) <=> Never(s, {"leave"})
          /\ Never(Tail(s), {"errors"}) <=> Never(s, {"errors"})
      BY <2>1, <3>1, <3>2, <3>3, AccountingTail
    <3>5. Owes(t, f)' <=> Owes(t, f)
      BY <2>1, <3>2, <3>4 DEF Owes
    <3> QED BY <1>1, <2>1, <3>1, <3>4, <3>5, NothingOwed
  <2> QED BY <2>5, <2>6, <2>7, <2>8, <2>9
<1> QED BY <1>2, <1>3, <1>4, <1>5 DEF Next, Finished, vars, Load

\* When all calls have returned and no two updates overlapped, the summary's
\* errors are the failures (opencl.c:571-587), of a function that reports them by
\* its result; and no more than those where the program may give no pointer.
THEOREM ErrorsAreFailuresHolds == Spec => []ErrorsAreFailures
<1>1. Init => AccountInv
  <2> SUFFICES ASSUME Init, NEW f \in Function, NEW x PROVE AccountOf(f, x)
    BY DEF AccountInv
  <2>1. Owing(f) = {}
    BY NothingLeft DEF Init, Owing, Owes
  <2>2. due[f]["errors"] = 0 /\ failed[f] = 0
    BY DEF Init, Zero, Counter
  <2>3. \A t \in Thread : Accounting(todo[t], frame[t], x)
    BY NothingLeft DEF Init, Accounting
  <2> QED BY <2>1, <2>2, <2>3, FS_EmptySet DEF AccountOf
<1>2. TypeOK /\ CounterInv /\ (EmitStats => AccountInv) => ErrorsAreFailures
  <2> SUFFICES ASSUME TypeOK, CounterInv, AccountInv, AllReturned, NEW f \in Function
               PROVE  /\ f \in ReturnsStatus /\ Script[f] # Event => stats[f]["errors"] = failed[f]
                      /\ Script[f] = Create => stats[f]["errors"] <= failed[f]
    BY DEF ErrorsAreFailures
  <2>1. stats[f] = due[f]
    BY DEF AllReturned, CounterInv, ExactSoFar
  <2>2. Owing(f) = {}
    BY NothingLeft DEF AllReturned, Idle, Owing, Owes
  <2>3. Cardinality(Owing(f)) = 0 /\ due[f]["errors"] \in Int /\ failed[f] \in Nat
    BY <2>2, FS_EmptySet DEF TypeOK, Counter
  <2>4. \A x \in {"result", "resultptr"} : Reports(f, x) =>
          /\ due[f]["errors"] <= failed[f]
          /\ x = "result" => due[f]["errors"] = failed[f]
    BY <2>3 DEF AccountInv, AccountOf
  <2> QED BY <2>1, <2>4 DEF Reports, ReturnsStatus
<1>3. TypeOK /\ InFunction /\ CounterInv /\ (EmitStats => AccountInv) /\ [Next]_vars
        => (EmitStats => AccountInv)'
  BY AccountStep
<1> QED BY <1>1, <1>2, <1>3, TracerTypeCorrect, CountersInvariant, PTL DEF Spec
=============================================================================
