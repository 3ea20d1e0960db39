---------------------------- MODULE LaunchProofs ----------------------------
(***************************************************************************)
(* Proofs about Launch, for any number of processes, files and options.    *)
(***************************************************************************)
EXTENDS Launch, SequenceTheorems, Induction

-----------------------------------------------------------------------------
(* Types                                                                   *)

Content == Seq(Piece \union {Hole})

LEMMA ParseType ==
  ASSUME NEW a \in Settings, NEW option \in Option
  PROVE  Parse(a, option) \in Settings
<1>1. CASE option \in {<<key>> : key \in {"v", "t", "T", "c", "C"}}
  <2>1. option[1] \in {"v", "t", "T", "c", "C"}
    BY <1>1
  <2>2. CASE option[1] \in {"v", "t", "T"}
    BY <2>2 DEF Parse, Settings
  <2>3. CASE option[1] \in {"c", "C"}
    BY <2>3 DEF Parse, Settings
  <2> QED BY <2>1, <2>2, <2>3
<1>2. CASE option \in {"o"} \X File
  BY <1>2 DEF Parse, Settings
<1>3. CASE option \in {"l"} \X Library
  BY <1>3 DEF Parse, Settings
<1> QED BY <1>1, <1>2, <1>3 DEF Option

LEMMA SetenvType ==
  ASSUME NEW e \in Settings, NEW a \in Settings
  PROVE  Setenv(e, a) \in Settings
<1>1. /\ (e.verbose \/ a.verbose) \in BOOLEAN /\ (e.time \/ a.time) \in BOOLEAN
      /\ (e.time_spent \/ a.time_spent) \in BOOLEAN
  BY Zenon
<1> QED BY <1>1 DEF Setenv, Settings

LEMMA PutType ==
  ASSUME NEW s \in Content, NEW n \in Nat \ {0}, NEW x \in Piece
  PROVE  Put(s, n, x) \in Content
<1>1. Len(s) \in Nat /\ \A k \in 1..Len(s) : s[k] \in Piece \union {Hole}
  BY LenProperties, ElementOfSeq DEF Content
<1> DEFINE m == IF n > Len(s) THEN n ELSE Len(s)
<1>2. m \in Nat
  BY <1>1
<1>3. Put(s, n, x) \in [1..m -> Piece \union {Hole}]
  BY <1>1 DEF Put
<1> QED BY <1>2, <1>3, SeqDef DEF Content

LEMMA UnsetType == Unset \in Settings
BY DEF Unset, Settings

LEMMA TypeStep ==
  ASSUME TypeOK, [Next]_vars
  PROVE  TypeOK'
<1> USE NoneAssumption, BoundAssumption DEF TypeOK, Runs
<1>1. CASE UNCHANGED vars \/ AllEnded
  BY <1>1 DEF vars, AllEnded
<1>2. ASSUME NEW p \in Process, Constructor(p) PROVE TypeOK'
  <2>1. Output(env[p].set) \in File \union {None} /\ env[p].set.output_file \in File \union {None}
    BY DEF Output, Settings
  <2>2. file' \in [File -> Seq(Piece \union {Hole})]
    <3>1. <<>> \in Seq(Piece \union {Hole})
      BY EmptySeq
    <3>2. ASSUME NEW f \in File, file' = [file EXCEPT ![f] = <<>>]
          PROVE  file' \in [File -> Seq(Piece \union {Hole})]
      BY <3>1, <3>2
    <3>3. file' = file \/ (env[p].set.output_file \in File
                           /\ file' = [file EXCEPT ![env[p].set.output_file] = <<>>])
      BY <1>2, <2>1 DEF Constructor, Truncate
    <3> QED BY <3>2, <3>3
  <2>3. sink' \in [Process -> File \union {None}]
    BY <1>2, <2>1 DEF Constructor
  <2>4. alone' \in [Process -> BOOLEAN]
    <3> DEFINE new == [q \in Process |->
                 IF q = p THEN \A u \in Process \ {p} : sink[u] # env[p].set.output_file
                 ELSE alone[q] /\ sink[q] # env[p].set.output_file]
    <3>1. new \in [Process -> BOOLEAN]
      BY Zenon
    <3>2. alone' = new \/ alone' = alone
      BY <1>2 DEF Constructor
    <3> QED BY <3>1, <3>2
  <2>5. started' \in [Process -> BOOLEAN]
    BY <1>2 DEF Constructor
  <2> QED BY <1>2, <2>2, <2>3, <2>4, <2>5 DEF Constructor
<1>3. ASSUME NEW p \in Process, ParseOption(p) PROVE TypeOK'
  <2>1. PICK option \in Option :
          /\ arguments' = [arguments EXCEPT ![p] = Parse(@, option)]
          /\ parsed[p] < MaxOptions /\ parsed' = [parsed EXCEPT ![p] = @ + 1]
          /\ asked' = [asked EXCEPT ![p] = Append(@, option)]
    BY <1>3 DEF ParseOption
  <2>2. Parse(arguments[p], option) \in Settings
    BY ParseType
  <2>3. Append(asked[p], option) \in Seq(Option)
    BY AppendProperties
  <2>4. parsed' \in [Process -> 0..MaxOptions]
    BY <2>1
  <2> QED BY <1>3, <2>1, <2>2, <2>3, <2>4 DEF ParseOption
<1>4. ASSUME NEW p \in Process, End(p) PROVE TypeOK'
  BY <1>4 DEF End
<1>5. ASSUME NEW p \in Process, Main(p) PROVE TypeOK'
  <2>1. Setenv(env[p].set, arguments[p]) \in Settings
    BY SetenvType
  <2>2. env' \in [Process -> [traced : BOOLEAN, set : Settings]]
    BY <1>5, <2>1 DEF Main
  <2>3. parsed' \in [Process -> 0..MaxOptions]
    BY <1>5 DEF Main
  <2>4. started' \in [Process -> BOOLEAN]
    BY <1>5 DEF Main
  <2> QED BY <1>5, <2>2, <2>3, <2>4, UnsetType DEF Main
<1>6. ASSUME NEW p \in Process, Flush(p) PROVE TypeOK'
  <2>1. /\ sink[p] \in File /\ pos[p] < MaxPieces
        /\ pos' = [pos EXCEPT ![p] = @ + 1]
        /\ file' = [file EXCEPT ![sink[p]] = Put(@, pos'[p], <<p, pos'[p]>>)]
    BY <1>6 DEF Flush
  <2>2. pos'[p] \in Nat \ {0} /\ pos' \in [Process -> 0..MaxPieces]
    BY <2>1
  <2>3. <<p, pos'[p]>> \in Piece
    BY <2>2 DEF Piece
  <2>4. Put(file[sink[p]], pos'[p], <<p, pos'[p]>>) \in Seq(Piece \union {Hole})
    BY <2>1, <2>2, <2>3, PutType DEF Content
  <2> QED BY <1>6, <2>1, <2>2, <2>4 DEF Flush
<1>7. ASSUME NEW p \in Process, Spawn(p) PROVE TypeOK'
  <2>1. PICK q \in Process, what \in {"ocltrace", "program"}, traced \in {env[p].traced, FALSE} :
          /\ image' = [image EXCEPT ![q] = what]
          /\ env' = [env EXCEPT ![q] = [traced |-> traced, set |-> env[p].set]]
          /\ asked' = [asked EXCEPT ![q] = asked[p]]
    BY <1>7 DEF Spawn
  <2>2. [traced |-> traced, set |-> env[p].set] \in [traced : BOOLEAN, set : Settings]
    OBVIOUS
  <2> QED BY <1>7, <2>1, <2>2 DEF Spawn
<1> QED BY <1>1, <1>2, <1>3, <1>4, <1>5, <1>6, <1>7 DEF Next

\* Types of the state of launcher, environment and files.
THEOREM LaunchTypeCorrect == Spec => []TypeOK
<1>1. Init => TypeOK
  <2>1. \A f \in File : <<>> \in Seq(Piece \union {Hole})
    OBVIOUS
  <2> QED BY <2>1, UnsetType, BoundAssumption, NoneAssumption DEF Init, TypeOK
<1> QED BY <1>1, TypeStep, PTL DEF Spec

-----------------------------------------------------------------------------
(* The output file                                                         *)

\* Only a program that has started has written anything.
NothingYet == \A p \in Process :
  image[p] # "ended" /\ ~Runs(p, "program") => pos[p] = 0

\* Who has been alone with its file still is; who does not run has none open.
StillAlone == \A p \in Process :
  /\ sink[p] # None /\ alone[p] => \A q \in Process \ {p} : sink[q] # sink[p]
  /\ sink[p] # None => started[p] /\ image[p] \in {"ocltrace", "program"}

FileInv == NothingYet /\ StillAlone /\ FileIsOneTrace

LEMMA FileStep ==
  ASSUME TypeOK, FileInv, [Next]_vars
  PROVE  FileInv'
<1> USE NoneAssumption DEF TypeOK, Runs, FileInv, NothingYet, StillAlone, FileIsOneTrace
<1>1. CASE UNCHANGED vars \/ AllEnded
  BY <1>1 DEF vars, AllEnded
<1>2. ASSUME NEW p \in Process, Constructor(p) PROVE FileInv'
  <2>1. CASE UNCHANGED <<file, sink, alone>>
    BY <1>2, <2>1 DEF Constructor
  <2>2. CASE ~UNCHANGED <<file, sink, alone>>
    <3> DEFINE f == env[p].set.output_file
    <3>1. /\ f \in File /\ file' = [file EXCEPT ![f] = <<>>]
          /\ sink' = [sink EXCEPT ![p] = Output(env[p].set)]
          /\ alone' = [q \in Process |-> IF q = p THEN \A u \in Process \ {p} : sink[u] # f
                                         ELSE alone[q] /\ sink[q] # f]
          /\ image[p] \in {"ocltrace", "program"} /\ ~started[p]
          /\ started' = [started EXCEPT ![p] = TRUE]
          /\ UNCHANGED <<image, env, arguments, parsed, pos, asked>>
      BY <1>2, <2>2 DEF Constructor, Truncate, Settings
    <3>2. sink'[p] \in {f, None}
      BY <3>1 DEF Output
    <3>3. pos[p] = 0 /\ sink[p] = None
      BY <3>1
    <3>4. ASSUME NEW q \in Process, q # p
          PROVE  sink'[q] = sink[q] /\ (alone'[q] => alone[q] /\ sink[q] # f)
      BY <3>1, <3>4
    <3>5. alone'[p] => \A u \in Process \ {p} : sink[u] # f
      BY <3>1
    <3>6. NothingYet'
      BY <3>1, <3>3
    <3>7. StillAlone'
      <4>1. ASSUME NEW q \in Process, NEW u \in Process \ {q}, sink'[q] # None, alone'[q]
            PROVE  sink'[u] # sink'[q]
        <5>1. CASE q = p
          BY <3>2, <3>4, <3>5, <4>1, <5>1
        <5>2. CASE u = p
          BY <3>2, <3>4, <4>1, <5>2
        <5>3. CASE q # p /\ u # p
          BY <3>4, <4>1, <5>3
        <5> QED BY <5>1, <5>2, <5>3
      <4>2. \A q \in Process : sink'[q] # None => started'[q] /\ image'[q] \in {"ocltrace", "program"}
        BY <3>1, <3>4
      <4> QED BY <4>1, <4>2
    <3>8. FileIsOneTrace'
      <4> SUFFICES ASSUME NEW q \in Process, sink'[q] # None, alone'[q]
                   PROVE  file'[sink'[q]] = [n \in 1..pos'[q] |-> <<q, n>>]
        OBVIOUS
      <4>1. CASE q = p
        <5>1. file'[sink'[q]] = <<>> /\ pos'[q] = 0
          BY <3>1, <3>2, <3>3, <4>1
        <5> QED BY <5>1
      <4>2. CASE q # p
        BY <3>1, <3>4, <4>2
      <4> QED BY <4>1, <4>2
    <3> QED BY <3>6, <3>7, <3>8
  <2> QED BY <2>1, <2>2
<1>3. ASSUME NEW p \in Process, ParseOption(p) PROVE FileInv'
  BY <1>3 DEF ParseOption
<1>4. ASSUME NEW p \in Process, End(p) PROVE FileInv'
  BY <1>4 DEF End
<1>5. ASSUME NEW p \in Process, Main(p) PROVE FileInv'
  BY <1>5 DEF Main
<1>6. ASSUME NEW p \in Process, Flush(p) PROVE FileInv'
  <2>1. /\ Runs(p, "program") /\ sink[p] \in File
        /\ pos' = [pos EXCEPT ![p] = @ + 1]
        /\ file' = [file EXCEPT ![sink[p]] = Put(@, pos'[p], <<p, pos'[p]>>)]
        /\ UNCHANGED <<image, started, env, arguments, parsed, sink, asked, alone>>
    BY <1>6 DEF Flush
  <2>2. NothingYet' /\ StillAlone'
    BY <2>1
  <2>3. FileIsOneTrace'
    <3> SUFFICES ASSUME NEW q \in Process, sink[q] # None, alone[q]
                 PROVE  file'[sink[q]] = [n \in 1..pos'[q] |-> <<q, n>>]
      BY <2>1
    <3>1. CASE q = p
      <4> DEFINE m == pos[p]
                 s == file[sink[p]]
      <4>1. m \in Nat /\ pos'[p] = m + 1
        BY <2>1, <3>1
      <4>2. m \in Nat /\ s = [n \in 1..m |-> <<p, n>>] /\ pos'[p] = m + 1
        BY <2>1, <3>1, <4>1, Zenon
      <4>3. Len(s) = m
        BY <4>2
      <4>4. Put(s, m + 1, <<p, m + 1>>) = [n \in 1..(m + 1) |-> <<p, n>>]
        <5> HIDE DEF m, s
        <5> QED BY <4>2, <4>3 DEF Put
      <4> QED BY <2>1, <3>1, <4>2, <4>4
    <3>2. CASE q # p
      BY <2>1, <3>2
    <3> QED BY <3>1, <3>2
  <2> QED BY <2>2, <2>3
<1>7. ASSUME NEW p \in Process, Spawn(p) PROVE FileInv'
  BY <1>7 DEF Spawn
<1> QED BY <1>1, <1>2, <1>3, <1>4, <1>5, <1>6, <1>7 DEF Next

\* A process that has had its output file to itself, whatever ran before and
\* after it, has its whole trace in it and nothing else.
THEOREM FileIsOneTraceHolds == Spec => []FileIsOneTrace
<1>1. Init => FileInv
  BY DEF Init, FileInv, NothingYet, StillAlone, FileIsOneTrace, Runs
<1>2. FileInv => FileIsOneTrace
  BY DEF FileInv
<1> QED BY <1>1, <1>2, FileStep, LaunchTypeCorrect, PTL DEF Spec
-----------------------------------------------------------------------------
(* Options                                                                 *)

\* How the fold over the options of a command line unfolds.
Unfolds(f, s) ==
  f = [k \in 0..Len(s) |-> IF k = 0 THEN Unset ELSE Parse(f[k - 1], s[k])]

LEMMA TogetherUnfolds ==
  ASSUME NEW s \in Seq(Option)
  PROVE  \E f \in [0..Len(s) -> Settings] : Unfolds(f, s) /\ f[Len(s)] = Together(s)
<1> DEFINE n == Len(s)
           step == [k \in 1..n |-> [a \in Settings |-> Parse(a, s[k])]]
<1>1. n \in Nat /\ \A k \in 1..n : s[k] \in Option
  BY LenProperties, ElementOfSeq
<1>2. step \in [1..n -> [Settings -> Settings]]
  BY <1>1, ParseType
<1>3. PICK f \in [0..n -> Settings] : Climbs(f, Unset, step, n)
  <2> HIDE DEF step, n
  <2> QED BY <1>1, <1>2, UnsetType, RecursionSolved
<1>4. f[0] = Unset /\ \A k \in 1..n : f[k] = Parse(f[k - 1], s[k])
  <2>1. \A k \in 1..n : f[k - 1] \in Settings
    BY <1>1
  <2> QED BY <1>3, <2>1 DEF Climbs
<1> HIDE DEF n
<1>5. f = [k \in 0..n |-> IF k = 0 THEN Unset ELSE Parse(f[k - 1], s[k])]
  <2>1. \A k \in 0..n : k # 0 => k \in 1..n
    OBVIOUS
  <2> QED BY <1>3, <1>4, <2>1
<1>6. Unfolds(f, s)
  BY <1>5 DEF Unfolds, n
<1> DEFINE g == CHOOSE h : Unfolds(h, s)
<1>7. Unfolds(g, s)
  BY <1>6, Zenon
<1>8. Together(s) = g[n]
  BY DEF Together, Unfolds, n
<1> HIDE DEF g
<1>9. g = [k \in 0..n |-> IF k = 0 THEN Unset ELSE Parse(g[k - 1], s[k])]
  BY <1>7 DEF Unfolds, n
<1>10. g[0] = Unset /\ \A k \in 1..n : g[k] = Parse(g[k - 1], s[k])
  BY <1>1, <1>9
<1>11. \A k \in 0..n : g[k] = f[k]
  <2> DEFINE S == {k \in Nat : k <= n => g[k] = f[k]}
  <2>1. 0 \in S
    BY <1>4, <1>10
  <2>2. ASSUME NEW k \in Nat, k \in S PROVE k + 1 \in S
    <3>1. SUFFICES ASSUME k + 1 \in 1..n PROVE g[k + 1] = f[k + 1]
      BY <1>1
    <3>2. (k + 1) - 1 = k /\ g[k] = f[k]
      BY <1>1, <2>2, <3>1
    <3> QED BY <1>4, <1>10, <3>1, <3>2
  <2>3. Nat \subseteq S
    <3> HIDE DEF S
    <3> QED BY <2>1, <2>2, NaturalInduction
  <2> QED BY <2>3
<1> QED BY <1>1, <1>3, <1>6, <1>8, <1>11 DEF n

\* One more option on the line is one more parsed.
LEMMA TogetherAppend ==
  ASSUME NEW s \in Seq(Option), NEW o \in Option
  PROVE  /\ Together(Append(s, o)) = Parse(Together(s), o)
         /\ Together(s) \in Settings
<1> DEFINE t == Append(s, o)
           n == Len(s)
<1>1. /\ t \in Seq(Option) /\ n \in Nat /\ Len(t) = n + 1 /\ t[n + 1] = o
      /\ \A k \in 1..n : t[k] = s[k]
  BY AppendProperties, LenProperties
<1>2. PICK f \in [0..n -> Settings] : Unfolds(f, s) /\ f[n] = Together(s)
  BY TogetherUnfolds
<1>3. PICK g \in [0..(n + 1) -> Settings] : Unfolds(g, t) /\ g[n + 1] = Together(t)
  BY <1>1, TogetherUnfolds
<1> HIDE DEF t, n
<1>4. f = [k \in 0..n |-> IF k = 0 THEN Unset ELSE Parse(f[k - 1], s[k])]
  BY <1>2 DEF Unfolds, n
<1>5. g = [k \in 0..(n + 1) |-> IF k = 0 THEN Unset ELSE Parse(g[k - 1], t[k])]
  BY <1>1, <1>3 DEF Unfolds
<1>6. f[0] = Unset /\ \A k \in 1..n : f[k] = Parse(f[k - 1], s[k])
  BY <1>1, <1>4
<1>7. g[0] = Unset /\ \A k \in 1..(n + 1) : g[k] = Parse(g[k - 1], t[k])
  BY <1>1, <1>5
<1>8. f[n] = g[n]
  <2> DEFINE S == {k \in Nat : k <= n => g[k] = f[k]}
  <2>1. 0 \in S
    BY <1>6, <1>7
  <2>2. ASSUME NEW k \in Nat, k \in S PROVE k + 1 \in S
    <3>1. SUFFICES ASSUME k + 1 \in 1..n PROVE g[k + 1] = f[k + 1]
      BY <1>1
    <3>2. (k + 1) - 1 = k /\ g[k] = f[k] /\ k + 1 \in 1..(n + 1)
      BY <1>1, <2>2, <3>1
    <3>3. t[k + 1] = s[k + 1]
      BY <1>1, <3>1
    <3> QED BY <1>6, <1>7, <3>1, <3>2, <3>3
  <2>3. n \in S
    <3> HIDE DEF S
    <3> QED BY <1>1, <2>1, <2>2, NaturalInduction
  <2> QED BY <1>1, <2>3
<1>9. g[n + 1] = Parse(g[n], o)
  BY <1>1, <1>7
<1>10. f[n] \in Settings
  BY <1>1
<1> QED BY <1>2, <1>3, <1>8, <1>9, <1>10 DEF t

LEMMA TogetherNothing == Together(<<>>) = Unset
<1>1. <<>> \in Seq(Option) /\ Len(<<>>) = 0
  OBVIOUS
<1>2. PICK f \in [0..0 -> Settings] : Unfolds(f, <<>>) /\ f[0] = Together(<<>>)
  BY <1>1, TogetherUnfolds
<1> QED BY <1>1, <1>2 DEF Unfolds

\* It is the same whether an option is parsed before main sets the variables or
\* were the last one of the command line that set them.
LEMMA SetenvParse ==
  ASSUME NEW e \in Settings, NEW a \in Settings, NEW o \in Option
  PROVE  Setenv(e, Parse(a, o)) = Parse(Setenv(e, a), o)
<1> DEFINE k == o[1]
           s == Setenv(e, a)
           v == e.verbose \/ a.verbose
           t == e.time \/ a.time
           d == e.time_spent \/ a.time_spent
           c == IF a.stats = 0 THEN e.stats ELSE a.stats
           f == IF a.output_file = None THEN e.output_file ELSE a.output_file
           l == IF a.library = None THEN e.library ELSE a.library
           yes == TRUE
<1>0. s = [verbose |-> v, time |-> t, time_spent |-> d, stats |-> c, output_file |-> f,
           library |-> l]
  BY Zenon DEF Setenv
<1>1. CASE o \in {<<key>> : key \in {"v", "t", "T", "c", "C"}}
  <2>1. k \in {"v", "t", "T", "c", "C"}
    BY <1>1
  <2>2. CASE k = "v"
    <3> DEFINE b == [a EXCEPT !.verbose = yes]
    <3>1. Parse(a, o) = b /\ Parse(s, o) = [s EXCEPT !.verbose = yes]
      BY <2>2 DEF Parse
    <3>2. b.verbose = yes /\ b.time = a.time /\ b.time_spent = a.time_spent
          /\ b.stats = a.stats /\ b.output_file = a.output_file /\ b.library = a.library
      BY DEF Settings
    <3> HIDE DEF b
    <3>3. (e.verbose \/ b.verbose) = yes
      BY <3>2
    <3>4. Setenv(e, b) = [verbose |-> yes, time |-> t, time_spent |-> d, stats |-> c,
                          output_file |-> f, library |-> l]
      BY <3>2, <3>3, Zenon DEF Setenv
    <3>5. Setenv(e, b) = [s EXCEPT !.verbose = yes]
      <4> HIDE DEF s, v, t, d, c, f, l, yes
      <4> QED BY <1>0, <3>4
    <3> QED BY <3>1, <3>5, Zenon
  <2>3. CASE k = "t"
    <3> DEFINE b == [a EXCEPT !.time = yes]
    <3>1. Parse(a, o) = b /\ Parse(s, o) = [s EXCEPT !.time = yes]
      BY <2>3 DEF Parse
    <3>2. b.time = yes /\ b.verbose = a.verbose /\ b.time_spent = a.time_spent
          /\ b.stats = a.stats /\ b.output_file = a.output_file /\ b.library = a.library
      BY DEF Settings
    <3> HIDE DEF b
    <3>3. (e.time \/ b.time) = yes
      BY <3>2
    <3>4. Setenv(e, b) = [verbose |-> v, time |-> yes, time_spent |-> d, stats |-> c,
                          output_file |-> f, library |-> l]
      BY <3>2, <3>3, Zenon DEF Setenv
    <3>5. Setenv(e, b) = [s EXCEPT !.time = yes]
      <4> HIDE DEF s, v, t, d, c, f, l, yes
      <4> QED BY <1>0, <3>4
    <3> QED BY <3>1, <3>5, Zenon
  <2>4. CASE k = "T"
    <3> DEFINE b == [a EXCEPT !.time_spent = yes]
    <3>1. Parse(a, o) = b /\ Parse(s, o) = [s EXCEPT !.time_spent = yes]
      BY <2>4 DEF Parse
    <3>2. b.time_spent = yes /\ b.verbose = a.verbose /\ b.time = a.time
          /\ b.stats = a.stats /\ b.output_file = a.output_file /\ b.library = a.library
      BY DEF Settings
    <3> HIDE DEF b
    <3>3. (e.time_spent \/ b.time_spent) = yes
      BY <3>2
    <3>4. Setenv(e, b) = [verbose |-> v, time |-> t, time_spent |-> yes, stats |-> c,
                          output_file |-> f, library |-> l]
      BY <3>2, <3>3, Zenon DEF Setenv
    <3>5. Setenv(e, b) = [s EXCEPT !.time_spent = yes]
      <4> HIDE DEF s, v, t, d, c, f, l, yes
      <4> QED BY <1>0, <3>4
    <3> QED BY <3>1, <3>5, Zenon
  <2>5. CASE k = "c"
    <3>1. Parse(a, o) = [a EXCEPT !.stats = 1] /\ Parse(s, o) = [s EXCEPT !.stats = 1]
      BY <2>5 DEF Parse
    <3> QED BY <3>1 DEF Setenv, Settings
  <2>6. CASE k = "C"
    <3>1. Parse(a, o) = [a EXCEPT !.stats = 2] /\ Parse(s, o) = [s EXCEPT !.stats = 2]
      BY <2>6 DEF Parse
    <3> QED BY <3>1 DEF Setenv, Settings
  <2> QED BY <2>1, <2>2, <2>3, <2>4, <2>5, <2>6
<1>2. CASE o \in {"o"} \X File
  BY <1>2, NoneAssumption DEF Parse, Setenv, Settings
<1>3. CASE o \in {"l"} \X Library
  BY <1>3, NoneAssumption DEF Parse, Setenv, Settings
<1> QED BY <1>1, <1>2, <1>3 DEF Option

LEMMA SetenvUnset ==
  ASSUME NEW e \in Settings
  PROVE  Setenv(e, Unset) = e
<1>1. e = [verbose |-> e.verbose, time |-> e.time, time_spent |-> e.time_spent,
           stats |-> e.stats, output_file |-> e.output_file, library |-> e.library]
  BY DEF Settings
<1>2. (e.verbose \/ FALSE) = e.verbose /\ (e.time \/ FALSE) = e.time
      /\ (e.time_spent \/ FALSE) = e.time_spent
  BY DEF Settings
<1> QED BY <1>1, <1>2 DEF Setenv, Unset

\* What a launcher is about to set, and what a program has found.
Nested == \A p \in Process :
  /\ image[p] \in {"none", "program"} => arguments[p] = Unset
  /\ image[p] = "ocltrace" => Setenv(env[p].set, arguments[p]) = Together(asked[p])
  /\ image[p] = "program" => env[p].set = Together(asked[p])

LEMMA NestedStep ==
  ASSUME TypeOK, Nested, [Next]_vars
  PROVE  Nested'
<1> USE DEF TypeOK, Runs
<1>1. CASE UNCHANGED <<image, env, arguments, asked>>
  BY <1>1 DEF Nested
<1>2. ASSUME NEW p \in Process, ParseOption(p) PROVE Nested'
  <2>1. PICK o \in Option :
          /\ image[p] = "ocltrace"
          /\ arguments' = [arguments EXCEPT ![p] = Parse(@, o)]
          /\ asked' = [asked EXCEPT ![p] = Append(@, o)]
          /\ UNCHANGED <<image, env>>
    BY <1>2 DEF ParseOption
  <2>2. Setenv(env[p].set, Parse(arguments[p], o)) = Parse(Together(asked[p]), o)
    BY <2>1, SetenvParse DEF Nested
  <2>3. Together(Append(asked[p], o)) = Parse(Together(asked[p]), o)
    BY TogetherAppend
  <2> QED BY <2>1, <2>2, <2>3 DEF Nested
<1>3. ASSUME NEW p \in Process, Main(p) PROVE Nested'
  BY <1>3 DEF Main, Nested
<1>4. ASSUME NEW p \in Process, End(p) PROVE Nested'
  BY <1>4 DEF End, Nested
<1>5. ASSUME NEW p \in Process, Spawn(p) PROVE Nested'
  <2>1. PICK q \in Process, what \in {"ocltrace", "program"}, traced \in {env[p].traced, FALSE} :
          /\ image[p] = "program" /\ image[q] = "none"
          /\ image' = [image EXCEPT ![q] = what]
          /\ env' = [env EXCEPT ![q] = [traced |-> traced, set |-> env[p].set]]
          /\ asked' = [asked EXCEPT ![q] = asked[p]]
          /\ UNCHANGED arguments
    BY <1>5 DEF Spawn
  <2>2. arguments[q] = Unset /\ env[p].set = Together(asked[p])
        /\ Setenv(env[p].set, Unset) = env[p].set
    BY <2>1, SetenvUnset DEF Nested
  <2>3. image'[q] = what /\ env'[q].set = env[p].set /\ asked'[q] = asked[p]
    BY <2>1
  <2>4. \A u \in Process \ {q} : image'[u] = image[u] /\ env'[u] = env[u] /\ asked'[u] = asked[u]
    BY <2>1
  <2> QED BY <2>1, <2>2, <2>3, <2>4 DEF Nested
<1> QED BY <1>1, <1>2, <1>3, <1>4, <1>5 DEF Next, Constructor, Flush, AllEnded, vars

LEMMA NestedInvariant == Spec => []Nested
<1>1. Init => Nested
  <2> SUFFICES ASSUME Init, NEW p \in Process
               PROVE  /\ arguments[p] = Unset
                      /\ Setenv(env[p].set, arguments[p]) = Together(asked[p])
                      /\ image[p] # "program"
    BY DEF Nested
  <2> QED BY UnsetType, SetenvUnset, TogetherNothing DEF Init
<1> QED BY <1>1, NestedStep, LaunchTypeCorrect, PTL DEF Spec

\* A program runs under the options of all command lines above it, as if given
\* on one: no launcher in between takes any of them back (ocltrace.c:363-372).
THEOREM NestingConcatenatesHolds == Spec => []NestingConcatenates
<1>1. Nested => NestingConcatenates
  BY DEF Nested, NestingConcatenates
<1> QED BY <1>1, NestedInvariant, PTL

-----------------------------------------------------------------------------
(* What is in a file                                                       *)

\* A write adds its piece, and holes perhaps.
LEMMA PutAdds ==
  ASSUME NEW s \in Content, NEW n \in Nat \ {0}, NEW x \in Piece,
         NEW y \in ToSet(Put(s, n, x))
  PROVE  y = x \/ y = Hole \/ y \in ToSet(s)
<1>1. Len(s) \in Nat /\ DOMAIN s = 1..Len(s)
  BY LenProperties DEF Content
<1>2. PICK k \in 1..(IF n > Len(s) THEN n ELSE Len(s)) : y = Put(s, n, x)[k]
  BY DEF ToSet, Put
<1>3. y = IF k = n THEN x ELSE IF k <= Len(s) THEN s[k] ELSE Hole
  BY <1>2 DEF Put
<1>4. k <= Len(s) => k \in DOMAIN s
  BY <1>1, <1>2
<1> QED BY <1>3, <1>4 DEF ToSet

\* An open file is the one the environment names; who has written is a program,
\* now or until its end.
Directed ==
  /\ \A p \in Process : sink[p] # None =>
       sink[p] = env[p].set.output_file /\ env[p].set.stats # 1
  /\ \A f \in File, p \in Process, n \in Nat : <<p, n>> \in ToSet(file[f]) =>
       /\ image[p] \in {"program", "ended"}
       /\ Together(asked[p]).output_file = f /\ Together(asked[p]).stats # 1

LEMMA DirectedStep ==
  ASSUME TypeOK, FileInv, Nested, Directed, [Next]_vars
  PROVE  Directed'
<1> USE NoneAssumption DEF TypeOK, Runs
<1>1. CASE UNCHANGED <<image, env, sink, file, asked>>
  BY <1>1 DEF Directed
<1>2. ASSUME NEW p \in Process, Constructor(p) PROVE Directed'
  <2>1. UNCHANGED <<image, env, asked>>
    BY <1>2 DEF Constructor
  <2>2. CASE UNCHANGED <<file, sink>>
    BY <2>1, <2>2 DEF Directed
  <2>3. CASE ~UNCHANGED <<file, sink>>
    <3> DEFINE f == env[p].set.output_file
    <3>1. file' = [file EXCEPT ![f] = <<>>] /\ sink' = [sink EXCEPT ![p] = Output(env[p].set)]
      BY <1>2, <2>3 DEF Constructor, Truncate
    <3>2. sink'[p] # None => sink'[p] = f /\ env[p].set.stats # 1
      BY <3>1 DEF Output
    <3>3. \A q \in Process \ {p} : sink'[q] = sink[q]
      BY <3>1
    <3>4. ASSUME NEW g \in File, NEW x \in ToSet(file'[g]) PROVE x \in ToSet(file[g])
      <4>1. CASE g = f
        <5>1. file'[g] = <<>>
          BY <3>1, <4>1
        <5>2. DOMAIN file'[g] = {}
          BY <5>1
        <5> QED BY <5>2 DEF ToSet
      <4>2. CASE g # f
        BY <3>1, <3>4, <4>2
      <4> QED BY <4>1, <4>2
    <3> QED BY <2>1, <3>2, <3>3, <3>4 DEF Directed
  <2> QED BY <2>2, <2>3
<1>3. ASSUME NEW p \in Process, ParseOption(p) PROVE Directed'
  <2>1. image[p] = "ocltrace" /\ UNCHANGED <<image, env, sink, file>>
        /\ \A q \in Process \ {p} : asked'[q] = asked[q]
    BY <1>3 DEF ParseOption
  <2>2. ASSUME NEW f \in File, NEW q \in Process, NEW n \in Nat, <<q, n>> \in ToSet(file[f])
        PROVE  /\ image[q] \in {"program", "ended"}
               /\ Together(asked'[q]).output_file = f /\ Together(asked'[q]).stats # 1
    <3>1. q # p
      BY <2>1, <2>2 DEF Directed
    <3> QED BY <2>1, <2>2, <3>1 DEF Directed
  <2> QED BY <2>1, <2>2 DEF Directed
<1>4. ASSUME NEW p \in Process, Main(p) PROVE Directed'
  <2>1. /\ image[p] = "ocltrace" /\ sink'[p] = None /\ UNCHANGED <<asked, file>>
        /\ \A q \in Process \ {p} :
             image'[q] = image[q] /\ env'[q] = env[q] /\ sink'[q] = sink[q]
    BY <1>4 DEF Main
  <2>2. ASSUME NEW q \in Process, sink'[q] # None
        PROVE  sink'[q] = env'[q].set.output_file /\ env'[q].set.stats # 1
    BY <2>1, <2>2 DEF Directed
  <2>3. ASSUME NEW f \in File, NEW q \in Process, NEW n \in Nat, <<q, n>> \in ToSet(file[f])
        PROVE  /\ image'[q] \in {"program", "ended"}
               /\ Together(asked[q]).output_file = f /\ Together(asked[q]).stats # 1
    BY <2>1, <2>3 DEF Directed
  <2> QED BY <2>1, <2>2, <2>3, Zenon DEF Directed
<1>5. ASSUME NEW p \in Process, End(p) PROVE Directed'
  <2>1. /\ image'[p] = "ended" /\ sink'[p] = None /\ UNCHANGED <<asked, file, env>>
        /\ \A q \in Process \ {p} : image'[q] = image[q] /\ sink'[q] = sink[q]
    BY <1>5 DEF End
  <2>2. ASSUME NEW q \in Process, sink'[q] # None
        PROVE  sink'[q] = env[q].set.output_file /\ env[q].set.stats # 1
    BY <2>1, <2>2 DEF Directed
  <2>3. ASSUME NEW f \in File, NEW q \in Process, NEW n \in Nat, <<q, n>> \in ToSet(file[f])
        PROVE  /\ image'[q] \in {"program", "ended"}
               /\ Together(asked[q]).output_file = f /\ Together(asked[q]).stats # 1
    BY <2>1, <2>3 DEF Directed
  <2> QED BY <2>1, <2>2, <2>3, Zenon DEF Directed
<1>6. ASSUME NEW p \in Process, Flush(p) PROVE Directed'
  <2> DEFINE g == sink[p]
             x == <<p, pos'[p]>>
  <2>1. /\ image[p] = "program" /\ g \in File /\ pos[p] < MaxPieces
        /\ pos' = [pos EXCEPT ![p] = @ + 1]
        /\ file' = [file EXCEPT ![g] = Put(@, pos'[p], x)]
        /\ UNCHANGED <<image, env, sink, asked>>
    BY <1>6 DEF Flush
  <2>2. pos'[p] \in Nat \ {0} /\ x \in Piece
    BY <2>1, BoundAssumption DEF Piece
  <2>3. Together(asked[p]).output_file = g /\ Together(asked[p]).stats # 1
    BY <2>1 DEF Directed, Nested
  <2> HIDE DEF x
  <2>4. ASSUME NEW f \in File, NEW q \in Process, NEW n \in Nat, <<q, n>> \in ToSet(file'[f])
        PROVE  <<q, n>> \in ToSet(file[f]) \/ (f = g /\ q = p)
    <3>1. CASE f = g
      <4>1. <<q, n>> \in ToSet(Put(file[f], pos'[p], x))
        BY <2>1, <2>4, <3>1
      <4>2. <<q, n>> \in Piece
        BY DEF Piece
      <4>3. <<q, n>> = x \/ <<q, n>> \in ToSet(file[f])
        BY <2>2, <4>1, <4>2, PutAdds, HoleAssumption DEF Content
      <4> QED BY <3>1, <4>3 DEF x
    <3>2. CASE f # g
      BY <2>1, <2>4, <3>2
    <3> QED BY <3>1, <3>2
  <2> QED BY <2>1, <2>3, <2>4 DEF Directed
<1>7. ASSUME NEW p \in Process, Spawn(p) PROVE Directed'
  <2>1. PICK q \in Process :
          /\ image[q] = "none" /\ UNCHANGED <<sink, file>>
          /\ \A u \in Process \ {q} :
               image'[u] = image[u] /\ env'[u] = env[u] /\ asked'[u] = asked[u]
    BY <1>7 DEF Spawn
  <2>2. sink[q] = None
    BY <2>1 DEF FileInv, StillAlone
  <2>3. ASSUME NEW u \in Process, sink'[u] # None
        PROVE  sink'[u] = env'[u].set.output_file /\ env'[u].set.stats # 1
    <3>1. u # q
      BY <2>1, <2>2, <2>3
    <3>2. sink[u] # None /\ env'[u] = env[u] /\ sink'[u] = sink[u]
      BY <2>1, <2>3, <3>1
    <3> QED BY <3>2 DEF Directed
  <2>4. ASSUME NEW f \in File, NEW u \in Process, NEW n \in Nat, <<u, n>> \in ToSet(file[f])
        PROVE  /\ image'[u] \in {"program", "ended"}
               /\ Together(asked'[u]).output_file = f /\ Together(asked'[u]).stats # 1
    <3>1. u # q
      BY <2>1, <2>4 DEF Directed
    <3> QED BY <2>1, <2>4, <3>1 DEF Directed
  <2> QED BY <2>1, <2>3, <2>4, Zenon DEF Directed
<1> QED BY <1>1, <1>2, <1>3, <1>4, <1>5, <1>6, <1>7 DEF Next, AllEnded, vars

\* A program whose last -o names another file, or that was started with -c, never
\* writes into a file (ocltrace.c:174-181, 196-201).
THEOREM TraceGoesWhereAskedHolds == Spec => []TraceGoesWhereAsked
<1>1. Init => Directed
  <2>1. DOMAIN <<>> = {}
    OBVIOUS
  <2> QED BY <2>1 DEF Init, Directed, ToSet
<1>2. Init => FileInv
  BY DEF Init, FileInv, NothingYet, StillAlone, FileIsOneTrace, Runs
<1>3. Directed => TraceGoesWhereAsked
  BY BoundAssumption DEF Directed, TraceGoesWhereAsked
<1>4. Spec => []FileInv
  BY <1>2, FileStep, LaunchTypeCorrect, PTL DEF Spec
<1> QED BY <1>1, <1>3, <1>4, DirectedStep, NestedInvariant, LaunchTypeCorrect, PTL DEF Spec
=============================================================================
