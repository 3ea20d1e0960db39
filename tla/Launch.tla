------------------------------- MODULE Launch -------------------------------
(***************************************************************************)
(* The launcher (parse_opt and main, ocltrace.c:85-120 and 356-382) and    *)
(* the processes it starts.  The command line turns into environment       *)
(* variables that main only ever sets, then main becomes the program;      *)
(* init() in the program reads them (171-201).  The environment is         *)
(* inherited: a program that the program starts is traced with the same    *)
(* options and opens the same output file again, and one that is ocltrace  *)
(* itself runs init before its main, being the preloaded library as well.  *)
(*                                                                         *)
(* A traced call comes to the file in two pieces, one for each fflush      *)
(* (emit_close and emit_end in opencl.c), at the offset of its process.    *)
(***************************************************************************)
EXTENDS Naturals, Sequences, SequencesExt

CONSTANTS
  Process, First,     \* First is started from the shell
  File, Library,
  None, Hole,
  MaxOptions,         \* bound: options of one command line
  MaxPieces           \* bound: pieces one process writes

ASSUME ProcessAssumption == First \in Process
ASSUME NoneAssumption == None \notin File \union Library \union Process
ASSUME BoundAssumption == MaxOptions \in Nat /\ MaxPieces \in Nat

VARIABLES
  image,     \* what each process runs
  started,   \* have its constructors run?
  env,       \* its environment
  arguments, \* the variable of main
  parsed,    \* the options argp_parse has come past
  sink,      \* the file that fout writes to, or None
  pos,       \* how many pieces it has written
  file,      \* the contents of each file
  asked,     \* history: the options of all command lines above it, in order
  alone      \* history: has no other process had its file open with it?

vars == <<image, started, env, arguments, parsed, sink, pos, file, asked, alone>>

Option == {<<key>> : key \in {"v", "t", "T", "c", "C"}}
          \union ({"o"} \X File) \union ({"l"} \X Library)

\* struct arguments, and the OCLTRACE_ variables of an environment
Settings == [verbose : BOOLEAN, time : BOOLEAN, time_spent : BOOLEAN, stats : 0..2,
             output_file : File \union {None}, library : Library \union {None}]
Unset    == [verbose |-> FALSE, time |-> FALSE, time_spent |-> FALSE, stats |-> 0,
             output_file |-> None, library |-> None]

Piece == Process \X Nat

ASSUME HoleAssumption == Hole \notin Piece

TypeOK ==
  /\ image \in [Process -> {"none", "ocltrace", "program", "ended"}]
  /\ started \in [Process -> BOOLEAN]
  /\ env \in [Process -> [traced : BOOLEAN, set : Settings]]
  /\ arguments \in [Process -> Settings]
  /\ parsed \in [Process -> 0..MaxOptions]
  /\ sink \in [Process -> File \union {None}]
  /\ pos \in [Process -> 0..MaxPieces]
  /\ file \in [File -> Seq(Piece \union {Hole})]
  /\ asked \in [Process -> Seq(Option)]
  /\ alone \in [Process -> BOOLEAN]

\* The shell starts ocltrace, in an environment without its variables.
Init ==
  /\ image = [p \in Process |-> IF p = First THEN "ocltrace" ELSE "none"]
  /\ started = [p \in Process |-> FALSE]
  /\ env = [p \in Process |-> [traced |-> FALSE, set |-> Unset]]
  /\ arguments = [p \in Process |-> Unset]
  /\ parsed = [p \in Process |-> 0]
  /\ sink = [p \in Process |-> None]
  /\ pos = [p \in Process |-> 0]
  /\ file = [f \in File |-> <<>>]
  /\ asked = [p \in Process |-> <<>>]
  /\ alone = [p \in Process |-> FALSE]

Runs(p, what) == image[p] = what /\ started[p]

-----------------------------------------------------------------------------
(* init                                                                    *)

\* Seeded fault: the output file is opened without truncating it.
Truncate_Not(f) == UNCHANGED file

\* fopen(output_file, "w")
Truncate(f) == file' = [file EXCEPT ![f] = <<>>]

\* Seeded fault: with -c the trace still goes to the output file.
Output_Both(settings) == settings.output_file

\* where fout ends up: with -c /dev/null takes the place of the file just opened
\* (that /dev/null may fail to open is left to Lifecycle)
Output(settings) == IF settings.stats = 1 THEN None ELSE settings.output_file

\* A new image of a process runs init, which does its work only with LD_PRELOAD
\* and OCLTRACE in the environment; the file may fail to open.
Constructor(p) == LET f == env[p].set.output_file IN
  /\ image[p] \in {"ocltrace", "program"} /\ ~started[p]
  /\ started' = [started EXCEPT ![p] = TRUE]
  /\ \/ /\ env[p].traced /\ f # None
        /\ Truncate(f)
        /\ sink' = [sink EXCEPT ![p] = Output(env[p].set)]
        /\ alone' = [q \in Process |-> IF q = p THEN \A u \in Process \ {p} : sink[u] # f
                                       ELSE alone[q] /\ sink[q] # f]
     \/ UNCHANGED <<file, sink, alone>>
  /\ UNCHANGED <<image, env, arguments, parsed, pos, asked>>

-----------------------------------------------------------------------------
(* main                                                                    *)

\* parse_opt, the keys of options
Parse(a, option) == LET key == option[1] IN
  CASE key = "v" -> [a EXCEPT !.verbose = TRUE]
    [] key = "t" -> [a EXCEPT !.time = TRUE]
    [] key = "T" -> [a EXCEPT !.time_spent = TRUE]
    [] key = "c" -> [a EXCEPT !.stats = 1]
    [] key = "C" -> [a EXCEPT !.stats = 2]
    [] key = "o" -> [a EXCEPT !.output_file = option[2]]
    [] key = "l" -> [a EXCEPT !.library = option[2]]

ParseOption(p) == \E option \in Option :
  /\ Runs(p, "ocltrace") /\ parsed[p] < MaxOptions
  /\ arguments' = [arguments EXCEPT ![p] = Parse(@, option)]
  /\ parsed' = [parsed EXCEPT ![p] = @ + 1]
  /\ asked' = [asked EXCEPT ![p] = Append(@, option)]
  /\ UNCHANGED <<image, started, env, sink, pos, file, alone>>

\* The process is over: no program on the command line (argp_usage), an unknown
\* option (ARGP_ERR_UNKNOWN), or the end of the program.
End(p) ==
  /\ Runs(p, "ocltrace") \/ Runs(p, "program")
  /\ image' = [image EXCEPT ![p] = "ended"]
  /\ sink' = [sink EXCEPT ![p] = None]
  /\ UNCHANGED <<started, env, arguments, parsed, pos, file, asked, alone>>

\* Seeded fault: setenv does not overwrite OCLTRACE_OUTPUT_FILE.
Setenv_Keeps(e, a) ==
  [verbose |-> e.verbose \/ a.verbose, time |-> e.time \/ a.time,
   time_spent |-> e.time_spent \/ a.time_spent,
   stats |-> IF a.stats = 0 THEN e.stats ELSE a.stats,
   output_file |-> IF e.output_file = None THEN a.output_file ELSE e.output_file,
   library |-> IF a.library = None THEN e.library ELSE a.library]

\* Seeded fault: -c and -C add up.
Setenv_Adds(e, a) ==
  [verbose |-> e.verbose \/ a.verbose, time |-> e.time \/ a.time,
   time_spent |-> e.time_spent \/ a.time_spent,
   stats |-> e.stats + a.stats,
   output_file |-> IF a.output_file = None THEN e.output_file ELSE a.output_file,
   library |-> IF a.library = None THEN e.library ELSE a.library]

\* what the calls of setenv make of the variables: an option given sets its
\* variable, one that is not given leaves it
Setenv(e, a) ==
  [verbose |-> e.verbose \/ a.verbose, time |-> e.time \/ a.time,
   time_spent |-> e.time_spent \/ a.time_spent,
   stats |-> IF a.stats = 0 THEN e.stats ELSE a.stats,
   output_file |-> IF a.output_file = None THEN e.output_file ELSE a.output_file,
   library |-> IF a.library = None THEN e.library ELSE a.library]

\* the rest of main: execvp makes the process the program, or fails
Main(p) ==
  /\ Runs(p, "ocltrace")
  /\ env' = [env EXCEPT ![p] = [traced |-> TRUE, set |-> Setenv(@.set, arguments[p])]]
  /\ image' = [image EXCEPT ![p] = "program"] \/ image' = [image EXCEPT ![p] = "ended"]
  /\ started' = [started EXCEPT ![p] = FALSE]
  /\ sink' = [sink EXCEPT ![p] = None]
  /\ arguments' = [arguments EXCEPT ![p] = Unset]
  /\ parsed' = [parsed EXCEPT ![p] = 0]
  /\ UNCHANGED <<pos, file, asked, alone>>

-----------------------------------------------------------------------------
(* The program                                                             *)

\* a write at offset n, which leaves a hole if the file has become shorter
Put(s, n, piece) ==
  [k \in 1..(IF n > Len(s) THEN n ELSE Len(s)) |->
     IF k = n THEN piece ELSE IF k <= Len(s) THEN s[k] ELSE Hole]

\* A wrapper flushes half a line of the trace.
Flush(p) ==
  /\ Runs(p, "program") /\ sink[p] # None /\ pos[p] < MaxPieces
  /\ pos' = [pos EXCEPT ![p] = @ + 1]
  /\ file' = [file EXCEPT ![sink[p]] = Put(@, pos'[p], <<p, pos'[p]>>)]
  /\ UNCHANGED <<image, started, env, arguments, parsed, sink, asked, alone>>

\* The program starts another, ocltrace perhaps, and may take LD_PRELOAD out of
\* its environment.
Spawn(p) == \E q \in Process, what \in {"ocltrace", "program"}, traced \in {env[p].traced, FALSE} :
  /\ Runs(p, "program") /\ image[q] = "none"
  /\ image' = [image EXCEPT ![q] = what]
  /\ env' = [env EXCEPT ![q] = [traced |-> traced, set |-> env[p].set]]
  /\ asked' = [asked EXCEPT ![q] = asked[p]]
  /\ UNCHANGED <<started, arguments, parsed, sink, pos, file, alone>>

AllEnded == (\A p \in Process : image[p] \in {"none", "ended"}) /\ UNCHANGED vars

Next ==
  \/ \E p \in Process : Constructor(p) \/ ParseOption(p) \/ Main(p) \/ End(p) \/ Flush(p) \/ Spawn(p)
  \/ AllEnded

Spec == Init /\ [][Next]_vars

-----------------------------------------------------------------------------
(* Properties                                                              *)

\* what one command line with all these options asks for
Together(options) ==
  LET upto[k \in 0..Len(options)] ==
        IF k = 0 THEN Unset ELSE Parse(upto[k - 1], options[k])
  IN  upto[Len(options)]

\* A program runs under the options of all command lines above it as if they
\* stood on a single one, in order: main never clears a variable it finds
\* (ocltrace.c:363-372), so an inner ocltrace cannot take -t or -c back.
NestingConcatenates == \A p \in Process :
  image[p] = "program" => env[p].set = Together(asked[p])

\* A piece in a file is from a process whose last -o names that file and whose
\* last of -c and -C, if any, was -C (ocltrace.c:174-181 and 196-201).
TraceGoesWhereAsked == \A f \in File, p \in Process, n \in 1..MaxPieces :
  <<p, n>> \in ToSet(file[f]) =>
    Together(asked[p]).output_file = f /\ Together(asked[p]).stats # 1

\* As long as no other process has had the file open at the same time, the file
\* is the trace of its process, whole and with nothing else in it: "Output to
\* FILE" (ocltrace.c:74).  Otherwise processes truncate the file under each
\* other and overwrite each other's lines, as none appends.
FileIsOneTrace == \A p \in Process :
  sink[p] # None /\ alone[p] => file[sink[p]] = [n \in 1..pos[p] |-> <<p, n>>]
=============================================================================
