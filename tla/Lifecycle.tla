----------------------------- MODULE Lifecycle -----------------------------
(***************************************************************************)
(* The life of a traced process around the wrappers and the loader shim:   *)
(* init(), which the loader runs as a constructor (ocltrace.c:124-202),    *)
(* sets up the mutex, the two tables of function addresses, the stream     *)
(* and the options; fini() (213-230) takes them down again.  The loader    *)
(* runs the constructors of the program's libraries before init and their  *)
(* destructors after fini, and threads started by either run in between:   *)
(* OpenCL and loader calls can come at any time.                           *)
(*                                                                         *)
(* A call of a wrapper is cut down to its accesses to that state.  The     *)
(* first access to something that is not there is recorded as harm, and    *)
(* ends the behaviour: what follows it is undefined.  The environment has  *)
(* LD_PRELOAD and OCLTRACE set, as main() leaves it.                       *)
(***************************************************************************)
EXTENDS Integers, FiniteSets

CONSTANTS
  N,           \* how many functions func_names lists
  Provided,    \* those that the OpenCL library has
  Thread,      \* threads that run before, during and after init
  Loader,      \* the one of them that runs init, the main thread
  NoThread

Function == 1..N

ASSUME FunctionAssumption == N \in Nat /\ Provided \subseteq Function
ASSUME ThreadAssumption == Loader \in Thread /\ NoThread \notin Thread

VARIABLES
  phase,    \* how far the process is
  runner,   \* the thread that runs init or fini: Loader, then the one in exit()
  i,        \* the loop counter of init
  real,     \* opencl_fptr
  wrap,     \* trace_fptr
  known,    \* is libopencl_handle set?
  out,      \* fout
  closed,   \* has fclose been called on it?
  stats,    \* emit_stats
  want,     \* the environment: OCLTRACE_OUTPUT_FILE and OCLTRACE_STATS
  mutex,    \* is it usable?
  holder,   \* the thread that has it, or NoThread
  fn,       \* the function each thread calls
  at,       \* where in the wrapper or the shim it is
  named,    \* has emit_open stored e->name?
  early,    \* history: did its call begin before init was through?
  harm,     \* history: what was not there
  culprit   \* history: who needed it

tables  == <<real, wrap, known>>
stream  == <<out, closed>>
options == <<stats, want>>
process == <<phase, runner, i, tables, stream, options, mutex>>
calls   == <<holder, fn, at, named, early>>
history == <<harm, culprit>>
vars    == <<process, calls, history>>

InitPhases == {"before", "library", "tracer", "fill", "stderr", "file", "stats", "null"}
FiniPhases == {"exiting", "closing", "destroying", "after"}
Phases     == InitPhases \union FiniPhases \union {"abandoned", "running", "gone"}
Harms      == {"none", "stream", "closed", "function", "recursion", "name", "mutex"}

TypeOK ==
  /\ phase \in Phases /\ runner \in Thread
  /\ i \in 1..(N + 1)
  /\ real \in [Function -> {"null", "real", "wrapper"}]
  /\ wrap \in [Function -> {"null", "wrapper"}]
  /\ known \in BOOLEAN /\ closed \in BOOLEAN
  /\ out \in {"null", "stderr", "file", "devnull"}
  /\ stats \in 0..2
  /\ want \in [file : BOOLEAN, stats : 0..2]
  /\ mutex \in {"good", "destroyed"}
  /\ holder \in Thread \union {NoThread}
  /\ fn \in [Thread -> Function \union {0}]
  /\ at \in [Thread -> {"out", "open", "real", "end", "shim"}]
  /\ named \in [Thread -> BOOLEAN]
  /\ early \in [Thread -> BOOLEAN]
  /\ harm \in Harms /\ culprit \in Thread \union {NoThread}
  /\ \A t \in Thread : at[t] \in {"open", "real", "end"} => fn[t] \in Function

Init ==
  /\ phase = "before" /\ runner = Loader /\ i = 1
  /\ real = [f \in Function |-> "null"] /\ wrap = [f \in Function |-> "null"]
  /\ known = FALSE /\ out = "null" /\ closed = FALSE /\ stats = 0
  /\ want \in [file : BOOLEAN, stats : 0..2]
  /\ mutex = "good" /\ holder = NoThread
  /\ fn = [t \in Thread |-> 0] /\ at = [t \in Thread |-> "out"]
  /\ named = [t \in Thread |-> FALSE] /\ early = [t \in Thread |-> FALSE]
  /\ harm = "none" /\ culprit = NoThread

Go(from, to) == phase = from /\ phase' = to
Unharmed == harm = "none" /\ UNCHANGED history
Suffer(what, t) == harm = "none" /\ harm' = what /\ culprit' = t
\* Reinitialising, unlocking or destroying the mutex while another thread has it.
Disturb == IF holder = NoThread THEN Unharmed ELSE Suffer("mutex", holder)

-----------------------------------------------------------------------------
(* init                                                                    *)

\* pthread_mutex_init; should it fail, init gives up and the process runs on.
\* A call of the shim that began before has the statically initialised mutex.
InitMutex ==
  /\ at[runner] = "out"
  /\ \/ Go("before", "library") /\ Disturb
     \/ Go("before", "abandoned") /\ Unharmed
  /\ UNCHANGED <<runner, i, tables, stream, options, mutex, calls>>

\* dlopen of the OpenCL library and of ocltrace itself, by way of the shim
OpenLibraries ==
  /\ Go("library", "tracer") \/ Go("tracer", "fill")
  /\ holder = NoThread
  /\ Unharmed
  /\ UNCHANGED <<runner, i, tables, stream, options, mutex, calls>>

\* One of them does not open: pthread_mutex_unlock of a mutex that init does
\* not have, and exit(1).  In a constructor of a preloaded library exit may or
\* may not run fini.
OpenFails ==
  /\ phase \in {"library", "tracer"} /\ phase' \in {"exiting", "gone"}
  /\ Disturb
  /\ UNCHANGED <<runner, i, tables, stream, options, mutex, calls>>

\* What the shim's dlsym answers for a function and the handle of libopencl.
Dlsym(f) ==
  IF known THEN wrap[f] ELSE IF f \in Provided THEN "real" ELSE "null"

\* Seeded fault: the two lookups use the handle of ocltrace.
Fill_Tracer ==
  /\ phase = "fill" /\ i <= N /\ holder = NoThread
  /\ real' = [real EXCEPT ![i] = "wrapper"]
  /\ wrap' = [wrap EXCEPT ![i] = "wrapper"]
  /\ i' = i + 1
  /\ Unharmed
  /\ UNCHANGED <<phase, runner, known, stream, options, mutex, calls>>

\* Seeded fault: libopencl_handle is set before the loop.
Fill_Known ==
  /\ phase = "fill" /\ i <= N /\ holder = NoThread
  /\ known' = TRUE
  /\ real' = [real EXCEPT ![i] = wrap[i]]
  /\ wrap' = [wrap EXCEPT ![i] = "wrapper"]
  /\ i' = i + 1
  /\ Unharmed
  /\ UNCHANGED <<phase, runner, stream, options, mutex, calls>>

\* Seeded fault: the counter is not advanced past a missing function.
Fill_Backs ==
  /\ phase = "fill" /\ i <= N /\ holder = NoThread
  /\ real' = [real EXCEPT ![i] = Dlsym(i)]
  /\ wrap' = [wrap EXCEPT ![i] = "wrapper"]
  /\ i' = IF i \in Provided THEN i + 1 ELSE i - 1
  /\ Unharmed
  /\ UNCHANGED <<phase, runner, known, stream, options, mutex, calls>>

\* one turn of the loop over func_names: two calls of the shim's dlsym
Fill ==
  /\ phase = "fill" /\ i <= N /\ holder = NoThread
  /\ real' = [real EXCEPT ![i] = Dlsym(i)]
  /\ wrap' = [wrap EXCEPT ![i] = "wrapper"]
  /\ i' = i + 1
  /\ Unharmed
  /\ UNCHANGED <<phase, runner, known, stream, options, mutex, calls>>

\* libopencl_handle = opencl_handle
SetHandle ==
  /\ Go("fill", "stderr") /\ i > N
  /\ known' = TRUE
  /\ Unharmed
  /\ UNCHANGED <<runner, i, real, wrap, stream, options, mutex, calls>>

\* fout = stderr
SetStderr ==
  /\ Go("stderr", "file")
  /\ out' = "stderr"
  /\ Unharmed
  /\ UNCHANGED <<runner, i, tables, closed, options, mutex, calls>>

\* fopen of the output file, if there is one; if that fails stderr stays
OpenFile ==
  /\ Go("file", "stats")
  /\ \/ want.file /\ out' = "file"
     \/ UNCHANGED out
  /\ Unharmed
  /\ UNCHANGED <<runner, i, tables, closed, options, mutex, calls>>

\* emit_time and the others; emit_stats = atol(stats)
SetOptions ==
  /\ Go("stats", "null")
  /\ stats' = want.stats
  /\ Unharmed
  /\ UNCHANGED <<runner, i, tables, stream, want, mutex, calls>>

\* with -c the trace goes to /dev/null, if that opens
OpenNull ==
  /\ Go("null", "running")
  /\ IF stats = 1 THEN out' \in {"devnull", out} ELSE UNCHANGED out
  /\ Unharmed
  /\ UNCHANGED <<runner, i, tables, closed, options, mutex, calls>>

-----------------------------------------------------------------------------
(* fini                                                                    *)

\* A thread calls exit(), which runs the destructors, fini among them.
Exit(t) ==
  /\ phase \in {"running", "abandoned"} /\ phase' = "exiting"
  /\ at[t] = "out"
  /\ runner' = t
  /\ Unharmed
  /\ UNCHANGED <<i, tables, stream, options, mutex, calls>>

\* fini empties the list under the mutex.
FiniList ==
  /\ Go("exiting", "closing")
  /\ at[runner] = "out" /\ holder = NoThread
  /\ Unharmed
  /\ UNCHANGED <<runner, i, tables, stream, options, mutex, calls>>

\* Seeded fault: fclose whatever fout is.
FiniClose_Stderr ==
  /\ Go("closing", "destroying")
  /\ closed' = (out # "null")
  /\ Unharmed
  /\ UNCHANGED <<runner, i, tables, out, options, mutex, calls>>

\* fclose(fout), unless it is stderr
FiniClose ==
  /\ Go("closing", "destroying")
  /\ closed' = (out \notin {"null", "stderr"})
  /\ Unharmed
  /\ UNCHANGED <<runner, i, tables, out, options, mutex, calls>>

\* pthread_mutex_destroy
FiniDestroy ==
  /\ Go("destroying", "after")
  /\ mutex' = "destroyed"
  /\ Disturb
  /\ UNCHANGED <<runner, i, tables, stream, options, calls>>

\* the remaining destructors have run
End ==
  /\ Go("after", "gone")
  /\ at[runner] = "out"
  /\ Unharmed
  /\ UNCHANGED <<runner, i, tables, stream, options, mutex, calls>>

-----------------------------------------------------------------------------
(* Calls                                                                   *)

Move(t, from, to) == at[t] = from /\ at' = [at EXCEPT ![t] = to]
\* Until the process is gone, any thread but the one that is in init or fini.
Awake(t) ==
  /\ phase # "gone" /\ harm = "none"
  /\ t = runner => phase \in {"before", "abandoned", "running", "exiting", "after"}

\* A thread calls a wrapper: ocltrace comes first in the search order and
\* exports every function, those the OpenCL library lacks included.
Begin(t) == \E f \in Function :
  /\ Awake(t)
  /\ Move(t, "out", "open")
  /\ fn' = [fn EXCEPT ![t] = f]
  /\ early' = [early EXCEPT ![t] = phase \in InitPhases \union {"abandoned"}]
  /\ named' = [named EXCEPT ![t] = FALSE]
  /\ UNCHANGED <<process, holder, history>>

\* A use of fout
Stream(t) ==
  IF out = "null" THEN Suffer("stream", t)
  ELSE IF closed THEN Suffer("closed", t) ELSE Unharmed

\* emit_open and the arguments
EmitOpen(t) ==
  /\ Awake(t)
  /\ Move(t, "open", "real")
  /\ Stream(t)
  /\ named' = [named EXCEPT ![t] = stats # 0]
  /\ UNCHANGED <<process, holder, fn, early>>

\* the call through opencl_fptr
Real(t) ==
  /\ Awake(t)
  /\ Move(t, "real", "end")
  /\ CASE real[fn[t]] = "null"    -> Suffer("function", t)
       [] real[fn[t]] = "wrapper" -> Suffer("recursion", t)
       [] real[fn[t]] = "real"    -> Unharmed
  /\ UNCHANGED <<process, holder, fn, named, early>>

\* emit_cl_int, emit_end: func_stats[e->name] if emit_stats is set by now
EmitEnd(t) ==
  /\ Awake(t)
  /\ Move(t, "end", "out")
  /\ \/ Stream(t) /\ (harm' # "none" \/ stats = 0 \/ named[t])
     \/ stats # 0 /\ ~named[t] /\ Suffer("name", t)
  /\ fn' = IF harm' = "none" THEN [fn EXCEPT ![t] = 0] ELSE fn
  /\ named' = [named EXCEPT ![t] = FALSE]
  /\ UNCHANGED <<process, holder, early>>

\* dlopen, dlclose, dlsym: pthread_mutex_lock
ShimLock(t) ==
  /\ Awake(t)
  /\ Move(t, "out", "shim")
  /\ \/ mutex = "good" /\ holder = NoThread /\ holder' = t /\ Unharmed
     \/ mutex = "destroyed" /\ Suffer("mutex", t) /\ UNCHANGED holder
  /\ early' = [early EXCEPT ![t] = phase \in InitPhases \union {"abandoned"}]
  /\ UNCHANGED <<process, fn, named>>

\* and pthread_mutex_unlock
ShimUnlock(t) ==
  /\ Awake(t)
  /\ Move(t, "shim", "out")
  /\ holder' = NoThread
  /\ Unharmed
  /\ UNCHANGED <<process, fn, named, early>>

-----------------------------------------------------------------------------
Initialise ==
  \/ InitMutex \/ OpenLibraries \/ OpenFails \/ Fill \/ SetHandle \/ SetStderr
  \/ OpenFile \/ SetOptions \/ OpenNull

Finalise == FiniList \/ FiniClose \/ FiniDestroy \/ End

Call(t) ==
  Begin(t) \/ EmitOpen(t) \/ Real(t) \/ EmitEnd(t) \/ ShimLock(t) \/ ShimUnlock(t)

Stopped == (phase = "gone" \/ harm # "none") /\ UNCHANGED vars

Next == Initialise \/ Finalise \/ (\E t \in Thread : Call(t) \/ Exit(t)) \/ Stopped

Spec == Init /\ [][Next]_vars

-----------------------------------------------------------------------------
(* Properties                                                              *)

\* The call that met harm began before init was through, or init never was:
\* the mutex or a library failed it.
TooEarly == \/ early[culprit]
            \/ phase \in FiniPhases /\ ~known

\* A call meets something that is not there only if it came too early, if fini
\* has begun to take things down, or if it is of a function that the OpenCL
\* library lacks (opencl_fptr holds NULL, ocltrace.c:167).  A program that calls
\* OpenCL from main until it leaves main is safe, whatever its other threads
\* did meanwhile and whatever file did not open.
UsableWhileRunning == harm # "none" =>
  \/ TooEarly
  \/ phase \in {"closing", "destroying", "after"}
  \/ harm = "function" /\ fn[culprit] \notin Provided

\* A wrapper never calls itself through opencl_fptr, and once libopencl_handle
\* is set every function the library has is there: init looks the functions up
\* through its own dlsym, which answers with wrappers from line 171 on.
RealIsReal ==
  /\ \A f \in Function : real[f] # "wrapper"
  /\ known => \A f \in Function : real[f] = "real" <=> f \in Provided

\* While fout is stderr no call fails for want of a stream, those that come
\* after fini included: fini leaves stderr open (ocltrace.c:226), and init does
\* not lose it when a file does not open (178, 198).
StderrSurvives ==
  /\ out = "stderr" => harm # "closed"
  /\ harm = "stream" => TooEarly
=============================================================================
